-------------------------- MODULE MCRefreshCadence --------------------------
EXTENDS RefreshCadence

CONSTANTS c1, c2, c0

MCPayloads == {c1, c2, c0}
MCEmptyPayloads == {c0}
MCAccessCounts == {1, 2, 10}

\* Nothing configured; everything negative (the guards must treat it alike);
\* small positive values, each different, with a threshold of 2.
Unset    == [f \in Fields |-> 0]
Negative == [f \in Fields |-> -5]
Tuned ==
  [ DefaultRefreshInterval |-> 1, EmptyDanmakuRefreshInterval |-> 2,
    RefreshFailureRetryInterval |-> 3, HotAccessThreshold |-> 2,
    AccessWindow |-> 4, HotChangedRefreshInterval |-> 5,
    HotUnchangedRefreshInterval |-> 6, NormalChangedRefreshInterval |-> 7,
    StableRefreshInterval |-> 8, ArchivedRefreshInterval |-> 9 ]
MCConfigurations == {Unset, Negative, Tuned}
=============================================================================
