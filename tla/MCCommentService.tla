-------------------------- MODULE MCCommentService --------------------------
(***************************************************************************)
(* Small instances of the comment service for TLC.                         *)
(***************************************************************************)
EXTENDS CommentServiceProperties, TLC

CONSTANTS k1, k2, r1, r2, r3, w1, w2, p1, p2, empty

\* Intervals in ticks: a changed payload is due one tick later, an unchanged
\* one after two, a failed refresh after one.
MCPolicy ==
  [ DefaultRefreshInterval |-> 2, EmptyDanmakuRefreshInterval |-> 1,
    RefreshFailureRetryInterval |-> 1, HotAccessThreshold |-> 3,
    AccessWindow |-> 2, HotChangedRefreshInterval |-> 1,
    HotUnchangedRefreshInterval |-> 2, NormalChangedRefreshInterval |-> 1,
    StableRefreshInterval |-> 3, ArchivedRefreshInterval |-> 4 ]

\* A retry interval of zero, which the code does not guard.
MCNoRetryDelay == [MCPolicy EXCEPT !.RefreshFailureRetryInterval = 0]

\* A row written before the access statistics existed, due at the start.
MCLegacyRows ==
  { [ content |-> p1, fetchedAt |-> 0, nextRefreshAt |-> 1,
      unchangedStreak |-> 0, status |-> "success" ] }

Symmetry == Permutations({r1, r2, r3}) \cup Permutations({w1, w2})
=============================================================================
