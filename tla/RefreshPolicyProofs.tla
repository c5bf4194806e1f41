------------------------ MODULE RefreshPolicyProofs ------------------------
(***************************************************************************)
(* What holds of the refresh policy for every configuration.               *)
(***************************************************************************)
EXTENDS RefreshPolicy, TLAPS

\* Every rule has a positive interval, whatever integers are configured.
LEMMA IntervalPositive ==
  ASSUME NEW p \in Policies, NEW rule
  PROVE  Interval(p, rule) \in Int /\ Interval(p, rule) > 0
<1>1. \A f \in Fields : p[f] \in Int
  BY DEF Policies
<1>2. ASSUME NEW c \in Int, NEW d \in Int, d > 0
      PROVE  Effective(c, d) \in Int /\ Effective(c, d) > 0
  BY <1>2 DEF Effective
<1>3. /\ Hour \in Int /\ Hour > 0 /\ Day \in Int /\ Day > 0
      /\ 7 * Day \in Int /\ 7 * Day > 0 /\ 3 * Day \in Int /\ 3 * Day > 0
      /\ 2 * Hour \in Int /\ 2 * Hour > 0 /\ 6 * Hour \in Int /\ 6 * Hour > 0
      /\ 12 * Hour \in Int /\ 12 * Hour > 0
  BY DEF Minute, Hour, Day
<1>4. /\ p.DefaultRefreshInterval \in Int /\ p.EmptyDanmakuRefreshInterval \in Int
      /\ p.HotChangedRefreshInterval \in Int /\ p.HotUnchangedRefreshInterval \in Int
      /\ p.NormalChangedRefreshInterval \in Int /\ p.StableRefreshInterval \in Int
      /\ p.ArchivedRefreshInterval \in Int
  BY <1>1 DEF Fields
<1>5. QED
  <2>1. Effective(p.EmptyDanmakuRefreshInterval, Hour) \in Int /\ Effective(p.EmptyDanmakuRefreshInterval, Hour) > 0
    BY <1>2, <1>3, <1>4
  <2>2. Effective(p.ArchivedRefreshInterval, 7 * Day) \in Int /\ Effective(p.ArchivedRefreshInterval, 7 * Day) > 0
    BY <1>2, <1>3, <1>4
  <2>3. Effective(p.StableRefreshInterval, 3 * Day) \in Int /\ Effective(p.StableRefreshInterval, 3 * Day) > 0
    BY <1>2, <1>3, <1>4
  <2>4. Effective(p.HotChangedRefreshInterval, 2 * Hour) \in Int /\ Effective(p.HotChangedRefreshInterval, 2 * Hour) > 0
    BY <1>2, <1>3, <1>4
  <2>5. Effective(p.HotUnchangedRefreshInterval, 6 * Hour) \in Int /\ Effective(p.HotUnchangedRefreshInterval, 6 * Hour) > 0
    BY <1>2, <1>3, <1>4
  <2>6. Effective(p.NormalChangedRefreshInterval, 12 * Hour) \in Int /\ Effective(p.NormalChangedRefreshInterval, 12 * Hour) > 0
    BY <1>2, <1>3, <1>4
  <2>7. Effective(p.DefaultRefreshInterval, Day) \in Int /\ Effective(p.DefaultRefreshInterval, Day) > 0
    BY <1>2, <1>3, <1>4
  <2>8. QED
    BY <2>1, <2>2, <2>3, <2>4, <2>5, <2>6, <2>7 DEF Interval

\* A snapshot fetched now is not due now, for every configuration and context,
\* and its streak is a natural number: no configuration makes the service fetch
\* a key again at once (NextRefreshDecision).
THEOREM DecisionIsLater ==
  ASSUME NEW p \in Policies, NEW now \in Int, NEW context \in RefreshContexts
  PROVE  LET decision == NextRefreshDecision(p, now, context)
         IN /\ decision.nextRefreshAt \in Int
            /\ decision.nextRefreshAt > now
            /\ decision.unchangedStreak \in Nat
<1>1. Interval(p, Rule(p, context)) \in Int /\ Interval(p, Rule(p, context)) > 0
  BY IntervalPositive
<1>2. Streak(context) \in Nat
  BY DEF Streak, RefreshContexts
<1>3. QED
  BY <1>1, <1>2 DEF NextRefreshDecision

\* Equal contents count one more, different contents start again at zero.
THEOREM StreakCounts ==
  ASSUME NEW p, NEW now, NEW context \in RefreshContexts
  PROVE  NextRefreshDecision(p, now, context).unchangedStreak =
           IF context.previousHash = context.info.hash
             THEN context.previousStreak + 1 ELSE 0
<1>1. context.info.hash # None
  BY SnapshotAssumption DEF RefreshContexts
<1>2. QED
  BY <1>1 DEF NextRefreshDecision, Streak, Changed
=============================================================================
