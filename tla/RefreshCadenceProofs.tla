------------------------ MODULE RefreshCadenceProofs ------------------------
(***************************************************************************)
(* What holds of a key refreshed over and over, for every configuration    *)
(* and every history of contents.                                          *)
(*                                                                         *)
(* RuleMatchesHistory is inductive once the streak that the row carries is *)
(* known to be the number read off the history (StreakIsHistory): a        *)
(* refresh with the previous content makes the run of equal contents one   *)
(* longer, any other one makes it empty (RunGrows).                        *)
(***************************************************************************)
EXTENDS RefreshCadence, RefreshPolicyProofs, FiniteSetTheorems

-----------------------------------------------------------------------------
(* One key refreshed over and over. *)

\* The context of any refresh of the key is a proper RefreshContext.
LEMMA ContextTyped ==
  ASSUME TypeOK, NEW c \in Payloads, NEW n \in AccessCounts
  PROVE  Context(c, n) \in RefreshContexts
<1>1. ValidatePayload(c) \in [hash : Payloads, empty : BOOLEAN]
  BY SnapshotAssumption DEF ValidatePayload
<1>2. n \in Nat
  BY CadenceAssumption
<1>3. CASE decision = None
  BY <1>1, <1>3 DEF Context, RefreshContexts
<1>4. CASE decision # None
  <2>1. history # <<>> /\ history \in Seq(Payloads) /\ decision.unchangedStreak \in Nat
    BY <1>4 DEF TypeOK, RefreshDecisions
  <2>2. history[Len(history)] \in Payloads
    BY <2>1
  <2>3. QED
    BY <1>1, <1>2, <1>4, <2>1, <2>2 DEF Context, RefreshContexts
<1>5. QED
  BY <1>3, <1>4

\* The types hold along every history, and no decision is due at once.
LEMMA CadenceInvariant == Spec => [](TypeOK /\ DecisionInFuture)
<1>1. Init => TypeOK /\ DecisionInFuture
  BY DEF Init, TypeOK, DecisionInFuture
<1>2. TypeOK /\ DecisionInFuture /\ [Next]_vars => (TypeOK /\ DecisionInFuture)'
  <2> SUFFICES ASSUME TypeOK, DecisionInFuture, [Next]_vars
               PROVE  (TypeOK /\ DecisionInFuture)'
    OBVIOUS
  <2>1. ASSUME NEW c \in Payloads, NEW n \in AccessCounts, Refresh(c, n)
        PROVE  (TypeOK /\ DecisionInFuture)'
    <3>1. Context(c, n) \in RefreshContexts
      BY ContextTyped
    <3>2. policy \in Policies /\ policy' = policy
      BY <2>1, CadenceAssumption DEF TypeOK, Refresh
    <3>3. decision' = NextRefreshDecision(policy, 0, Context(c, n))
      BY <2>1 DEF Refresh
    <3>4. decision' \in RefreshDecisions /\ decision'.nextRefreshAt > 0
      <4>1. Rule(policy, Context(c, n)) \in Rules
        BY DEF Rule, Rules
      <4>2. QED
        BY <3>1, <3>2, <3>3, <4>1, DecisionIsLater DEF NextRefreshDecision, RefreshDecisions
    <3>5. history' \in Seq(Payloads) /\ history' # <<>>
      BY <2>1 DEF Refresh, TypeOK
    <3>6. recent' \in Nat
      BY <2>1, <3>1 DEF Refresh, RefreshContexts
    <3>7. QED
      BY <3>2, <3>4, <3>5, <3>6 DEF TypeOK, DecisionInFuture
  <2>2. CASE UNCHANGED vars
    BY <2>2 DEF TypeOK, DecisionInFuture, vars
  <2>3. QED
    BY <2>1, <2>2 DEF Next, Finished
<1>3. QED
  BY <1>1, <1>2, PTL DEF Spec

\* However the service is configured and whatever the upstream returns, no
\* refresh leads straight to the next one.
THEOREM CadenceIsLater == Spec => []DecisionInFuture
  BY CadenceInvariant, PTL

\* History, counter and decision keep their types along every history.
THEOREM CadenceTyped == Spec => []TypeOK
  BY CadenceInvariant, PTL

-----------------------------------------------------------------------------
(* The carried counter and the history. *)

\* The places of a history from which on its contents stay the same.
Run(h) == { i \in 2 .. Len(h) : \A j \in i .. Len(h) : h[j] = h[j - 1] }

\* One more refresh makes the run longer or ends it.
LEMMA RunGrows ==
  ASSUME NEW h \in Seq(Payloads), h # <<>>, NEW c \in Payloads
  PROVE  Cardinality(Run(Append(h, c))) =
           IF c = h[Len(h)] THEN Cardinality(Run(h)) + 1 ELSE 0
<1> DEFINE g == Append(h, c)
           n == Len(h)
<1>1. /\ n \in Nat /\ n >= 1 /\ Len(g) = n + 1 /\ g[n + 1] = c
      /\ \A j \in 1 .. n : g[j] = h[j]
  OBVIOUS
<1>2. IsFiniteSet(Run(h)) /\ n + 1 \notin Run(h)
  <2>1. Run(h) \in SUBSET (2 .. n)
    BY DEF Run
  <2>2. IsFiniteSet(2 .. n)
    BY <1>1, FS_Interval
  <2>3. QED
    BY <1>1, <2>1, <2>2, FS_Subset
<1>3. CASE c = h[n]
  <2>1. ASSUME NEW i \in 2 .. n + 1
        PROVE  i \in Run(g) <=> i \in Run(h) \cup {n + 1}
    <3>1. CASE i = n + 1
      <4>1. i .. n + 1 = {n + 1}
        BY <1>1, <3>1
      <4>2. g[n + 1] = g[n + 1 - 1]
        BY <1>1, <1>3
      <4>3. QED
        BY <1>1, <3>1, <4>1, <4>2 DEF Run
    <3>2. CASE i # n + 1
      <4>1. i \in 2 .. n /\ \A j \in i .. n : g[j] = h[j] /\ g[j - 1] = h[j - 1]
        BY <1>1, <3>2
      <4>2. ASSUME NEW j \in i .. n + 1, j \notin i .. n
            PROVE  g[j] = g[j - 1]
        <5>1. n \in Nat /\ i \in Int /\ j \in Int /\ i <= j /\ j <= n + 1 /\ ~(j <= n)
          BY <1>1, <4>2
        <5> HIDE DEF n
        <5>2. j = n + 1 /\ j - 1 = n
          BY <5>1
        <5>3. QED
          BY <1>1, <1>3, <5>2
      <4>3. i .. n \subseteq i .. n + 1
        BY <1>1, <4>1
      <4>4. i \in Run(g) <=> \A j \in i .. n : g[j] = g[j - 1]
        BY <1>1, <4>2, <4>3 DEF Run
      <4>5. i \in Run(h) <=> \A j \in i .. n : h[j] = h[j - 1]
        BY <4>1 DEF Run
      <4>6. QED
        BY <3>2, <4>1, <4>4, <4>5
    <3>3. QED
      BY <3>1, <3>2
  <2>2. Run(g) \subseteq 2 .. n + 1 /\ Run(h) \cup {n + 1} \subseteq 2 .. n + 1
    BY <1>1 DEF Run
  <2>3. Run(g) = Run(h) \cup {n + 1}
    BY <2>1, <2>2
  <2>4. QED
    BY <1>2, <1>3, <2>3, FS_AddElement
<1>4. CASE c # h[n]
  <2>1. ASSUME NEW i \in Run(g)
        PROVE  FALSE
    <3>1. n + 1 \in i .. n + 1
      BY <1>1 DEF Run
    <3>2. g[n + 1] = g[n + 1 - 1]
      BY <1>1, <3>1 DEF Run
    <3>3. QED
      BY <1>1, <1>4, <3>2
  <2>2. Run(g) = {}
    BY <2>1
  <2>3. QED
    BY <1>4, <2>2, FS_EmptySet
<1>5. QED
  BY <1>3, <1>4

\* A row carries as its streak what its history says.
StreakIsHistory == decision # None => decision.unchangedStreak = Cardinality(Run(history))

\* The carried hash and counter say as much as the whole history.
LEMMA RefreshCounts ==
  ASSUME TypeOK, StreakIsHistory, NEW c \in Payloads, NEW n \in AccessCounts, Refresh(c, n)
  PROVE  /\ Streak(Context(c, n)) = Cardinality(Run(history'))
         /\ Changed(Context(c, n)) <=> Streak(Context(c, n)) = 0
<1>1. c # None /\ ValidatePayload(c).hash = c
  BY SnapshotAssumption DEF ValidatePayload
<1>2. history' = Append(history, c)
  BY DEF Refresh
<1>3. CASE decision = None
  <2>1. history = <<>>
    BY <1>3, CadenceAssumption DEF TypeOK
  <2>2. Len(history') = 1
    BY <1>2, <2>1
  <2>3. Run(history') = {}
    BY <2>2 DEF Run
  <2>4. QED
    BY <1>3, <2>3, FS_EmptySet DEF Context, Streak, Changed
<1>4. CASE decision # None
  <2>1. history # <<>> /\ history \in Seq(Payloads) /\ decision.unchangedStreak \in Nat
    BY <1>4 DEF TypeOK, RefreshDecisions
  <2>2. history[Len(history)] \in Payloads /\ history[Len(history)] # None
    BY <2>1, SnapshotAssumption
  <2>3. Cardinality(Run(history')) =
          IF c = history[Len(history)] THEN decision.unchangedStreak + 1 ELSE 0
    BY <1>2, <1>4, <2>1, RunGrows DEF StreakIsHistory
  <2>4. /\ Context(c, n).previousHash = history[Len(history)]
        /\ Context(c, n).previousStreak = decision.unchangedStreak
        /\ Context(c, n).info.hash = c
    BY <1>1, <1>4 DEF Context
  <2>5. QED
    BY <2>1, <2>2, <2>3, <2>4 DEF Streak, Changed
<1>5. QED
  BY <1>3, <1>4

\* A refresh decides by the rule that the table gives for the history.
LEMMA RefreshMatches ==
  ASSUME TypeOK, StreakIsHistory, NEW c \in Payloads, NEW n \in AccessCounts, Refresh(c, n)
  PROVE  StreakIsHistory' /\ RuleMatchesHistory'
<1> DEFINE context == Context(c, n)
           u == Streak(context)
<1>1. /\ u = Cardinality(Run(history'))
      /\ Changed(context) <=> u = 0
      /\ u \in Nat
  <2>1. u \in Nat
    BY ContextTyped DEF Streak, RefreshContexts
  <2>2. QED
    BY <2>1, RefreshCounts
<1>2. /\ decision' = NextRefreshDecision(policy, 0, context)
      /\ recent' = context.recentAccessCount
      /\ policy' = policy
      /\ history' = Append(history, c)
  BY DEF Refresh
<1>3. StreakIsHistory'
  BY <1>1, <1>2 DEF StreakIsHistory, NextRefreshDecision
<1>4. history'[Len(history')] = c
  BY <1>2 DEF TypeOK
<1>5. context.info.empty <=> c \in EmptyPayloads
  BY SnapshotAssumption DEF Context, ValidatePayload
<1>6. UnchangedRefreshes' = u
  BY <1>1 DEF UnchangedRefreshes, Run
<1> DEFINE hot == isHot(policy, recent')
           early == c \notin EmptyPayloads /\ u < 3
           rule == Rule(policy, context)
<1>7. /\ decision'.rule = rule
      /\ decision'.nextRefreshAt = 0 + Interval(policy, rule)
  BY <1>2 DEF NextRefreshDecision
<1>8. /\ \A f \in Fields : policy[f] \in Int
      /\ Unconfigured' <=> Unconfigured
  BY <1>2, CadenceAssumption DEF TypeOK, Policies, Unconfigured
<1> DEFINE InTable(name, when, default) ==
             \E t \in Table' : t.rule = name /\ t.when = when /\ t.default = default
<1>9. /\ InTable("empty_danmaku", c \in EmptyPayloads, Hour)
      /\ InTable("hot_changed", early /\ hot /\ u = 0, 2 * Hour)
      /\ InTable("hot_unchanged", early /\ hot /\ u # 0, 6 * Hour)
      /\ InTable("normal_changed", early /\ ~hot /\ u = 0, 12 * Hour)
      /\ InTable("normal_unchanged", early /\ ~hot /\ u # 0, 24 * Hour)
      /\ InTable("stable_unchanged", c \notin EmptyPayloads /\ u >= 3 /\ u < 7, 3 * Day)
      /\ InTable("archived_unchanged", c \notin EmptyPayloads /\ u >= 7, 7 * Day)
  <2>1. InTable("empty_danmaku", c \in EmptyPayloads, Hour)
    <3>1. [rule |-> "empty_danmaku", when |-> c \in EmptyPayloads, default |-> Hour] \in Table'
      BY <1>2, <1>4, <1>6, Zenon DEF Table
    <3>2. QED
      BY <3>1
  <2>2. InTable("hot_changed", early /\ hot /\ u = 0, 2 * Hour)
    <3>1. [rule |-> "hot_changed", when |-> early /\ hot /\ u = 0, default |-> 2 * Hour] \in Table'
      BY <1>2, <1>4, <1>6, Zenon DEF Table
    <3>2. QED
      BY <3>1
  <2>3. InTable("hot_unchanged", early /\ hot /\ u # 0, 6 * Hour)
    <3>1. [rule |-> "hot_unchanged", when |-> early /\ hot /\ u # 0, default |-> 6 * Hour] \in Table'
      BY <1>2, <1>4, <1>6, Zenon DEF Table
    <3>2. QED
      BY <3>1
  <2>4. InTable("normal_changed", early /\ ~hot /\ u = 0, 12 * Hour)
    <3>1. [rule |-> "normal_changed", when |-> early /\ ~hot /\ u = 0, default |-> 12 * Hour] \in Table'
      BY <1>2, <1>4, <1>6, Zenon DEF Table
    <3>2. QED
      BY <3>1
  <2>5. InTable("normal_unchanged", early /\ ~hot /\ u # 0, 24 * Hour)
    <3>1. [rule |-> "normal_unchanged", when |-> early /\ ~hot /\ u # 0, default |-> 24 * Hour] \in Table'
      BY <1>2, <1>4, <1>6, Zenon DEF Table
    <3>2. QED
      BY <3>1
  <2>6. InTable("stable_unchanged", c \notin EmptyPayloads /\ u >= 3 /\ u < 7, 3 * Day)
    <3>1. [rule |-> "stable_unchanged", when |-> c \notin EmptyPayloads /\ u >= 3 /\ u < 7, default |-> 3 * Day] \in Table'
      BY <1>2, <1>4, <1>6, Zenon DEF Table
    <3>2. QED
      BY <3>1
  <2>7. InTable("archived_unchanged", c \notin EmptyPayloads /\ u >= 7, 7 * Day)
    <3>1. [rule |-> "archived_unchanged", when |-> c \notin EmptyPayloads /\ u >= 7, default |-> 7 * Day] \in Table'
      BY <1>2, <1>4, <1>6, Zenon DEF Table
    <3>2. QED
      BY <3>1
  <2>8. QED
    BY <2>1, <2>2, <2>3, <2>4, <2>5, <2>6, <2>7
<1>10. ASSUME Unconfigured
       PROVE  /\ Interval(policy, "empty_danmaku") = Hour
              /\ Interval(policy, "hot_changed") = 2 * Hour
              /\ Interval(policy, "hot_unchanged") = 6 * Hour
              /\ Interval(policy, "normal_changed") = 12 * Hour
              /\ Interval(policy, "normal_unchanged") = 24 * Hour
              /\ Interval(policy, "stable_unchanged") = 3 * Day
              /\ Interval(policy, "archived_unchanged") = 7 * Day
  BY <1>8, <1>10 DEF Unconfigured, Fields, Interval, Effective, Day
<1>11. \E t \in Table' : t.when /\ t.rule = rule /\ (Unconfigured => Interval(policy, rule) = t.default)
  <2> HIDE DEF u, context
  <2>1. rule =
          IF c \in EmptyPayloads THEN "empty_danmaku"
          ELSE IF u >= 7 THEN "archived_unchanged"
          ELSE IF u >= 3 THEN "stable_unchanged"
          ELSE IF hot
            THEN IF u = 0 THEN "hot_changed" ELSE "hot_unchanged"
            ELSE IF u = 0 THEN "normal_changed" ELSE "normal_unchanged"
    BY <1>1, <1>2, <1>5 DEF Rule, IsArchived, u
  <2> HIDE DEF rule, hot
  <2>2. CASE c \in EmptyPayloads
    <3>1. rule = "empty_danmaku"
      BY <1>1, <2>1, <2>2
    <3>2. QED
      BY <1>9, <1>10, <2>2, <3>1, Zenon
  <2>3. CASE c \notin EmptyPayloads /\ u >= 7
    <3>1. rule = "archived_unchanged"
      BY <1>1, <2>1, <2>3
    <3>2. QED
      BY <1>9, <1>10, <2>3, <3>1, Zenon
  <2>4. CASE c \notin EmptyPayloads /\ u >= 3 /\ u < 7
    <3>1. rule = "stable_unchanged"
      BY <1>1, <2>1, <2>4
    <3>2. QED
      BY <1>9, <1>10, <2>4, <3>1, Zenon
  <2>5. CASE early /\ hot /\ u = 0
    <3>1. rule = "hot_changed"
      BY <1>1, <2>1, <2>5
    <3>2. QED
      BY <1>9, <1>10, <2>5, <3>1, Zenon
  <2>6. CASE early /\ hot /\ u # 0
    <3>1. rule = "hot_unchanged"
      BY <1>1, <2>1, <2>6
    <3>2. QED
      BY <1>9, <1>10, <2>6, <3>1, Zenon
  <2>7. CASE early /\ ~hot /\ u = 0
    <3>1. rule = "normal_changed"
      BY <1>1, <2>1, <2>7
    <3>2. QED
      BY <1>9, <1>10, <2>7, <3>1, Zenon
  <2>8. CASE early /\ ~hot /\ u # 0
    <3>1. rule = "normal_unchanged"
      BY <1>1, <2>1, <2>8
    <3>2. QED
      BY <1>9, <1>10, <2>8, <3>1, Zenon
  <2>9. QED
    BY <1>1, <2>2, <2>3, <2>4, <2>5, <2>6, <2>7, <2>8
<1>12. Interval(policy, rule) \in Int
  BY IntervalPositive, CadenceAssumption DEF TypeOK
<1>13. RuleMatchesHistory'
  BY <1>7, <1>8, <1>11, <1>12 DEF RuleMatchesHistory
<1>14. QED
  BY <1>3, <1>13

\* What a refresh starts from and what it leaves.
CadenceInv == TypeOK /\ StreakIsHistory /\ RuleMatchesHistory

LEMMA HistoryInvariant == Spec => []CadenceInv
<1>1. Init => CadenceInv
  BY DEF Init, CadenceInv, TypeOK, StreakIsHistory, RuleMatchesHistory
<1>2. CadenceInv /\ TypeOK' /\ [Next]_vars => CadenceInv'
  <2> SUFFICES ASSUME CadenceInv, TypeOK', [Next]_vars
               PROVE  StreakIsHistory' /\ RuleMatchesHistory'
    BY DEF CadenceInv
  <2>1. ASSUME NEW c \in Payloads, NEW n \in AccessCounts, Refresh(c, n)
        PROVE  StreakIsHistory' /\ RuleMatchesHistory'
    BY <2>1, RefreshMatches DEF CadenceInv
  <2>2. CASE UNCHANGED vars
    BY <2>2 DEF CadenceInv, StreakIsHistory, RuleMatchesHistory, Table, Unconfigured,
                UnchangedRefreshes, vars
  <2>3. QED
    BY <2>1, <2>2 DEF Next, Finished
<1>3. QED
  BY <1>1, <1>2, CadenceTyped, PTL DEF Spec

\* For every history of contents and access counts and every configuration the
\* rule chosen from the carried hash and counter is the documented one, and
\* without configuration so is the interval (refreshInterval).
THEOREM RulesMatchHistories == Spec => []RuleMatchesHistory
  BY HistoryInvariant, PTL DEF CadenceInv

\* The same content again: the counter goes up by one.
LEMMA SameContentCounts ==
  ASSUME CadenceInv, decision # None, NEW c \in Payloads, NEW n \in AccessCounts, Refresh(c, n),
         history'[Len(history')] = history[Len(history)]
  PROVE  /\ UnchangedRefreshes \in Nat
         /\ UnchangedRefreshes' = UnchangedRefreshes + 1
<1>1. history # <<>> /\ history \in Seq(Payloads) /\ history' = Append(history, c)
  BY DEF CadenceInv, TypeOK, Refresh
<1>2. c = history[Len(history)]
  BY <1>1
<1>3. Cardinality(Run(history)) = decision.unchangedStreak /\ decision.unchangedStreak \in Nat
  BY DEF CadenceInv, StreakIsHistory, TypeOK, RefreshDecisions
<1>4. Cardinality(Run(history')) = Cardinality(Run(history)) + 1
  BY <1>1, <1>2, RunGrows
<1>5. QED
  BY <1>3, <1>4 DEF UnchangedRefreshes, Run

\* The default interval of what a history says: whether its last content is
\* empty, how long it has stayed the same, and whether the key is hot.
DefaultInterval(empty, u, hot) ==
  IF empty THEN Hour
  ELSE IF u >= 7 THEN 7 * Day
  ELSE IF u >= 3 THEN 3 * Day
  ELSE IF hot THEN IF u = 0 THEN 2 * Hour ELSE 6 * Hour
  ELSE IF u = 0 THEN 12 * Hour ELSE 24 * Hour

IntervalFollowsHistory ==
  decision # None /\ Unconfigured =>
    /\ UnchangedRefreshes \in Nat
    /\ decision.nextRefreshAt =
         DefaultInterval(history[Len(history)] \in EmptyPayloads, UnchangedRefreshes,
                         isHot(policy, recent))

LEMMA HistoryGivesInterval == CadenceInv => IntervalFollowsHistory
<1> SUFFICES ASSUME CadenceInv, decision # None, Unconfigured
             PROVE  /\ UnchangedRefreshes \in Nat
                    /\ decision.nextRefreshAt =
                         DefaultInterval(history[Len(history)] \in EmptyPayloads,
                                         UnchangedRefreshes, isHot(policy, recent))
  BY DEF IntervalFollowsHistory
<1> DEFINE empty == history[Len(history)] \in EmptyPayloads
           u == UnchangedRefreshes
           hot == isHot(policy, recent)
<1>1. u \in Nat
  BY DEF CadenceInv, StreakIsHistory, TypeOK, RefreshDecisions, UnchangedRefreshes, Run
<1>2. PICK t \in Table : t.when /\ decision.nextRefreshAt = t.default
  BY DEF CadenceInv, RuleMatchesHistory
<1>3. \/ empty /\ t.default = Hour
      \/ ~empty /\ u < 3 /\ hot /\ u = 0 /\ t.default = 2 * Hour
      \/ ~empty /\ u < 3 /\ hot /\ u # 0 /\ t.default = 6 * Hour
      \/ ~empty /\ u < 3 /\ ~hot /\ u = 0 /\ t.default = 12 * Hour
      \/ ~empty /\ u < 3 /\ ~hot /\ u # 0 /\ t.default = 24 * Hour
      \/ ~empty /\ u >= 3 /\ u < 7 /\ t.default = 3 * Day
      \/ ~empty /\ u >= 7 /\ t.default = 7 * Day
  <2> DEFINE Row(when, default) == t.when = when /\ t.default = default
  <2>1. \/ Row(empty, Hour)
        \/ Row((~empty /\ u < 3) /\ hot /\ u = 0, 2 * Hour)
        \/ Row((~empty /\ u < 3) /\ hot /\ u # 0, 6 * Hour)
        \/ Row((~empty /\ u < 3) /\ ~hot /\ u = 0, 12 * Hour)
        \/ Row((~empty /\ u < 3) /\ ~hot /\ u # 0, 24 * Hour)
        \/ Row(~empty /\ u >= 3 /\ u < 7, 3 * Day)
        \/ Row(~empty /\ u >= 7, 7 * Day)
    <3>1. \/ t = [rule |-> "empty_danmaku", when |-> empty, default |-> Hour]
          \/ t = [rule |-> "hot_changed", when |-> (~empty /\ u < 3) /\ hot /\ u = 0, default |-> 2 * Hour]
          \/ t = [rule |-> "hot_unchanged", when |-> (~empty /\ u < 3) /\ hot /\ u # 0, default |-> 6 * Hour]
          \/ t = [rule |-> "normal_changed", when |-> (~empty /\ u < 3) /\ ~hot /\ u = 0, default |-> 12 * Hour]
          \/ t = [rule |-> "normal_unchanged", when |-> (~empty /\ u < 3) /\ ~hot /\ u # 0, default |-> 24 * Hour]
          \/ t = [rule |-> "stable_unchanged", when |-> ~empty /\ u >= 3 /\ u < 7, default |-> 3 * Day]
          \/ t = [rule |-> "archived_unchanged", when |-> ~empty /\ u >= 7, default |-> 7 * Day]
      BY <1>2 DEF Table
    <3>2. QED
      BY <3>1
  <2>2. QED
    BY <1>2, <2>1, ZenonT(60)
<1> HIDE DEF empty, u, hot
<1>4. decision.nextRefreshAt = DefaultInterval(empty, u, hot)
  BY <1>1, <1>2, <1>3 DEF DefaultInterval
<1>5. QED
  BY <1>1, <1>4 DEF empty, u, hot

\* With every interval at its default, no refresh that brings the same content
\* shortens the interval while the heat of the key stays as it was: the
\* thresholds of the streak and the intervals are in the same order
\* (refreshInterval).
THEOREM RefreshesBackOff == Spec => BacksOff
<1> DEFINE Kept == /\ Unconfigured
                   /\ decision # None
                   /\ history'[Len(history')] = history[Len(history)]
                   /\ isHot(policy, recent') = isHot(policy, recent)
<1>1. ASSUME CadenceInv, IntervalFollowsHistory, CadenceInv', IntervalFollowsHistory',
             [Next]_vars, ~(UNCHANGED vars), Kept
      PROVE  decision'.nextRefreshAt >= decision.nextRefreshAt
  <2>1. PICK c \in Payloads, n \in AccessCounts : Refresh(c, n)
    BY <1>1 DEF Next, Finished
  <2> DEFINE empty == history[Len(history)] \in EmptyPayloads
             u == UnchangedRefreshes
             hot == isHot(policy, recent)
  <2>2. u \in Nat /\ UnchangedRefreshes' = u + 1
    BY <1>1, <2>1, SameContentCounts
  <2>3. Unconfigured' /\ policy' = policy
    BY <1>1, <2>1 DEF Refresh, Unconfigured
  <2>4. decision' # None
    <3>1. history' # <<>>
      BY <1>1, <2>1 DEF Refresh, CadenceInv, TypeOK
    <3>2. QED
      BY <1>1, <3>1, CadenceAssumption DEF CadenceInv, TypeOK
  <2>5. decision.nextRefreshAt = DefaultInterval(empty, u, hot)
    BY <1>1 DEF IntervalFollowsHistory
  <2>6. decision'.nextRefreshAt = DefaultInterval(empty, u + 1, hot)
    BY <1>1, <2>2, <2>3, <2>4 DEF IntervalFollowsHistory
  <2> HIDE DEF empty, u, hot
  <2>7. QED
    BY <2>2, <2>5, <2>6 DEF DefaultInterval, Minute, Hour, Day
<1>2. CadenceInv /\ IntervalFollowsHistory /\ CadenceInv' /\ IntervalFollowsHistory' /\ [Next]_vars
        => [Kept => decision'.nextRefreshAt >= decision.nextRefreshAt]_vars
  BY <1>1
<1>3. Spec => [][Kept => decision'.nextRefreshAt >= decision.nextRefreshAt]_vars
  BY <1>2, HistoryInvariant, HistoryGivesInterval, PTL DEF Spec
<1>4. QED
  BY <1>3 DEF BacksOff
=============================================================================
