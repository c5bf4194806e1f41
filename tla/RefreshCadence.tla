--------------------------- MODULE RefreshCadence ---------------------------
(***************************************************************************)
(* One key refreshed over and over: every refresh feeds the hash and the   *)
(* streak it stored into the next decision (snapshotFromPayload), so that  *)
(* the rules that look at a streak are reached by a history of contents    *)
(* and not by made-up inputs.  Storage, time and failures are left to      *)
(* CommentService.                                                         *)
(***************************************************************************)
EXTENDS RefreshPolicy, Sequences, FiniteSets

CONSTANTS
  Configurations,  \* policies the service may be configured with
  AccessCounts,    \* recent access counts a row can hold at a refresh
  MaxRefreshes     \* bound: length of the history

ASSUME CadenceAssumption ==
  /\ Configurations \subseteq Policies
  /\ AccessCounts \subseteq Nat
  /\ MaxRefreshes \in Nat
  /\ None \notin RefreshDecisions

VARIABLES
  policy,     \* the configuration, fixed at start
  history,    \* the content stored by each refresh so far
  recent,     \* the recent access count the last decision saw
  decision    \* the last RefreshDecision, None before the first

vars == <<policy, history, recent, decision>>

Init ==
  /\ policy \in Configurations
  /\ history = <<>>
  /\ recent = 1
  /\ decision = None

\* RefreshContext of a refresh that fetched c; times are relative to the fetch.
Context(c, n) ==
  IF decision = None
    THEN [ info |-> ValidatePayload(c), previousHash |-> None,
           previousStreak |-> 0, recentAccessCount |-> 1 ]
    ELSE [ info |-> ValidatePayload(c), previousHash |-> history[Len(history)],
           previousStreak |-> decision.unchangedStreak, recentAccessCount |-> n ]

Refresh(c, n) ==
  /\ Len(history) < MaxRefreshes
  /\ decision' = NextRefreshDecision(policy, 0, Context(c, n))
  /\ recent' = Context(c, n).recentAccessCount
  /\ history' = Append(history, c)
  /\ UNCHANGED policy

\* The bound is reached: the key is not refreshed any more.
Finished == Len(history) = MaxRefreshes /\ UNCHANGED vars

Next == Finished \/ \E c \in Payloads, n \in AccessCounts : Refresh(c, n)

Spec == Init /\ [][Next]_vars

-----------------------------------------------------------------------------
TypeOK ==
  /\ policy \in Configurations
  /\ history \in Seq(Payloads)
  /\ recent \in Nat
  /\ \/ decision = None /\ history = <<>>
     \/ history # <<>> /\ decision \in RefreshDecisions

\* How many of the latest refreshes brought the content of the one before them,
\* read off the whole history.
UnchangedRefreshes ==
  LET n == Len(history)
  IN Cardinality({ i \in 2 .. n : \A j \in i .. n : history[j] = history[j - 1] })

\* README lines 244-251 as a table: each rule with its condition over the
\* history and its default interval.
Table ==
  LET c     == history[Len(history)]
      empty == c \in EmptyPayloads
      u     == UnchangedRefreshes
      hot   == isHot(policy, recent)
      early == ~empty /\ u < 3
  IN { [rule |-> "empty_danmaku",      when |-> empty,                        default |-> Hour],
       [rule |-> "hot_changed",        when |-> early /\ hot /\ u = 0,        default |-> 2 * Hour],
       [rule |-> "hot_unchanged",      when |-> early /\ hot /\ u # 0,        default |-> 6 * Hour],
       [rule |-> "normal_changed",     when |-> early /\ ~hot /\ u = 0,       default |-> 12 * Hour],
       [rule |-> "normal_unchanged",   when |-> early /\ ~hot /\ u # 0,       default |-> 24 * Hour],
       [rule |-> "stable_unchanged",   when |-> ~empty /\ u >= 3 /\ u < 7,    default |-> 3 * Day],
       [rule |-> "archived_unchanged", when |-> ~empty /\ u >= 7,             default |-> 7 * Day] }

Unconfigured == \A f \in Fields : policy[f] <= 0

\* The rule decided is the one the documented table gives for the history of
\* contents, and without configuration so is the interval, although the code
\* carries only the previous hash and a counter from one refresh to the next
\* (snapshotFromPayload, refreshInterval).
RuleMatchesHistory ==
  decision # None =>
    \E t \in Table : /\ t.when
                     /\ t.rule = decision.rule
                     /\ Unconfigured => decision.nextRefreshAt = t.default

\* Whatever the configuration holds, a refreshed snapshot is not due at once:
\* a refresh never leads straight to the next one (the > 0 guards of policy.go).
DecisionInFuture ==
  decision # None => decision.nextRefreshAt > 0

\* With every interval at its default, content that stays the same is polled
\* less and less often: no refresh shortens the interval while the content and
\* the heat of the key stay as they were (NextRefreshDecision).
BacksOff ==
  [][ /\ Unconfigured
      /\ decision # None
      /\ history'[Len(history')] = history[Len(history)]
      /\ isHot(policy, recent') = isHot(policy, recent)
      => decision'.nextRefreshAt >= decision.nextRefreshAt ]_vars
=============================================================================
