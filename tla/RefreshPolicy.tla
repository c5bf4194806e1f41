--------------------------- MODULE RefreshPolicy ---------------------------
(***************************************************************************)
(* When a danmaku snapshot may be refreshed from the upstream API          *)
(* (services/danmaku/policy.go).  Everything here is a pure function of    *)
(* the configured policy p, the time of the fetch and the refresh context. *)
(* Durations and times are whole seconds.                                  *)
(***************************************************************************)
EXTENDS Snapshot

Minute == 60
Hour   == 60 * Minute
Day    == 24 * Hour

\* The tunable fields of RefreshPolicy; the configuration may hold any integer.
Fields ==
  { "DefaultRefreshInterval", "EmptyDanmakuRefreshInterval",
    "RefreshFailureRetryInterval", "HotAccessThreshold", "AccessWindow",
    "HotChangedRefreshInterval", "HotUnchangedRefreshInterval",
    "NormalChangedRefreshInterval", "StableRefreshInterval",
    "ArchivedRefreshInterval" }
Policies == [Fields -> Int]

\* Fault variant: zero counts as configured.
EffectiveZero(configured, fallback) ==
  IF configured >= 0 THEN configured ELSE fallback

\* A field that is not positive counts as not configured.
Effective(configured, fallback) ==
  IF configured > 0 THEN configured ELSE fallback

isHot(p, recentAccessCount) ==
  recentAccessCount >= Effective(p.HotAccessThreshold, 10)

accessWindow(p) == Effective(p.AccessWindow, Day)

\* info is what ValidatePayload says of the fetched payload.
RefreshContexts ==
  [ info : [hash : Payloads, empty : BOOLEAN],
    previousHash : Payloads \cup {None}, previousStreak : Nat,
    recentAccessCount : Nat ]

Rules ==
  { "empty_danmaku", "archived_unchanged", "stable_unchanged",
    "hot_changed", "hot_unchanged", "normal_changed", "normal_unchanged" }

RefreshDecisions == [ nextRefreshAt : Int, unchangedStreak : Nat, rule : Rules ]

Changed(context) ==
  context.previousHash = None \/ context.previousHash # context.info.hash

\* Fault variant: the first of a streak is not counted.
StreakFromMinusOne(context) ==
  IF Changed(context) THEN -1 ELSE context.previousStreak + 1

Streak(context) ==
  IF Changed(context) THEN 0 ELSE context.previousStreak + 1

\* Fault variants: archived one refresh too late; only at the seventh.
IsArchivedLate(streak)  == streak > 7
IsArchivedExact(streak) == streak = 7

IsArchived(streak) == streak >= 7

\* refreshInterval: which rule applies ...
Rule(p, context) ==
  IF context.info.empty THEN "empty_danmaku"
  ELSE IF IsArchived(Streak(context)) THEN "archived_unchanged"
  ELSE IF Streak(context) >= 3 THEN "stable_unchanged"
  ELSE IF isHot(p, context.recentAccessCount)
    THEN IF Changed(context) THEN "hot_changed" ELSE "hot_unchanged"
    ELSE IF Changed(context) THEN "normal_changed" ELSE "normal_unchanged"

\* ... and the interval it stands for.
Interval(p, rule) ==
  CASE rule = "empty_danmaku"      -> Effective(p.EmptyDanmakuRefreshInterval, Hour)
    [] rule = "archived_unchanged" -> Effective(p.ArchivedRefreshInterval, 7 * Day)
    [] rule = "stable_unchanged"   -> Effective(p.StableRefreshInterval, 3 * Day)
    [] rule = "hot_changed"        -> Effective(p.HotChangedRefreshInterval, 2 * Hour)
    [] rule = "hot_unchanged"      -> Effective(p.HotUnchangedRefreshInterval, 6 * Hour)
    [] rule = "normal_changed"     -> Effective(p.NormalChangedRefreshInterval, 12 * Hour)
    [] OTHER                       -> Effective(p.DefaultRefreshInterval, Day)

NextRefreshDecision(p, now, context) ==
  [ nextRefreshAt   |-> now + Interval(p, Rule(p, context)),
    unchangedStreak |-> Streak(context),
    rule            |-> Rule(p, context) ]

\* The one interval without a fallback: it may be zero or negative.
RefreshFailureRetryAt(p, now) == now + p.RefreshFailureRetryInterval
=============================================================================
