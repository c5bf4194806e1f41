--------------------------- MODULE SnapshotStore ---------------------------
(***************************************************************************)
(* The danmaku_snapshots table (storage/snapshots.go).  A key stands for   *)
(* (dandan_episode_id, variant_key).  row[k] holds the columns a refresh   *)
(* writes, access[k] the access statistics, which only RecordAccess may    *)
(* change once the row exists.  Each statement is one atomic step.         *)
(***************************************************************************)
EXTENDS Snapshot

CONSTANT Keys

ASSUME StoreAssumption == None \notin Keys

VARIABLES row, access

store == <<row, access>>

\* access_count, recent_access_count, recent_access_window_started_at.
AccessStats == [ total : Nat, recent : Nat, since : Nat \cup {None} ]

\* The column defaults of migration 003: a row older than the statistics.
NoAccess == [ total |-> 0, recent |-> 0, since |-> None ]

StoreTypeOK ==
  /\ row \in [Keys -> Snapshots \cup {None}]
  /\ access \in [Keys -> AccessStats]

\* Fault variant: on conflict the statistics are overwritten too.
UpsertEverything(k, snapshot, stats) ==
  /\ row' = [row EXCEPT ![k] = snapshot]
  /\ access' = [access EXCEPT ![k] = stats]

\* insert ... on conflict do update: the statistics are only inserted.
Upsert(k, snapshot, stats) ==
  /\ row' = [row EXCEPT ![k] = snapshot]
  /\ access' = IF row[k] = None THEN [access EXCEPT ![k] = stats] ELSE access

WindowOver(stats, at, window) ==
  stats.since = None \/ at - stats.since >= window

Accessed(stats, at, window) ==
  [ total  |-> stats.total + 1,
    recent |-> IF WindowOver(stats, at, window) THEN 1 ELSE stats.recent + 1,
    since  |-> IF WindowOver(stats, at, window) THEN at ELSE stats.since ]

\* update ... where key: no effect (ErrSnapshotNotFound) without a row.
RecordAccess(k, at, window) ==
  /\ access' = IF row[k] = None
                 THEN access
                 ELSE [access EXCEPT ![k] = Accessed(access[k], at, window)]
  /\ UNCHANGED row

MarkRefreshError(k, retryAt) ==
  /\ row' = IF row[k] = None
              THEN row
              ELSE [row EXCEPT ![k] = [@ EXCEPT !.nextRefreshAt = retryAt,
                                                !.status = "error"]]
  /\ UNCHANGED access
=============================================================================
