------------------------------ MODULE Snapshot ------------------------------
(***************************************************************************)
(* Upstream bodies and the snapshots made of them.                         *)
(*                                                                         *)
(* A body is Invalid or a payload: valid JSON with a comments array        *)
(* (services/danmaku/payload.go).  Of a payload only its hash and whether  *)
(* the array is empty are ever looked at; distinct payloads have distinct  *)
(* SHA-256 hashes, so a payload stands for its hash too.  Gzip and gunzip  *)
(* are inverse and lose nothing.                                           *)
(***************************************************************************)
EXTENDS Integers

CONSTANTS
  Payloads,        \* bodies ValidatePayload accepts
  EmptyPayloads,   \* those whose comments array is empty
  Invalid,         \* any body it rejects: an error page, JSON without comments
  None             \* the absent value: no row, no previous hash, a null column

\* The columns of storage.Snapshot that a refresh writes and a reader uses.
Snapshots ==
  [ content : Payloads, fetchedAt : Nat, nextRefreshAt : Int,
    unchangedStreak : Nat, status : {"success", "error"} ]

ASSUME SnapshotAssumption ==
  /\ EmptyPayloads \subseteq Payloads
  /\ Invalid \notin Payloads
  /\ None \notin Int
  /\ None \notin Payloads \cup Snapshots \cup [hash : Payloads, empty : BOOLEAN]

ValidatePayload(body) ==
  IF body = Invalid
    THEN None
    ELSE [ hash |-> body, empty |-> body \in EmptyPayloads ]
=============================================================================
