------------------------ MODULE SnapshotCopiesProofs ------------------------
(***************************************************************************)
(* Copies of a row in Redis and in the hands of requests and workers:      *)
(* proofs for any number of keys, requests and workers, any configuration  *)
(* and any set of faults.                                                  *)
(*                                                                         *)
(* A row may be replaced in PostgreSQL only by a worker, which waits for   *)
(* it to be due; the copies of a row that is due are due themselves, so    *)
(* whatever is left of them cannot pass for the new row.                   *)
(***************************************************************************)
EXTENDS CommentServiceProofs

\* What a copy s shares with the row r it was made of, at time t: the same age
\* means the same content and, unless the copy is due, the same next time; a
\* copy of an earlier row is due.
IsCopy(s, r, t) ==
  /\ r # None
  /\ s.fetchedAt <= r.fetchedAt
  /\ s.fetchedAt = r.fetchedAt =>
       /\ s.content = r.content
       /\ s.nextRefreshAt = r.nextRefreshAt \/ s.nextRefreshAt <= t
  /\ s.fetchedAt < r.fetchedAt => s.nextRefreshAt <= t

CacheIsCopied == \A k \in Keys : cache[k] \in Snapshots => IsCopy(cache[k], row[k], now)

HeldIsCopied ==
  \A r \in Requests :
    key[r] \in Keys /\ snap[r] # None /\ pc[r] # "loadUpsert" => IsCopy(snap[r], row[key[r]], now)

WrittenIsCopied ==
  \A w \in Workers : wpc[w] = "cacheSet" => IsCopy(wsnap[w], row[wkey[w]], now)

\* A row was not fetched in the future, and one that is due not just now.
RowsAreDated ==
  \A k \in Keys : row[k] # None =>
    row[k].fetchedAt <= now /\ (Due(row[k]) => row[k].fetchedAt < now)

\* A first load calls the upstream only as long as there is no row.
FirstLoadsAreFirst ==
  \A r \in Requests :
    /\ pc[r] \in {"loadFetch", "loadUpsert"} => row[key[r]] = None
    /\ pc[r] = "loadUpsert" => /\ snap[r].fetchedAt <= now
                               /\ snap[r].fetchedAt < snap[r].nextRefreshAt

\* A key that is to be refreshed has a row.
PendingIsStored == \A k \in pending : row[k] # None

\* The row a worker replaces is the one it read, and it is due; what replaces
\* it is newer.
Replaces(s, r) ==
  /\ r.fetchedAt < s.fetchedAt
  /\ s.fetchedAt < s.nextRefreshAt
  /\ s.status = "success"
  /\ s.unchangedStreak = IF s.content = r.content THEN r.unchangedStreak + 1 ELSE 0

RefreshesAreDue ==
  \A w \in Workers :
    /\ wpc[w] \in {"fetch", "upsert", "markError"} => Due(row[wkey[w]])
    /\ wpc[w] \in {"check", "fetch"} => wsnap[w] = row[wkey[w]]
    /\ wpc[w] = "upsert" => Replaces(wsnap[w], row[wkey[w]]) /\ wsnap[w].fetchedAt <= now

\* A slot without a call holds no snapshot.
IdleHoldsNothing == \A r \in Requests : pc[r] = "idle" => snap[r] = None

CopyInvariant ==
  /\ CacheIsCopied
  /\ HeldIsCopied
  /\ WrittenIsCopied
  /\ RowsAreDated
  /\ FirstLoadsAreFirst
  /\ PendingIsStored
  /\ RefreshesAreDue
  /\ IdleHoldsNothing

\* Everything the copies rest on.
ServiceInvariant == TypeOK /\ QueueInvariant /\ FlightIsLive /\ CopyInvariant

-----------------------------------------------------------------------------
(* Copies and rows. *)

\* A row is its own copy.
LEMMA RowIsItsCopy ==
  ASSUME NEW r \in Snapshots, NEW t
  PROVE  IsCopy(r, r, t)
BY SnapshotAssumption DEF IsCopy, Snapshots

\* A copy stays one as time passes.
LEMMA CopyAges ==
  ASSUME NEW s \in Snapshots, NEW r \in Snapshots \cup {None}, NEW t \in Nat, NEW u \in Nat, t <= u,
         IsCopy(s, r, t)
  PROVE  IsCopy(s, r, u)
BY DEF IsCopy, Snapshots

\* A copy of a row that is due is a copy of every newer row.
LEMMA CopyOutlivesReplacement ==
  ASSUME NEW s \in Snapshots, NEW r \in Snapshots, NEW n \in Snapshots, NEW t \in Nat,
         IsCopy(s, r, t), r.nextRefreshAt <= t, r.fetchedAt < n.fetchedAt
  PROVE  IsCopy(s, n, t)
BY SnapshotAssumption DEF IsCopy, Snapshots

\* A copy of a row that is due is a copy of it with another next time.
LEMMA CopyOutlivesMark ==
  ASSUME NEW s \in Snapshots, NEW r \in Snapshots, NEW n \in Snapshots, NEW t \in Nat,
         IsCopy(s, r, t), r.nextRefreshAt <= t,
         n.fetchedAt = r.fetchedAt, n.content = r.content
  PROVE  IsCopy(s, n, t)
BY SnapshotAssumption DEF IsCopy, Snapshots

\* There is no copy without a row.
LEMMA NoCopyOfNothing == ASSUME NEW s, NEW t PROVE ~IsCopy(s, None, t)
BY DEF IsCopy

-----------------------------------------------------------------------------
(* What the invariant is for. *)

\* Every copy is one in the sense of IsCopy.
LEMMA CopiesAreCopies ==
  ASSUME TypeOK, CopyInvariant, NEW k \in Keys, NEW s \in Copies(k)
  PROVE  s \in Snapshots /\ IsCopy(s, row[k], now)
<1>1. CASE s = cache[k] /\ s \notin {None, BadEnvelope, BadPayload}
  BY <1>1 DEF TypeOK, CopyInvariant, CacheIsCopied
<1>2. ASSUME NEW r \in Requests, key[r] = k, snap[r] # None, pc[r] # "loadUpsert", s = snap[r]
      PROVE  s \in Snapshots /\ IsCopy(s, row[k], now)
  BY <1>2 DEF TypeOK, RequestTypeOK, CopyInvariant, HeldIsCopied
<1>3. ASSUME NEW w \in Workers, wkey[w] = k, wpc[w] = "cacheSet", s = wsnap[w]
      PROVE  s \in Snapshots /\ IsCopy(s, row[k], now)
  BY <1>3 DEF TypeOK, WorkerTypeOK, CopyInvariant, WrittenIsCopied
<1>4. QED
  BY <1>1, <1>2, <1>3 DEF Copies

\* The invariant implies both properties of copies.
LEMMA CopiesAreSafe ==
  ASSUME TypeOK, CopyInvariant
  PROVE  NoCopyAheadOfStore /\ FreshCopyIsCurrent
<1>1. ASSUME NEW k \in Keys, NEW s \in Copies(k)
      PROVE  /\ row[k] # None /\ s.fetchedAt <= row[k].fetchedAt
             /\ ~Due(s) => s.content = row[k].content /\ s.fetchedAt = row[k].fetchedAt
  <2>1. s \in Snapshots /\ IsCopy(s, row[k], now) /\ row[k] \in Snapshots
    BY CopiesAreCopies DEF IsCopy, TypeOK, StoreTypeOK
  <2>2. QED
    BY <2>1 DEF IsCopy, Due, Snapshots
<1>2. QED
  BY <1>1 DEF NoCopyAheadOfStore, FreshCopyIsCurrent

-----------------------------------------------------------------------------
(* Steps of a request. *)

\* A request goes on with what it holds.
LEMMA GotoKeepsHeld ==
  ASSUME TypeOK, HeldIsCopied, IdleHoldsNothing, NEW r \in Requests, InFlight(r), pc[r] # "loadUpsert",
         NEW step, step # "idle", Goto(r, step), UNCHANGED <<row, now>>
  PROVE  HeldIsCopied' /\ IdleHoldsNothing'
BY DEF Goto, HeldIsCopied, IdleHoldsNothing, TypeOK, RequestTypeOK

\* A request takes a copy, or a snapshot that is to be stored.
LEMMA HoldKeepsHeld ==
  ASSUME TypeOK, HeldIsCopied, IdleHoldsNothing, NEW r \in Requests, NEW s, NEW source,
         NEW step, step # "idle", Hold(r, s, source, step), UNCHANGED <<row, now>>,
         step = "loadUpsert" \/ IsCopy(s, row[key[r]], now)
  PROVE  HeldIsCopied' /\ IdleHoldsNothing'
BY DEF Hold, HeldIsCopied, IdleHoldsNothing, TypeOK, RequestTypeOK

\* A call and those that wait for it are answered with a copy or an error.
LEMMA AnswerKeepsHeld ==
  ASSUME TypeOK, HeldIsCopied, IdleHoldsNothing, NEW r \in Requests, NEW result, NEW s,
         Answer(r, result, s), UNCHANGED <<row, now>>,
         s = None \/ IsCopy(s, row[key[r]], now)
  PROVE  HeldIsCopied' /\ IdleHoldsNothing'
<1>1. ASSUME NEW q \in Requests
      PROVE  /\ key'[q] = key[q]
             /\ \/ pc'[q] = "done" /\ snap'[q] = s /\ key[q] = key[r]
                \/ pc'[q] = pc[q] /\ snap'[q] = snap[q]
  BY DEF Answer, Waiters
<1>2. QED
  BY <1>1 DEF HeldIsCopied, IdleHoldsNothing

\* What a request step that writes no row leaves to show.
LEMMA RowlessRequestStep ==
  ASSUME TypeOK, CopyInvariant, UNCHANGED <<row, now, refresher>>,
         CacheIsCopied', HeldIsCopied', IdleHoldsNothing', FirstLoadsAreFirst', PendingIsStored'
  PROVE  CopyInvariant'
<1>1. WrittenIsCopied'
  BY DEF CopyInvariant, WrittenIsCopied, refresher
<1>2. RowsAreDated'
  BY DEF CopyInvariant, RowsAreDated, Due
<1>3. RefreshesAreDue'
  BY DEF CopyInvariant, RefreshesAreDue, refresher, Due
<1>4. QED
  BY <1>1, <1>2, <1>3 DEF CopyInvariant

\* No step but LoadStoreGet leads to the upstream call of a first load.
LEMMA FirstLoadsKept ==
  ASSUME TypeOK, FirstLoadsAreFirst, UNCHANGED <<row, now>>, NEW r \in Requests,
         \/ \E step : step \notin {"loadFetch", "loadUpsert"} /\ Goto(r, step)
         \/ \E step, s, source : step \notin {"loadFetch", "loadUpsert"} /\ Hold(r, s, source, step)
         \/ \E result, s : Answer(r, result, s)
  PROVE  FirstLoadsAreFirst'
<1>1. ASSUME NEW q \in Requests, pc'[q] \in {"loadFetch", "loadUpsert"}
      PROVE  pc'[q] = pc[q] /\ key'[q] = key[q] /\ snap'[q] = snap[q]
  BY <1>1 DEF Goto, Hold, Answer, TypeOK, RequestTypeOK
<1>2. QED
  BY <1>1 DEF FirstLoadsAreFirst

\* The steps of GetComments and firstLoad that write no row.
LEMMA RequestStepKeepsCopies ==
  ASSUME TypeOK, CopyInvariant, NEW r \in Requests,
         RequestStep(r) \/ LoadFetch(r), pc[r] # "loadUpsert"
  PROVE  CopyInvariant'
<1> USE DEF InFlight, Fail, Serve
<1>1. /\ CacheIsCopied /\ HeldIsCopied /\ FirstLoadsAreFirst /\ PendingIsStored /\ IdleHoldsNothing
      /\ HeldIsCopied
  BY DEF CopyInvariant
<1>2. /\ UNCHANGED <<row, now, refresher>>
  BY DEF RequestStep, LoadFetch, CacheGet, StoreGet, LoadDo, LoadCacheGet, LoadStoreGet, LoadUpsert,
         LoadCacheSet, RequestRecordsAccess, RecordAccess, CheckDue, CacheDelete, MarkRefreshPending,
         SendRefresh, CacheSet, Deliver, ReadCache, ReadStore, store
<1>3. UNCHANGED cache => CacheIsCopied'
  BY <1>1, <1>2 DEF CacheIsCopied
<1>4. UNCHANGED pending => PendingIsStored'
  BY <1>1, <1>2 DEF PendingIsStored
<1>5. pc[r] \in HoldingSteps => /\ key[r] \in Keys /\ snap[r] \in Snapshots
                                /\ IsCopy(snap[r], row[key[r]], now)
  BY <1>1, SnapshotAssumption DEF TypeOK, RequestTypeOK, HeldIsCopied, HoldingSteps
<1>6. CASE CacheGet(r) \/ LoadCacheGet(r)
  <2>1. key[r] \in Keys /\ UNCHANGED <<cache, pending>>
    BY <1>6 DEF CacheGet, LoadCacheGet, ReadCache, redis, backlog, TypeOK, RequestTypeOK
  <2>2. cache[key[r]] \in Snapshots => IsCopy(cache[key[r]], row[key[r]], now)
    BY <1>1, <2>1 DEF CacheIsCopied
  <2>3. \/ /\ Hold(r, cache[key[r]], "redis", "access")
           /\ cache[key[r]] \in Snapshots
        \/ Answer(r, "failed", None)
        \/ Goto(r, "storeGet") \/ Goto(r, "loadStoreGet")
    BY <1>6, <2>1 DEF CacheGet, LoadCacheGet, ReadCache, CacheHit, Decodable, TypeOK
  <2>4. HeldIsCopied' /\ IdleHoldsNothing'
    BY <1>1, <1>2, <1>6, <2>2, <2>3, GotoKeepsHeld, HoldKeepsHeld, AnswerKeepsHeld DEF CacheGet, LoadCacheGet
  <2>5. FirstLoadsAreFirst'
    BY <1>1, <1>2, <2>3, FirstLoadsKept
  <2>6. QED
    BY <1>2, <1>3, <1>4, <2>1, <2>4, <2>5, RowlessRequestStep
<1>7. CASE StoreGet(r) \/ LoadStoreGet(r)
  <2>1. key[r] \in Keys /\ UNCHANGED <<cache, pending>>
    BY <1>7 DEF StoreGet, LoadStoreGet, ReadStore, redis, backlog, TypeOK, RequestTypeOK
  <2>2. \/ /\ Hold(r, row[key[r]], "postgres", "access")
           /\ row[key[r]] \in Snapshots
        \/ Answer(r, "failed", None)
        \/ Goto(r, "loadDo")
        \/ Goto(r, "loadFetch") /\ row[key[r]] = None
    BY <1>7, <2>1 DEF StoreGet, LoadStoreGet, ReadStore, Stored, TypeOK, StoreTypeOK
  <2>3. row[key[r]] \in Snapshots => IsCopy(row[key[r]], row[key[r]], now)
    BY RowIsItsCopy
  <2>4. HeldIsCopied' /\ IdleHoldsNothing'
    BY <1>1, <1>2, <1>7, <2>2, <2>3, GotoKeepsHeld, HoldKeepsHeld, AnswerKeepsHeld DEF StoreGet, LoadStoreGet
  <2>5. FirstLoadsAreFirst'
    <3>1. CASE Goto(r, "loadFetch") /\ row[key[r]] = None
      BY <1>1, <1>2, <3>1 DEF Goto, FirstLoadsAreFirst, TypeOK, RequestTypeOK
    <3>2. QED
      BY <1>1, <1>2, <2>2, <3>1, FirstLoadsKept
  <2>6. QED
    BY <1>2, <1>3, <1>4, <2>1, <2>4, <2>5, RowlessRequestStep
<1>8. CASE LoadFetch(r)
  <2>1. UNCHANGED <<cache, pending>> /\ pc[r] = "loadFetch" /\ key[r] \in Keys
    BY <1>8 DEF LoadFetch, redis, backlog, TypeOK, RequestTypeOK
  <2>2. ASSUME NEW body \in Payloads, Hold(r, snapshotFromPayload(body, None, NoAccess), "upstream", "loadUpsert")
        PROVE  HeldIsCopied' /\ IdleHoldsNothing' /\ FirstLoadsAreFirst'
    <3> DEFINE s == snapshotFromPayload(body, None, NoAccess)
    <3>1. NoAccess \in AccessStats
      BY DEF NoAccess, AccessStats
    <3>2. s \in Snapshots /\ s.fetchedAt = now /\ s.nextRefreshAt > now
      BY <3>1, SnapshotMade DEF TypeOK
    <3>3. HeldIsCopied' /\ IdleHoldsNothing'
      BY <1>1, <1>2, <2>2, HoldKeepsHeld
    <3>4. snap'[r] = s /\ pc'[r] = "loadUpsert" /\ key' = key
      BY <2>2 DEF Hold, TypeOK, RequestTypeOK
    <3>5. \A q \in Requests \ {r} : pc'[q] = pc[q] /\ snap'[q] = snap[q]
      BY <2>2 DEF Hold, TypeOK, RequestTypeOK
    <3>6. row[key[r]] = None
      BY <1>1, <2>1 DEF FirstLoadsAreFirst
    <3>7. FirstLoadsAreFirst'
      <4> HIDE DEF s
      <4>1. s.fetchedAt <= now /\ s.fetchedAt < s.nextRefreshAt
        BY <3>2 DEF Snapshots, TypeOK
      <4>2. QED
        BY <1>1, <1>2, <3>4, <3>5, <3>6, <4>1 DEF FirstLoadsAreFirst
    <3>8. QED
      BY <3>3, <3>7
  <2>3. ASSUME NEW result, Answer(r, result, None)
        PROVE  HeldIsCopied' /\ IdleHoldsNothing' /\ FirstLoadsAreFirst'
    BY <1>1, <1>2, <2>3, AnswerKeepsHeld, FirstLoadsKept
  <2>4. HeldIsCopied' /\ IdleHoldsNothing' /\ FirstLoadsAreFirst'
    <3>1. \A body \in Bodies : ValidatePayload(body) # None => body \in Payloads
      BY DEF Bodies, ValidatePayload
    <3>2. QED
      BY <1>8, <2>2, <2>3, <3>1 DEF LoadFetch
  <2>5. QED
    BY <1>2, <1>3, <1>4, <2>1, <2>4, RowlessRequestStep
<1>9. CASE LoadCacheSet(r) \/ CacheSet(r)
  <2>1. UNCHANGED pending /\ pc[r] \in HoldingSteps
    BY <1>9 DEF LoadCacheSet, CacheSet, backlog, HoldingSteps
  <2>2. CacheIsCopied'
    BY <1>1, <1>2, <1>5, <1>9, <2>1 DEF LoadCacheSet, CacheSet, Set, CacheIsCopied, TypeOK
  <2>3. \E result : Answer(r, result, snap[r])
    BY <1>9 DEF LoadCacheSet, CacheSet
  <2>4. HeldIsCopied' /\ IdleHoldsNothing' /\ FirstLoadsAreFirst'
    BY <1>1, <1>2, <1>5, <2>1, <2>3, AnswerKeepsHeld, FirstLoadsKept
  <2>5. QED
    BY <1>2, <1>4, <2>1, <2>2, <2>4, RowlessRequestStep
<1>10. CASE RequestRecordsAccess(r) \/ CheckDue(r) \/ CacheDelete(r) \/ MarkRefreshPending(r) \/ SendRefresh(r)
  <2>1. pc[r] \in HoldingSteps
    BY <1>10 DEF RequestRecordsAccess, CheckDue, CacheDelete, MarkRefreshPending, SendRefresh, HoldingSteps
  <2>2. CacheIsCopied'
    <3>1. cache' = cache \/ cache' = [cache EXCEPT ![key[r]] = None]
      BY <1>10 DEF RequestRecordsAccess, CheckDue, CacheDelete, MarkRefreshPending, SendRefresh, Delete, redis
    <3>2. QED
      BY <1>1, <1>2, <1>3, <3>1, SnapshotAssumption DEF CacheIsCopied, TypeOK
  <2>3. PendingIsStored'
    <3>1. pending' \subseteq pending \cup {key[r]}
      BY <1>10 DEF RequestRecordsAccess, CheckDue, CacheDelete, MarkRefreshPending, SendRefresh,
                   clearRefreshPending, backlog
    <3>2. row[key[r]] # None
      BY <1>5, <2>1 DEF IsCopy
    <3>3. QED
      BY <1>1, <1>2, <3>1, <3>2 DEF PendingIsStored
  <2>4. \/ \E step : step \notin {"idle", "loadFetch", "loadUpsert"} /\ Goto(r, step)
        \/ \E result : Answer(r, result, snap[r])
    <3>1. \/ \E step \in {"check", "cacheDelete", "mark", "cacheSet", "send"} : Goto(r, step)
          \/ \E result : Answer(r, result, snap[r])
      BY <1>10 DEF RequestRecordsAccess, CheckDue, CacheDelete, MarkRefreshPending, SendRefresh
    <3>2. QED
      BY <3>1
  <2>5. HeldIsCopied' /\ IdleHoldsNothing'
    BY <1>1, <1>2, <1>5, <2>1, <2>4, GotoKeepsHeld, AnswerKeepsHeld DEF HoldingSteps
  <2>6. FirstLoadsAreFirst'
    BY <1>1, <1>2, <2>4, FirstLoadsKept
  <2>7. QED
    BY <1>2, <2>2, <2>3, <2>5, <2>6, RowlessRequestStep
<1>11. CASE LoadDo(r)
  <2>1. UNCHANGED <<cache, pending, key, snap>> /\ pc[r] = "loadDo"
    BY <1>11 DEF LoadDo, redis, backlog
  <2>2. /\ pc'[r] \in {"loadCacheGet", "loadWait"}
        /\ \A q \in Requests \ {r} : pc'[q] = pc[q]
    BY <1>11 DEF LoadDo, TypeOK, RequestTypeOK
  <2>3. HeldIsCopied' /\ IdleHoldsNothing' /\ FirstLoadsAreFirst'
    BY <1>1, <1>2, <2>1, <2>2 DEF HeldIsCopied, IdleHoldsNothing, FirstLoadsAreFirst
  <2>4. QED
    BY <1>2, <1>3, <1>4, <2>1, <2>3, RowlessRequestStep
<1>12. CASE Deliver(r)
  <2>1. UNCHANGED <<cache, pending>>
    BY <1>12 DEF Deliver, redis, backlog
  <2>2. /\ pc'[r] = "idle" /\ snap'[r] = None
        /\ \A q \in Requests \ {r} : pc'[q] = pc[q] /\ snap'[q] = snap[q] /\ key'[q] = key[q]
    BY <1>12 DEF Deliver, TypeOK, RequestTypeOK
  <2>3. HeldIsCopied' /\ IdleHoldsNothing' /\ FirstLoadsAreFirst'
    BY <1>1, <1>2, <2>2 DEF HeldIsCopied, IdleHoldsNothing, FirstLoadsAreFirst
  <2>4. QED
    BY <1>2, <1>3, <1>4, <2>1, <2>3, RowlessRequestStep
<1>13. QED
  BY <1>6, <1>7, <1>8, <1>9, <1>10, <1>11, <1>12 DEF RequestStep, LoadUpsert

\* The write of a first load: the key had no row and so no copies; the leader
\* alone goes on, with the row it has written.
LEMMA LoadUpsertKeepsCopies ==
  ASSUME ServiceInvariant, NEW r \in Requests, LoadUpsert(r)
  PROVE  CopyInvariant'
<1> DEFINE k == key[r]
<1>1. /\ TypeOK /\ CacheIsCopied /\ HeldIsCopied /\ WrittenIsCopied /\ RowsAreDated
      /\ FirstLoadsAreFirst /\ PendingIsStored /\ RefreshesAreDue /\ IdleHoldsNothing
      /\ PendingIsLive /\ FlightIsLive
  BY DEF ServiceInvariant, CopyInvariant, QueueInvariant
<1>2. /\ k \in Keys /\ snap[r] \in Snapshots /\ pc[r] = "loadUpsert" /\ row[k] = None /\ Leads(r)
      /\ snap[r].fetchedAt <= now /\ snap[r].fetchedAt < snap[r].nextRefreshAt
  BY <1>1 DEF LoadUpsert, TypeOK, RequestTypeOK, InFlight, HoldingSteps, FirstLoadsAreFirst, FlightIsLive
<1>3. UNCHANGED <<now, redis, backlog, refresher>>
  BY DEF LoadUpsert
<1>4. /\ \A j \in Keys \ {k} : row'[j] = row[j]
      /\ row'[k] = snap[r] \/ row' = row
  BY <1>1, <1>2 DEF LoadUpsert, Upsert, store, TypeOK, StoreTypeOK
<1>5. \A q \in Requests \ {r} : pc[q] \in {"loadFetch", "loadUpsert"} => key[q] \in Keys \ {k}
  BY <1>1, <1>2 DEF FlightIsLive, Leads, TypeOK, RequestTypeOK, InFlight
<1>6. \A w \in Workers : wpc[w] # "idle" => wkey[w] \in Keys \ {k}
  BY <1>1, <1>2 DEF PendingIsLive, PendingIsStored, Refreshing, TypeOK, WorkerTypeOK
<1>7. \/ /\ Goto(r, "loadCacheSet") /\ row'[k] = snap[r]
      \/ Answer(r, "failed", None)
  BY <1>1, <1>2 DEF LoadUpsert, Upsert, Fail, TypeOK, StoreTypeOK
<1>8. CacheIsCopied'
  <2>1. ASSUME NEW j \in Keys, cache[j] \in Snapshots
        PROVE  IsCopy(cache[j], row'[j], now)
    <3>1. j # k
      BY <1>1, <1>2, <2>1, NoCopyOfNothing DEF CacheIsCopied
    <3>2. QED
      BY <1>1, <1>4, <2>1, <3>1 DEF CacheIsCopied
  <2>2. QED
    BY <1>3, <2>1 DEF CacheIsCopied, redis
<1>9. HeldIsCopied' /\ IdleHoldsNothing' /\ FirstLoadsAreFirst'
  <2>1. ASSUME NEW q \in Requests, key[q] \in Keys, snap[q] # None, pc[q] # "loadUpsert"
        PROVE  IsCopy(snap[q], row'[key[q]], now)
    <3>1. key[q] # k
      BY <1>1, <1>2, <2>1, NoCopyOfNothing DEF HeldIsCopied
    <3>2. QED
      BY <1>1, <1>4, <2>1, <3>1 DEF HeldIsCopied
  <2>2. CASE Goto(r, "loadCacheSet") /\ row'[k] = snap[r]
    <3>1. IsCopy(snap[r], row'[k], now)
      BY <1>2, <2>2, RowIsItsCopy
    <3>2. /\ key' = key /\ snap' = snap /\ pc'[r] = "loadCacheSet"
          /\ \A q \in Requests \ {r} : pc'[q] = pc[q]
      BY <1>1, <2>2 DEF Goto, TypeOK, RequestTypeOK
    <3>3. HeldIsCopied' /\ IdleHoldsNothing'
      BY <1>1, <1>2, <1>3, <2>1, <3>1, <3>2 DEF HeldIsCopied, IdleHoldsNothing
    <3>4. FirstLoadsAreFirst'
      BY <1>1, <1>3, <1>4, <1>5, <3>2 DEF FirstLoadsAreFirst
    <3>5. QED
      BY <3>3, <3>4
  <2>3. CASE Answer(r, "failed", None)
    <3>1. ASSUME NEW q \in Requests
          PROVE  /\ key'[q] = key[q]
                 /\ \/ pc'[q] = "done" /\ snap'[q] = None
                    \/ q # r /\ pc'[q] = pc[q] /\ snap'[q] = snap[q]
      BY <2>3 DEF Answer
    <3>2. HeldIsCopied' /\ IdleHoldsNothing'
      BY <1>1, <1>3, <2>1, <3>1 DEF HeldIsCopied, IdleHoldsNothing
    <3>3. FirstLoadsAreFirst'
      BY <1>1, <1>3, <1>4, <1>5, <3>1 DEF FirstLoadsAreFirst
    <3>4. QED
      BY <3>2, <3>3
  <2>4. QED
    BY <1>7, <2>2, <2>3
<1>10. WrittenIsCopied' /\ RefreshesAreDue'
  BY <1>1, <1>3, <1>4, <1>6 DEF WrittenIsCopied, RefreshesAreDue, refresher, Due
<1>11. RowsAreDated'
  <2>1. snap[r].fetchedAt <= now /\ (snap[r].nextRefreshAt <= now => snap[r].fetchedAt < now)
    BY <1>1, <1>2 DEF Snapshots, TypeOK
  <2>2. QED
    BY <1>1, <1>3, <1>4, <2>1 DEF RowsAreDated, Due
<1>12. PendingIsStored'
  BY <1>1, <1>2, <1>3, <1>4 DEF PendingIsStored, backlog, QueueTypeOK, TypeOK
<1>13. QED
  BY <1>8, <1>9, <1>10, <1>11, <1>12 DEF CopyInvariant

-----------------------------------------------------------------------------
(* Steps of a worker. *)

\* The steps of refreshWorker and refresh that write no row.
LEMMA WorkerStepKeepsCopies ==
  ASSUME ServiceInvariant, NEW w \in Workers,
         WorkerStep(w) \/ RefreshFetch(w), ~RefreshMarkError(w), ~RefreshUpsert(w)
  PROVE  CopyInvariant'
<1>1. /\ TypeOK /\ CacheIsCopied /\ HeldIsCopied /\ WrittenIsCopied /\ RowsAreDated
      /\ FirstLoadsAreFirst /\ PendingIsStored /\ RefreshesAreDue /\ IdleHoldsNothing
      /\ PendingIsLive
  BY DEF ServiceInvariant, CopyInvariant, QueueInvariant
<1>2. UNCHANGED <<now, row, flights>> /\ pending' \subseteq pending
  BY DEF WorkerStep, RefreshFetch, RefreshTake, RefreshStoreGet, RefreshCheck, RefreshCacheSet, ClearRefreshPending,
         clearRefreshPending, store, backlog
<1>3. HeldIsCopied' /\ IdleHoldsNothing' /\ FirstLoadsAreFirst' /\ RowsAreDated' /\ PendingIsStored'
  BY <1>1, <1>2 DEF HeldIsCopied, IdleHoldsNothing, FirstLoadsAreFirst, RowsAreDated, PendingIsStored, flights, Due
<1>4. \A v \in Workers \ {w} : wpc'[v] = wpc[v] /\ wkey'[v] = wkey[v] /\ wsnap'[v] = wsnap[v]
  BY <1>1 DEF WorkerStep, RefreshFetch, RefreshTake, RefreshStoreGet, RefreshCheck, RefreshCacheSet,
              ClearRefreshPending,
              WorkerGoto, TypeOK, WorkerTypeOK
<1>5. UNCHANGED cache => CacheIsCopied'
  BY <1>1, <1>2 DEF CacheIsCopied
<1>6. CASE RefreshTake(w) \/ ClearRefreshPending(w)
  <2>1. wpc'[w] \in {"storeGet", "idle"} /\ UNCHANGED cache
    BY <1>1, <1>6 DEF RefreshTake, ClearRefreshPending, redis, TypeOK, WorkerTypeOK
  <2>2. WrittenIsCopied' /\ RefreshesAreDue'
    BY <1>1, <1>2, <1>4, <2>1 DEF WrittenIsCopied, RefreshesAreDue, Due
  <2>3. QED
    BY <1>3, <1>5, <2>1, <2>2 DEF CopyInvariant
<1>7. CASE RefreshStoreGet(w)
  <2>1. row[wkey[w]] # None
    BY <1>1, <1>7 DEF RefreshStoreGet, PendingIsLive, PendingIsStored, Refreshing, TypeOK, WorkerTypeOK
  <2>2. /\ UNCHANGED cache /\ wkey' = wkey
        /\ wpc'[w] = "clear" \/ (wpc'[w] = "check" /\ wsnap'[w] = row[wkey[w]])
    BY <1>1, <1>7, <2>1 DEF RefreshStoreGet, Stored, WorkerGoto, redis, TypeOK, WorkerTypeOK
  <2>3. WrittenIsCopied' /\ RefreshesAreDue'
    BY <1>1, <1>2, <1>4, <2>2 DEF WrittenIsCopied, RefreshesAreDue, Due
  <2>4. QED
    BY <1>3, <1>5, <2>2, <2>3 DEF CopyInvariant
<1>8. CASE RefreshCheck(w)
  <2>1. /\ UNCHANGED <<cache, wkey, wsnap>> /\ wpc[w] = "check"
        /\ wpc'[w] = "clear" \/ (wpc'[w] = "fetch" /\ Due(wsnap[w]))
    BY <1>1, <1>8 DEF RefreshCheck, RefreshNeeded, WorkerGoto, redis, TypeOK, WorkerTypeOK
  <2>2. WrittenIsCopied' /\ RefreshesAreDue'
    BY <1>1, <1>2, <1>4, <2>1 DEF WrittenIsCopied, RefreshesAreDue, Due
  <2>3. QED
    BY <1>3, <1>5, <2>1, <2>2 DEF CopyInvariant
<1>9. CASE RefreshFetch(w)
  <2> DEFINE k == wkey[w]
             previous == row[k]
  <2>1. /\ UNCHANGED cache /\ wkey' = wkey /\ wpc[w] = "fetch"
    BY <1>9 DEF RefreshFetch, WorkerGoto, redis
  <2>2. /\ k \in Keys /\ previous \in Snapshots /\ Due(previous) /\ previous.fetchedAt < now
        /\ wsnap[w] = previous /\ wstats[w] \in AccessStats
    BY <1>1, <2>1 DEF RefreshesAreDue, RowsAreDated, PendingIsLive, PendingIsStored, Refreshing,
                      TypeOK, WorkerTypeOK, StoreTypeOK
  <2>3. WrittenIsCopied'
    BY <1>1, <1>2, <1>4, <1>9, <2>1 DEF RefreshFetch, WorkerGoto, WrittenIsCopied, TypeOK, WorkerTypeOK
  <2>4. ASSUME NEW body \in Payloads, NEW s, s = snapshotFromPayload(body, previous, wstats[w])
        PROVE  Replaces(s, previous) /\ s.fetchedAt = now
    <3> DEFINE context == ContextOf(body, previous, wstats[w])
    <3>1. /\ s \in Snapshots /\ s.content = body /\ s.fetchedAt = now /\ s.nextRefreshAt > now
      BY <1>1, <2>2, <2>4, SnapshotMade DEF TypeOK
    <3>2. previous # None
      BY <2>2, SnapshotAssumption
    <3>3. context = [info |-> [hash |-> body, empty |-> body \in EmptyPayloads],
                     previousHash |-> previous.content,
                     previousStreak |-> previous.unchangedStreak,
                     recentAccessCount |-> wstats[w].recent]
      BY <3>2, SnapshotAssumption DEF ContextOf, ValidatePayload
    <3>4. context \in RefreshContexts
      BY <2>2, <3>3 DEF RefreshContexts, Snapshots, AccessStats
    <3>5. s.unchangedStreak = NextRefreshDecision(Policy, now, context).unchangedStreak /\ s.status = "success"
      BY <2>4 DEF snapshotFromPayload
    <3>6. s.unchangedStreak = IF previous.content = body THEN previous.unchangedStreak + 1 ELSE 0
      BY <3>3, <3>4, <3>5, StreakCounts
    <3>7. s.fetchedAt < s.nextRefreshAt
      BY <1>1, <3>1 DEF Snapshots, TypeOK
    <3> HIDE DEF previous
    <3>8. QED
      BY <2>2, <3>1, <3>5, <3>6, <3>7 DEF Replaces
  <2>5. \/ wpc'[w] = "markError"
        \/ wpc'[w] = "upsert" /\ Replaces(wsnap'[w], previous) /\ wsnap'[w].fetchedAt = now
    <3>1. CASE WorkerGoto(w, "markError")
      BY <1>1, <3>1 DEF WorkerGoto, TypeOK, WorkerTypeOK
    <3>2. ASSUME NEW body \in Payloads, wsnap' = [wsnap EXCEPT ![w] = snapshotFromPayload(body, wsnap[w], wstats[w])],
                 wpc' = [wpc EXCEPT ![w] = "upsert"]
          PROVE  wpc'[w] = "upsert" /\ Replaces(wsnap'[w], previous) /\ wsnap'[w].fetchedAt = now
      <4>1. wpc'[w] = "upsert" /\ wsnap'[w] = snapshotFromPayload(body, previous, wstats[w])
        BY <1>1, <2>2, <3>2 DEF TypeOK, WorkerTypeOK
      <4>2. QED
        BY <2>4, <4>1
    <3>3. QED
      BY <1>9, <3>1, <3>2 DEF RefreshFetch
  <2>6. RefreshesAreDue'
    <3>1. now <= now
      BY <1>1 DEF TypeOK
    <3>2. QED
      BY <1>1, <1>2, <1>4, <2>1, <2>2, <2>5, <3>1 DEF RefreshesAreDue, Due
  <2>7. QED
    BY <1>3, <1>5, <2>1, <2>3, <2>6 DEF CopyInvariant
<1>10. CASE RefreshCacheSet(w)
  <2>1. wpc'[w] = "clear" /\ wkey' = wkey /\ wpc[w] = "cacheSet"
    BY <1>1, <1>10 DEF RefreshCacheSet, WorkerGoto, TypeOK, WorkerTypeOK
  <2>2. CacheIsCopied'
    BY <1>1, <1>2, <1>10, <2>1 DEF RefreshCacheSet, Set, CacheIsCopied, WrittenIsCopied, TypeOK
  <2>3. WrittenIsCopied' /\ RefreshesAreDue'
    BY <1>1, <1>2, <1>4, <2>1 DEF WrittenIsCopied, RefreshesAreDue, Due
  <2>4. QED
    BY <1>3, <2>2, <2>3 DEF CopyInvariant
<1>11. QED
  BY <1>6, <1>7, <1>8, <1>9, <1>10 DEF WorkerStep

\* A row that is due is replaced by a newer one, or gets another next time: its
\* copies, due themselves, stay copies, and nobody else works on it.
LEMMA RowWriteKeepsCopies ==
  ASSUME ServiceInvariant, NEW w \in Workers, RefreshMarkError(w) \/ RefreshUpsert(w)
  PROVE  CopyInvariant'
<1> DEFINE k == wkey[w]
           old == row[k]
           new == row'[k]
<1>1. /\ TypeOK /\ CacheIsCopied /\ HeldIsCopied /\ WrittenIsCopied /\ RowsAreDated
      /\ FirstLoadsAreFirst /\ PendingIsStored /\ RefreshesAreDue /\ IdleHoldsNothing
      /\ PendingIsLive /\ OneRefreshPerKey
  BY DEF ServiceInvariant, CopyInvariant, QueueInvariant
<1>2. wpc[w] \in {"markError", "upsert"} /\ UNCHANGED <<now, redis, flights, backlog>>
  BY DEF RefreshMarkError, RefreshUpsert
<1>3. k \in Keys /\ old \in Snapshots /\ old.nextRefreshAt <= now /\ old.fetchedAt < now
  BY <1>1, <1>2 DEF RefreshesAreDue, RowsAreDated, PendingIsLive, PendingIsStored, Refreshing, Due,
                    TypeOK, WorkerTypeOK, StoreTypeOK
<1>4. /\ \A j \in Keys \ {k} : row'[j] = row[j]
      /\ \A v \in Workers \ {w} : wpc'[v] = wpc[v]
      /\ UNCHANGED <<wkey, wsnap>>
  BY <1>1, <1>3 DEF RefreshMarkError, RefreshUpsert, MarkRefreshError, Upsert, WorkerGoto, store,
                    TypeOK, StoreTypeOK, WorkerTypeOK
<1>5. \/ new = old
      \/ new \in Snapshots /\ new.fetchedAt = old.fetchedAt /\ new.content = old.content
      \/ new = wsnap[w] /\ new \in Snapshots /\ old.fetchedAt < new.fetchedAt
         /\ new.fetchedAt <= now /\ new.fetchedAt < new.nextRefreshAt
  <2>1. CASE RefreshMarkError(w)
    <3> DEFINE at == RefreshFailureRetryAt(Policy, now)
    <3>1. at \in Int
      BY <1>1, ServiceAssumption DEF RefreshFailureRetryAt, Policies, Fields, TypeOK
    <3>2. new = old \/ new = [old EXCEPT !.nextRefreshAt = at, !.status = "error"]
      BY <1>1, <1>3, <2>1 DEF RefreshMarkError, MarkRefreshError, store, TypeOK, StoreTypeOK
    <3> HIDE DEF at, old, new
    <3>3. QED
      BY <1>3, <3>1, <3>2 DEF Snapshots
  <2>2. CASE RefreshUpsert(w)
    <3>1. wpc[w] = "upsert" /\ wsnap[w] \in Snapshots
      BY <1>1, <2>2 DEF RefreshUpsert, TypeOK, WorkerTypeOK
    <3>2. Replaces(wsnap[w], old) /\ wsnap[w].fetchedAt <= now
      BY <1>1, <3>1 DEF RefreshesAreDue
    <3>3. new = old \/ new = wsnap[w]
      BY <1>1, <1>3, <2>2 DEF RefreshUpsert, Upsert, store, TypeOK, StoreTypeOK
    <3>4. QED
      BY <3>1, <3>2, <3>3 DEF Replaces
  <2>3. QED
    BY <2>1, <2>2
<1>6. \A s \in Snapshots : IsCopy(s, old, now) => IsCopy(s, new, now)
  BY <1>1, <1>3, <1>5, CopyOutlivesReplacement, CopyOutlivesMark DEF TypeOK
<1>7. \A j \in Keys, s \in Snapshots : IsCopy(s, row[j], now) => IsCopy(s, row'[j], now)
  BY <1>4, <1>6
<1>8. CacheIsCopied' /\ HeldIsCopied' /\ IdleHoldsNothing'
  BY <1>1, <1>2, <1>7 DEF CacheIsCopied, HeldIsCopied, IdleHoldsNothing, redis, flights, TypeOK, RequestTypeOK
<1>9. WrittenIsCopied'
  <2>1. \A v \in Workers \ {w} : wpc'[v] = "cacheSet" => IsCopy(wsnap'[v], row'[wkey'[v]], now)
    BY <1>1, <1>4, <1>7 DEF WrittenIsCopied, TypeOK, WorkerTypeOK
  <2>2. wpc'[w] = "cacheSet" => new = wsnap[w] /\ wsnap[w] \in Snapshots
    BY <1>1, <1>3 DEF RefreshMarkError, RefreshUpsert, WorkerGoto, Upsert, TypeOK, WorkerTypeOK, StoreTypeOK
  <2>3. wpc'[w] = "cacheSet" => IsCopy(wsnap'[w], row'[wkey'[w]], now)
    BY <1>4, <2>2, RowIsItsCopy
  <2>4. QED
    BY <1>2, <2>1, <2>3 DEF WrittenIsCopied
<1>10. RowsAreDated'
  <2>1. new # None => new.fetchedAt <= now /\ (new.nextRefreshAt <= now => new.fetchedAt < now)
    BY <1>1, <1>3, <1>5 DEF Snapshots, TypeOK
  <2>2. QED
    BY <1>1, <1>2, <1>4, <2>1 DEF RowsAreDated, Due
<1>11. new # None
  BY <1>3, <1>5, SnapshotAssumption
<1>12. FirstLoadsAreFirst'
  <2>1. \A q \in Requests : pc[q] \in {"loadFetch", "loadUpsert"} => key[q] \in Keys \ {k}
    BY <1>1, <1>3, SnapshotAssumption DEF FirstLoadsAreFirst, TypeOK, RequestTypeOK, InFlight
  <2>2. QED
    BY <1>1, <1>2, <1>4, <2>1 DEF FirstLoadsAreFirst, flights
<1>13. PendingIsStored'
  BY <1>1, <1>2, <1>4, <1>11 DEF PendingIsStored, backlog, TypeOK, QueueTypeOK
<1>14. RefreshesAreDue'
  <2>1. \A v \in Workers \ {w} : wpc[v] # "idle" => wkey[v] \in Keys \ {k}
    BY <1>1, <1>2, <1>3 DEF OneRefreshPerKey, Refreshing, TypeOK, WorkerTypeOK
  <2>2. wpc'[w] \in {"clear", "cacheSet"}
    BY <1>1 DEF RefreshMarkError, RefreshUpsert, WorkerGoto, TypeOK, WorkerTypeOK
  <2>3. QED
    BY <1>1, <1>2, <1>4, <2>1, <2>2 DEF RefreshesAreDue, Due
<1>15. QED
  BY <1>8, <1>9, <1>10, <1>12, <1>13, <1>14 DEF CopyInvariant

-----------------------------------------------------------------------------
(* All other steps. *)

\* Arrivals, the clock, Redis losing or damaging entries, disconnects, crashes
\* and stuttering: copies may disappear and age, none is made.
LEMMA OtherStepsKeepCopies ==
  ASSUME ServiceInvariant,
         \/ \E r \in Requests : ArriveInvalid(r) \/ \E k \in Keys : Arrive(r, k)
         \/ Environment
         \/ UNCHANGED vars
  PROVE  CopyInvariant'
<1>1. /\ TypeOK /\ CacheIsCopied /\ HeldIsCopied /\ WrittenIsCopied /\ RowsAreDated
      /\ FirstLoadsAreFirst /\ PendingIsStored /\ RefreshesAreDue /\ IdleHoldsNothing
  BY DEF ServiceInvariant, CopyInvariant
<1>2. ASSUME NEW r \in Requests, ArriveInvalid(r) \/ \E k \in Keys : Arrive(r, k)
      PROVE  CopyInvariant'
  <2>1. /\ UNCHANGED <<now, store, redis, snap, backlog, refresher>>
        /\ pc[r] = "idle" /\ pc'[r] \in {"cacheGet", "done"}
        /\ \A q \in Requests \ {r} : pc'[q] = pc[q] /\ key'[q] = key[q]
    BY <1>1, <1>2 DEF Arrive, ArriveInvalid, TypeOK, RequestTypeOK
  <2>2. HeldIsCopied' /\ IdleHoldsNothing' /\ FirstLoadsAreFirst'
    BY <1>1, <2>1 DEF HeldIsCopied, IdleHoldsNothing, FirstLoadsAreFirst, store
  <2>3. CacheIsCopied' /\ PendingIsStored'
    BY <1>1, <2>1 DEF CacheIsCopied, PendingIsStored, store, redis, backlog
  <2>4. QED
    BY <2>1, <2>2, <2>3, RowlessRequestStep, <1>1 DEF store, CopyInvariant
<1>3. CASE Tick
  <2>1. /\ UNCHANGED <<store, redis, flights, backlog, refresher>> /\ now' = now + 1
        /\ now \in Nat /\ now + 1 \in Nat /\ now <= now + 1
    BY <1>1, <1>3 DEF Tick, TypeOK
  <2>2. \A s \in Snapshots, r \in Snapshots \cup {None} : IsCopy(s, r, now) => IsCopy(s, r, now + 1)
    BY <2>1, CopyAges
  <2>3. CacheIsCopied'
    BY <1>1, <2>1, <2>2 DEF CacheIsCopied, store, redis, TypeOK, StoreTypeOK
  <2>4. HeldIsCopied'
    BY <1>1, <2>1, <2>2 DEF HeldIsCopied, store, flights, TypeOK, StoreTypeOK, RequestTypeOK
  <2>5. WrittenIsCopied'
    BY <1>1, <2>1, <2>2 DEF WrittenIsCopied, store, refresher, TypeOK, StoreTypeOK, WorkerTypeOK
  <2>6. RowsAreDated'
    BY <1>1, <2>1 DEF RowsAreDated, store, TypeOK, StoreTypeOK, Snapshots, Due
  <2>7. FirstLoadsAreFirst'
    BY <1>1, <2>1 DEF FirstLoadsAreFirst, store, flights, TypeOK, RequestTypeOK, HoldingSteps, Snapshots
  <2>8. PendingIsStored' /\ IdleHoldsNothing'
    BY <1>1, <2>1 DEF PendingIsStored, IdleHoldsNothing, store, flights, backlog
  <2>9. RefreshesAreDue'
    <3>1. \A t \in Int : t <= now => t <= now + 1
      BY <2>1
    <3>2. \A w \in Workers : wpc[w] \in {"fetch", "upsert", "markError"} => row[wkey[w]] \in Snapshots
      <4>1. \A w \in Workers : wpc[w] # "idle" => wkey[w] \in pending
        BY <1>1 DEF ServiceInvariant, QueueInvariant, PendingIsLive, Refreshing, TypeOK, WorkerTypeOK
      <4>2. QED
        BY <1>1, <4>1 DEF PendingIsStored, TypeOK, StoreTypeOK, WorkerTypeOK
    <3>3. \A w \in Workers : wpc[w] \in {"fetch", "upsert", "markError"} =>
            row[wkey[w]].nextRefreshAt \in Int
      BY <3>2 DEF Snapshots
    <3>4. \A w \in Workers : wpc[w] = "upsert" => wsnap[w].fetchedAt \in Int
      BY <1>1 DEF TypeOK, WorkerTypeOK, Snapshots
    <3>5. QED
      BY <1>1, <2>1, <3>1, <3>3, <3>4 DEF RefreshesAreDue, Due, store, refresher
  <2>10. QED
    BY <2>3, <2>4, <2>5, <2>6, <2>7, <2>8, <2>9 DEF CopyInvariant
<1>4. ASSUME NEW k \in Keys, CacheExpires(k) \/ CacheDamaged(k)
      PROVE  CopyInvariant'
  <2>1. /\ UNCHANGED <<now, store, flights, backlog, refresher>>
        /\ \E e \in {None, BadEnvelope, BadPayload} : cache' = [cache EXCEPT ![k] = e]
    BY <1>4 DEF CacheExpires, CacheDamaged, Evict, Delete, Damage
  <2>2. CacheIsCopied'
    BY <1>1, <2>1, CacheAssumption, SnapshotAssumption DEF CacheIsCopied, TypeOK, store
  <2>3. HeldIsCopied' /\ IdleHoldsNothing' /\ FirstLoadsAreFirst' /\ PendingIsStored'
    BY <1>1, <2>1 DEF HeldIsCopied, IdleHoldsNothing, FirstLoadsAreFirst, PendingIsStored, store, flights, backlog
  <2>4. QED
    BY <1>1, <2>1, <2>2, <2>3, RowlessRequestStep DEF store, CopyInvariant
<1>5. CASE Crash
  <2>1. /\ UNCHANGED <<now, store, redis>> /\ pending' = {}
        /\ \A r \in Requests : pc'[r] = "idle" /\ snap'[r] = None
        /\ \A w \in Workers : wpc'[w] = "idle"
    BY <1>5 DEF Crash
  <2>2. CacheIsCopied' /\ RowsAreDated'
    BY <1>1, <2>1 DEF CacheIsCopied, RowsAreDated, store, redis, Due
  <2>3. HeldIsCopied' /\ IdleHoldsNothing' /\ FirstLoadsAreFirst' /\ PendingIsStored' /\ WrittenIsCopied' /\ RefreshesAreDue'
    BY <2>1 DEF HeldIsCopied, IdleHoldsNothing, FirstLoadsAreFirst, PendingIsStored, WrittenIsCopied, RefreshesAreDue
  <2>4. QED
    BY <2>2, <2>3 DEF CopyInvariant
<1>6. CASE UNCHANGED vars \/ \E r \in Requests : Disconnect(r)
  <2>1. UNCHANGED <<now, store, redis, pc, key, snap, backlog, refresher>>
    BY <1>6 DEF vars, flights, Disconnect
  <2>2. /\ CacheIsCopied' /\ HeldIsCopied' /\ IdleHoldsNothing' /\ FirstLoadsAreFirst' /\ PendingIsStored'
    BY <1>1, <2>1 DEF CacheIsCopied, HeldIsCopied, IdleHoldsNothing, FirstLoadsAreFirst, PendingIsStored,
                      store, redis, backlog
  <2>3. QED
    BY <1>1, <2>1, <2>2, RowlessRequestStep DEF store, CopyInvariant
<1>7. QED
  BY <1>2, <1>3, <1>4, <1>5, <1>6 DEF Environment

-----------------------------------------------------------------------------
(* The theorems. *)

\* The whole invariant is inductive.
LEMMA ServiceInvariantKept ==
  ASSUME ServiceInvariant, [Next]_vars
  PROVE  ServiceInvariant'
<1>1. TypeOK' /\ QueueInvariant' /\ FlightIsLive'
  BY NextTyped, NextKeepsQueue, NextKeepsFlight DEF ServiceInvariant
<1>2. CopyInvariant'
  <2>1. ASSUME NEW r \in Requests, RequestStep(r) \/ LoadFetch(r)
        PROVE  CopyInvariant'
    <3>1. CASE pc[r] = "loadUpsert"
      BY <2>1, <3>1, LoadUpsertKeepsCopies
         DEF RequestStep, LoadFetch, CacheGet, StoreGet, LoadDo, LoadCacheGet, LoadStoreGet, LoadCacheSet,
             RequestRecordsAccess, CheckDue, CacheDelete, MarkRefreshPending, SendRefresh, CacheSet, Deliver
    <3>2. CASE pc[r] # "loadUpsert"
      BY <2>1, <3>2, RequestStepKeepsCopies DEF ServiceInvariant
    <3>3. QED
      BY <3>1, <3>2
  <2>2. ASSUME NEW w \in Workers, WorkerStep(w) \/ RefreshFetch(w)
        PROVE  CopyInvariant'
    BY <2>2, WorkerStepKeepsCopies, RowWriteKeepsCopies
  <2>3. QED
    BY <2>1, <2>2, OtherStepsKeepCopies DEF Next
<1>3. QED
  BY <1>1, <1>2 DEF ServiceInvariant

\* At the start there are rows of an earlier deployment and no copies.
LEMMA ServiceInvariantInit == Init => ServiceInvariant
<1> SUFFICES ASSUME Init PROVE ServiceInvariant
  OBVIOUS
<1>1. TypeOK /\ QueueInvariant /\ FlightIsLive
  BY InitTyped, InitQueue, InitFlight
<1>2. CacheIsCopied
  BY SnapshotAssumption DEF Init, CacheIsCopied
<1>3. RowsAreDated
  BY ServiceAssumption DEF Init, RowsAreDated
<1>4. HeldIsCopied /\ WrittenIsCopied /\ FirstLoadsAreFirst /\ PendingIsStored /\ RefreshesAreDue /\ IdleHoldsNothing
  BY DEF Init, StartEmpty, HeldIsCopied, WrittenIsCopied, FirstLoadsAreFirst, PendingIsStored,
         RefreshesAreDue, IdleHoldsNothing
<1>5. QED
  BY <1>1, <1>2, <1>3, <1>4 DEF ServiceInvariant, CopyInvariant

\* The invariant of the service.
LEMMA ServiceInvariantHolds == Spec => []ServiceInvariant
  BY ServiceInvariantInit, ServiceInvariantKept, PTL DEF Spec

\* No crash, failed write or interleaving leaves a copy in Redis or in the hands
\* of a request that is newer than PostgreSQL (GetComments, firstLoad, refresh).
THEOREM NoCopyIsAhead == Spec => []NoCopyAheadOfStore
<1>1. ServiceInvariant => NoCopyAheadOfStore
  BY CopiesAreSafe DEF ServiceInvariant
<1>2. QED
  BY <1>1, ServiceInvariantHolds, PTL

\* A copy that is not due is what PostgreSQL holds, however many requests and
\* workers write Redis from what they read earlier.
THEOREM FreshCopiesAreCurrent == Spec => []FreshCopyIsCurrent
<1>1. ServiceInvariant => FreshCopyIsCurrent
  BY CopiesAreSafe DEF ServiceInvariant
<1>2. QED
  BY <1>1, ServiceInvariantHolds, PTL

\* Rows are written by three steps only.
LEMMA WhoWritesRows ==
  ASSUME [Next]_vars, row' # row
  PROVE  \/ \E r \in Requests : LoadUpsert(r)
         \/ \E w \in Workers : RefreshUpsert(w) \/ RefreshMarkError(w)
BY DEF Next, vars, store, RequestStep, WorkerStep, Environment, ArriveInvalid, Arrive, LoadFetch, RefreshFetch,
       CacheGet, StoreGet, LoadDo, LoadCacheGet, LoadStoreGet, LoadCacheSet, RequestRecordsAccess, RecordAccess,
       CheckDue, CacheDelete, MarkRefreshPending, SendRefresh, CacheSet, Deliver, ReadCache, ReadStore,
       RefreshTake, RefreshStoreGet, RefreshCheck, RefreshCacheSet, ClearRefreshPending, Tick, CacheExpires,
       CacheDamaged, Disconnect, Crash

\* A stored row changes only by a whole newer refresh whose streak counts from the
\* row it replaces, or by the note of a failed one, although the row was read
\* before the upstream call and is written after it.
THEOREM RowsEvolve == Spec => RowEvolves
<1> DEFINE Evolves(k) ==
      \/ /\ row'[k].fetchedAt > row[k].fetchedAt
         /\ row'[k].status = "success"
         /\ row'[k].unchangedStreak =
              IF row'[k].content = row[k].content THEN row[k].unchangedStreak + 1 ELSE 0
      \/ /\ row'[k].status = "error"
         /\ row'[k].fetchedAt = row[k].fetchedAt
         /\ row'[k].content = row[k].content
         /\ row'[k].unchangedStreak = row[k].unchangedStreak
<1>1. ASSUME ServiceInvariant, [Next]_vars, NEW k \in Keys, row[k] # None, row'[k] # row[k]
      PROVE  Evolves(k)
  <2>1. /\ TypeOK /\ FirstLoadsAreFirst /\ RefreshesAreDue
    BY <1>1 DEF ServiceInvariant, CopyInvariant
  <2>2. ASSUME NEW r \in Requests, LoadUpsert(r)
        PROVE  FALSE
    <3>1. row[key[r]] = None
      BY <2>1, <2>2 DEF LoadUpsert, FirstLoadsAreFirst
    <3>2. QED
      BY <1>1, <2>1, <2>2, <3>1 DEF LoadUpsert, Upsert, store, TypeOK, StoreTypeOK
  <2>3. ASSUME NEW w \in Workers, RefreshUpsert(w)
        PROVE  Evolves(k)
    <3>1. wpc[w] = "upsert" /\ wkey[w] = k /\ row'[k] = wsnap[w] /\ wsnap[w] \in Snapshots /\ row[k] \in Snapshots
      BY <1>1, <2>1, <2>3 DEF RefreshUpsert, Upsert, store, TypeOK, StoreTypeOK, WorkerTypeOK
    <3>2. Replaces(wsnap[w], row[k])
      BY <2>1, <3>1 DEF RefreshesAreDue
    <3>3. QED
      BY <3>1, <3>2 DEF Replaces, Snapshots
  <2>4. ASSUME NEW w \in Workers, RefreshMarkError(w)
        PROVE  Evolves(k)
    <3> DEFINE at == RefreshFailureRetryAt(Policy, now)
    <3>1. row'[k] = [row[k] EXCEPT !.nextRefreshAt = at, !.status = "error"] /\ row[k] \in Snapshots
      BY <1>1, <2>1, <2>4 DEF RefreshMarkError, MarkRefreshError, store, TypeOK, StoreTypeOK
    <3> HIDE DEF at
    <3>2. QED
      BY <3>1 DEF Snapshots
  <2>5. row' # row
    BY <1>1
  <2>6. QED
    BY <1>1, <2>2, <2>3, <2>4, <2>5, WhoWritesRows
<1>2. ServiceInvariant /\ [Next]_vars => [\A k \in Keys : row[k] # None /\ row'[k] # row[k] => Evolves(k)]_vars
  BY <1>1
<1>3. QED
  BY <1>2, ServiceInvariantHolds, PTL DEF Spec, RowEvolves

\* Without a row there are no statistics.
CountedWithRow == \A k \in Keys : row[k] = None => access[k] = NoAccess

\* Statistics come with a row and change only where there is one.
LEMMA CountedWithRowKept ==
  ASSUME ServiceInvariant, CountedWithRow, [Next]_vars
  PROVE  /\ CountedWithRow'
         /\ \A k \in Keys : access'[k].total \in {access[k].total, access[k].total + 1}
<1> USE DEF ServiceInvariant
<1>1. \A k \in Keys : access[k] \in AccessStats /\ row[k] \in Snapshots \cup {None}
  BY DEF TypeOK, StoreTypeOK
<1>2. \A k \in Keys : access[k].total \in Nat
  BY <1>1 DEF AccessStats
<1>3. CASE UNCHANGED store
  BY <1>3 DEF store, CountedWithRow
<1>4. ASSUME NEW k \in Keys, NEW s \in Snapshots, NEW stats \in AccessStats, Upsert(k, s, stats),
             row[k] = None => stats.total = 1
      PROVE  /\ CountedWithRow'
             /\ \A j \in Keys : access'[j].total \in {access[j].total, access[j].total + 1}
  <2>1. row'[k] # None /\ \A j \in Keys \ {k} : row'[j] = row[j] /\ access'[j] = access[j]
    BY <1>4, SnapshotAssumption DEF Upsert, TypeOK, StoreTypeOK
  <2>2. access'[k] = access[k] \/ (row[k] = None /\ access'[k] = stats)
    BY <1>4 DEF Upsert, TypeOK, StoreTypeOK
  <2>3. row[k] = None => access[k].total = 0
    BY DEF CountedWithRow, NoAccess
  <2>4. QED
    BY <1>2, <1>4, <2>1, <2>2, <2>3 DEF CountedWithRow
<1>5. ASSUME NEW r \in Requests, RequestRecordsAccess(r)
      PROVE  /\ CountedWithRow'
             /\ \A j \in Keys : access'[j].total \in {access[j].total, access[j].total + 1}
  <2> DEFINE k == key[r]
             counted == Accessed(access[k], now, accessWindow(Policy))
  <2>1. row' = row /\ (access' = access \/ (row[k] # None /\ access' = [access EXCEPT ![k] = counted]))
    BY <1>5 DEF RequestRecordsAccess, RecordAccess, store
  <2>2. counted.total = access[k].total + 1
    BY DEF Accessed
  <2> HIDE DEF counted
  <2>3. QED
    BY <1>2, <2>1, <2>2 DEF CountedWithRow, TypeOK, StoreTypeOK
<1>6. ASSUME NEW r \in Requests, LoadUpsert(r)
      PROVE  /\ CountedWithRow'
             /\ \A j \in Keys : access'[j].total \in {access[j].total, access[j].total + 1}
  <2>1. key[r] \in Keys /\ snap[r] \in Snapshots
    BY <1>6 DEF LoadUpsert, TypeOK, RequestTypeOK, InFlight, HoldingSteps
  <2>2. FirstAccess(snap[r].fetchedAt) \in AccessStats /\ FirstAccess(snap[r].fetchedAt).total = 1
    BY <2>1 DEF FirstAccess, AccessStats, Snapshots
  <2>3. Upsert(key[r], snap[r], FirstAccess(snap[r].fetchedAt)) \/ UNCHANGED store
    BY <1>6 DEF LoadUpsert
  <2>4. QED
    BY <1>3, <1>4, <2>1, <2>2, <2>3
<1>7. ASSUME NEW w \in Workers, RefreshUpsert(w)
      PROVE  /\ CountedWithRow'
             /\ \A j \in Keys : access'[j].total \in {access[j].total, access[j].total + 1}
  <2>1. wkey[w] \in Keys /\ wsnap[w] \in Snapshots /\ wstats[w] \in AccessStats /\ wpc[w] = "upsert"
    BY <1>7 DEF RefreshUpsert, TypeOK, WorkerTypeOK
  <2>2. row[wkey[w]] # None
    BY <1>7, <2>1 DEF QueueInvariant, CopyInvariant, PendingIsLive, PendingIsStored, Refreshing
  <2>3. Upsert(wkey[w], wsnap[w], wstats[w]) \/ UNCHANGED store
    BY <1>7 DEF RefreshUpsert
  <2>4. QED
    BY <1>3, <1>4, <2>1, <2>2, <2>3
<1>8. ASSUME NEW w \in Workers, RefreshMarkError(w)
      PROVE  /\ CountedWithRow'
             /\ \A j \in Keys : access'[j].total \in {access[j].total, access[j].total + 1}
  <2> DEFINE at == RefreshFailureRetryAt(Policy, now)
             marked == [row[wkey[w]] EXCEPT !.nextRefreshAt = at, !.status = "error"]
  <2>1. at \in Int
    BY ServiceAssumption DEF RefreshFailureRetryAt, Policies, Fields, TypeOK
  <2>2. access' = access /\ (row' = row \/ (row[wkey[w]] # None /\ row' = [row EXCEPT ![wkey[w]] = marked]))
    BY <1>8 DEF RefreshMarkError, MarkRefreshError, store
  <2> HIDE DEF at
  <2>3. row[wkey[w]] # None /\ wkey[w] \in Keys => marked \in Snapshots
    BY <2>1 DEF TypeOK, StoreTypeOK, Snapshots
  <2> HIDE DEF marked
  <2>4. \A j \in Keys : row'[j] = None => row[j] = None
    BY <2>2, <2>3, SnapshotAssumption DEF TypeOK, StoreTypeOK
  <2>5. QED
    BY <2>2, <2>4 DEF CountedWithRow
<1>9. \/ UNCHANGED store
      \/ \E r \in Requests : RequestRecordsAccess(r) \/ LoadUpsert(r)
      \/ \E w \in Workers : RefreshUpsert(w) \/ RefreshMarkError(w)
  BY DEF Next, vars, RequestStep, WorkerStep, Environment, ArriveInvalid, Arrive, LoadFetch, RefreshFetch,
         CacheGet, StoreGet, LoadDo, LoadCacheGet, LoadStoreGet, LoadCacheSet, CheckDue, CacheDelete,
         MarkRefreshPending, SendRefresh, CacheSet, Deliver, ReadCache, ReadStore, RefreshTake,
         RefreshStoreGet, RefreshCheck, RefreshCacheSet, ClearRefreshPending, Tick, CacheExpires, CacheDamaged,
         Disconnect, Crash
<1>10. QED
  BY <1>3, <1>5, <1>6, <1>7, <1>8, <1>9

\* An access once counted is never lost, also to a refresh that read the
\* statistics before it (storage Upsert).
THEOREM NoAccessIsLost == Spec => AccessesAreKept
<1>1. Init => CountedWithRow
  BY DEF Init, CountedWithRow
<1>2. ServiceInvariant /\ CountedWithRow /\ [Next]_vars =>
        /\ CountedWithRow'
        /\ [\A k \in Keys : access'[k].total \in {access[k].total, access[k].total + 1}]_vars
  BY CountedWithRowKept
<1>3. QED
  BY <1>1, <1>2, ServiceInvariantHolds, PTL DEF Spec, AccessesAreKept
=============================================================================
