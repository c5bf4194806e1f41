------------------------ MODULE CommentServiceProofs ------------------------
(***************************************************************************)
(* Theorems about the comment service, for any number of keys, requests    *)
(* and workers, any configuration, any queue size and any set of faults.   *)
(*                                                                         *)
(* The types come first: every theorem below needs them.                   *)
(*                                                                         *)
(* The pending marks and the refresh queue (enqueueRefresh, refreshWorker, *)
(* refresh): PendingIsLive and OneRefreshPerKey hold each other up, since  *)
(* a request marks a key only if nobody holds it, and whoever takes the    *)
(* mark back is its only holder.                                           *)
(*                                                                         *)
(* The singleflight group of first loads (firstLoad): FlightIsLive is      *)
(* inductive with the types, since a request becomes the leader of its own *)
(* key only, leads until it is answered, and its answer ends the wait of   *)
(* all who wait for that key.                                              *)
(***************************************************************************)
EXTENDS CommentServiceProperties, RefreshPolicyProofs, SequenceTheorems

-----------------------------------------------------------------------------
(* What the stores and the policy return. *)

\* A snapshot made of a valid body is a snapshot that is not due yet.
LEMMA SnapshotMade ==
  ASSUME now \in Nat, NEW body \in Payloads,
         NEW previous \in Snapshots \cup {None}, NEW stats \in AccessStats
  PROVE  LET s == snapshotFromPayload(body, previous, stats)
         IN /\ s \in Snapshots
            /\ s.content = body
            /\ s.fetchedAt = now
            /\ s.nextRefreshAt > now
<1> DEFINE context == ContextOf(body, previous, stats)
           decision == NextRefreshDecision(Policy, now, context)
<1>1. ValidatePayload(body) \in [hash : Payloads, empty : BOOLEAN]
  BY SnapshotAssumption DEF ValidatePayload
<1>2. stats.recent \in Nat
  BY DEF AccessStats
<1>3. CASE previous = None
  <2>1. context \in RefreshContexts
    BY <1>1, <1>3 DEF ContextOf, RefreshContexts
  <2>2. QED
    BY <2>1, DecisionIsLater, ServiceAssumption DEF snapshotFromPayload, Snapshots
<1>4. CASE previous # None
  <2>1. previous.content \in Payloads /\ previous.unchangedStreak \in Nat
    BY <1>4 DEF Snapshots
  <2>2. context \in RefreshContexts
    BY <1>1, <1>2, <1>4, <2>1 DEF ContextOf, RefreshContexts
  <2>3. QED
    BY <2>2, DecisionIsLater, ServiceAssumption DEF snapshotFromPayload, Snapshots
<1>5. QED
  BY <1>3, <1>4

\* storage Upsert stores a snapshot, and statistics only with a new row.
LEMMA UpsertTyped ==
  ASSUME StoreTypeOK, NEW k \in Keys, NEW s \in Snapshots, NEW stats \in AccessStats,
         Upsert(k, s, stats)
  PROVE  StoreTypeOK'
  BY DEF StoreTypeOK, Upsert

\* storage RecordAccess keeps the statistics natural numbers, with or without a row.
LEMMA RecordAccessTyped ==
  ASSUME StoreTypeOK, NEW k \in Keys, NEW at \in Nat, NEW window \in Int,
         RecordAccess(k, at, window)
  PROVE  StoreTypeOK'
<1>1. access[k] \in AccessStats
  BY DEF StoreTypeOK
<1>2. Accessed(access[k], at, window) \in AccessStats
  BY <1>1 DEF Accessed, AccessStats
<1>3. QED
  BY <1>2 DEF StoreTypeOK, RecordAccess

\* storage MarkRefreshError leaves a snapshot with another due time and status.
LEMMA MarkRefreshErrorTyped ==
  ASSUME StoreTypeOK, NEW k \in Keys, NEW at \in Int, MarkRefreshError(k, at)
  PROVE  StoreTypeOK'
<1>1. CASE row[k] = None
  BY <1>1 DEF StoreTypeOK, MarkRefreshError
<1>2. CASE row[k] # None
  <2>1. row[k] \in Snapshots
    BY <1>2 DEF StoreTypeOK
  <2>2. [row[k] EXCEPT !.nextRefreshAt = at, !.status = "error"] \in Snapshots
    BY <2>1 DEF Snapshots
  <2>3. QED
    BY <1>2, <2>2 DEF StoreTypeOK, MarkRefreshError
<1>3. QED
  BY <1>1, <1>2

-----------------------------------------------------------------------------
(* Control of a request keeps the types. *)

\* A request goes on: a step that needs a snapshot is only taken with one in hand.
LEMMA GotoTyped ==
  ASSUME RequestTypeOK, NEW r \in Requests, InFlight(r),
         NEW step \in RequestSteps, Goto(r, step),
         step \in HoldingSteps => snap[r] \in Snapshots,
         step \in {"access", "check"} => outcome[r] \in {"redis", "postgres"}
  PROVE  RequestTypeOK'
  BY DEF RequestTypeOK, InFlight, Goto

\* A request takes a snapshot it read or made.
LEMMA HoldTyped ==
  ASSUME RequestTypeOK, NEW r \in Requests, InFlight(r),
         NEW step \in RequestSteps, NEW s \in Snapshots, NEW source \in Outcomes,
         Hold(r, s, source, step),
         step \in {"access", "check"} => source \in {"redis", "postgres"}
  PROVE  RequestTypeOK'
  BY DEF RequestTypeOK, InFlight, Hold

\* A call returns, and with it every call that waits for the same flight.
LEMMA AnswerTyped ==
  ASSUME RequestTypeOK, NEW r \in Requests, NEW result \in Outcomes,
         NEW s \in Snapshots \cup {None}, Answer(r, result, s)
  PROVE  RequestTypeOK'
<1>1. loading' \in [Keys -> Requests \cup {None}]
  BY DEF RequestTypeOK, Answer, Forget
<1>2. /\ pc' \in [Requests -> RequestSteps]
      /\ snap' \in [Requests -> Snapshots \cup {None}]
      /\ outcome' \in [Requests -> Outcomes]
  BY DEF RequestTypeOK, Answer, RequestSteps
<1>3. ASSUME NEW q \in Requests
      PROVE  /\ pc'[q] = "done" \/ /\ pc'[q] = pc[q]
                                   /\ snap'[q] = snap[q]
                                   /\ outcome'[q] = outcome[q]
             /\ key'[q] = key[q]
  BY DEF Answer
<1>4. QED
  BY <1>1, <1>2, <1>3 DEF RequestTypeOK, InFlight, HoldingSteps, Answer

-----------------------------------------------------------------------------
(* Type correctness. *)

\* A start with whatever rows an earlier deployment left.
LEMMA InitTyped == Init => TypeOK
<1> SUFFICES ASSUME Init PROVE TypeOK
  OBVIOUS
<1>1. StoreTypeOK
  BY ServiceAssumption DEF Init, StoreTypeOK, NoAccess, AccessStats
<1>2. RequestTypeOK
  BY DEF Init, StartEmpty, RequestTypeOK, RequestSteps, Outcomes, HoldingSteps, InFlight
<1>3. WorkerTypeOK
  BY DEF Init, StartEmpty, WorkerTypeOK, WorkerSteps, NoAccess, AccessStats
<1>4. QueueTypeOK
  BY ServiceAssumption DEF Init, StartEmpty, QueueTypeOK, Capacity, Effective
<1>5. QED
  BY <1>1, <1>2, <1>3, <1>4 DEF Init, TypeOK

\* Every step of GetComments and firstLoad.
LEMMA RequestStepTyped ==
  ASSUME TypeOK, NEW r \in Requests, RequestStep(r) \/ LoadFetch(r)
  PROVE  TypeOK'
<1> USE DEF TypeOK
<1>1. ASSUME NEW otherwise \in RequestSteps \ (HoldingSteps \cup {"idle", "done"}),
             InFlight(r), ReadCache(r, otherwise)
      PROVE  TypeOK'
  <2>1. key[r] \in Keys
    BY <1>1 DEF RequestTypeOK
  <2>2. RequestTypeOK'
    <3>1. CASE Hold(r, cache[key[r]], "redis", "access") /\ CacheHit(key[r]) /\ Decodable(cache[key[r]])
      <4>1. cache[key[r]] \in Snapshots
        BY <2>1, <3>1 DEF CacheHit, Decodable
      <4>2. QED
        BY <1>1, <3>1, <4>1, HoldTyped DEF RequestSteps, Outcomes
    <3>2. CASE Fail(r, "failed")
      BY <3>2, AnswerTyped DEF Fail, Outcomes
    <3>3. CASE Goto(r, otherwise)
      BY <1>1, <3>3, GotoTyped DEF HoldingSteps
    <3>4. QED
      BY <1>1, <3>1, <3>2, <3>3 DEF ReadCache
  <2>3. QED
    BY <1>1, <2>2 DEF ReadCache, store, redis, backlog, refresher, StoreTypeOK, WorkerTypeOK, QueueTypeOK, Capacity
<1>2. ASSUME NEW otherwise \in RequestSteps \ (HoldingSteps \cup {"idle", "done"}),
             InFlight(r), ReadStore(r, otherwise)
      PROVE  TypeOK'
  <2>1. key[r] \in Keys
    BY <1>2 DEF RequestTypeOK
  <2>2. RequestTypeOK'
    <3>1. CASE Hold(r, row[key[r]], "postgres", "access") /\ Stored(key[r])
      <4>1. row[key[r]] \in Snapshots
        BY <2>1, <3>1 DEF Stored, StoreTypeOK
      <4>2. QED
        BY <1>2, <3>1, <4>1, HoldTyped DEF RequestSteps, Outcomes
    <3>2. CASE Fail(r, "failed")
      BY <3>2, AnswerTyped DEF Fail, Outcomes
    <3>3. CASE Goto(r, otherwise)
      BY <1>2, <3>3, GotoTyped DEF HoldingSteps
    <3>4. QED
      BY <1>2, <3>1, <3>2, <3>3 DEF ReadStore
  <2>3. QED
    BY <1>2, <2>2 DEF ReadStore, store, redis, backlog, refresher, StoreTypeOK, WorkerTypeOK, QueueTypeOK, Capacity
<1>3. CASE CacheGet(r)
  BY <1>1, <1>3 DEF CacheGet, InFlight, RequestSteps, HoldingSteps
<1>4. CASE StoreGet(r)
  BY <1>2, <1>4 DEF StoreGet, InFlight, RequestSteps, HoldingSteps
<1>5. CASE LoadCacheGet(r)
  BY <1>1, <1>5 DEF LoadCacheGet, InFlight, RequestSteps, HoldingSteps
<1>6. CASE LoadStoreGet(r)
  BY <1>2, <1>6 DEF LoadStoreGet, InFlight, RequestSteps, HoldingSteps
<1>7. CASE LoadDo(r)
  <2>1. RequestTypeOK'
    BY <1>7 DEF LoadDo, RequestTypeOK, InFlight, RequestSteps, HoldingSteps
  <2>2. QED
    BY <1>7, <2>1 DEF LoadDo, store, redis, backlog, refresher, StoreTypeOK, WorkerTypeOK, QueueTypeOK, Capacity
<1>8. CASE LoadFetch(r)
  <2>1. InFlight(r) /\ pc[r] = "loadFetch"
    BY <1>8 DEF LoadFetch, InFlight
  <2>2. RequestTypeOK'
    <3>1. ASSUME NEW body \in Bodies, ValidatePayload(body) # None,
                 Hold(r, snapshotFromPayload(body, None, NoAccess), "upstream", "loadUpsert")
          PROVE  RequestTypeOK'
      <4>1. body \in Payloads
        BY <3>1 DEF Bodies, ValidatePayload
      <4>2. NoAccess \in AccessStats
        BY DEF NoAccess, AccessStats
      <4>3. snapshotFromPayload(body, None, NoAccess) \in Snapshots
        BY <4>1, <4>2, SnapshotMade
      <4>4. QED
        BY <2>1, <3>1, <4>3, HoldTyped DEF RequestSteps, Outcomes
    <3>2. CASE Fail(r, "failed") \/ Fail(r, "unavailable")
      BY <3>2, AnswerTyped DEF Fail, Outcomes
    <3>3. QED
      BY <1>8, <3>1, <3>2 DEF LoadFetch
  <2>3. QED
    BY <1>8, <2>2 DEF LoadFetch, store, redis, backlog, refresher, StoreTypeOK, WorkerTypeOK, QueueTypeOK, Capacity
<1>9. CASE LoadUpsert(r)
  <2>1. key[r] \in Keys /\ snap[r] \in Snapshots /\ InFlight(r)
    BY <1>9 DEF LoadUpsert, RequestTypeOK, InFlight, HoldingSteps
  <2>2. FirstAccess(snap[r].fetchedAt) \in AccessStats
    BY <2>1 DEF Snapshots, FirstAccess, AccessStats
  <2>3. StoreTypeOK'
    BY <1>9, <2>1, <2>2, UpsertTyped DEF LoadUpsert, store, StoreTypeOK
  <2>4. RequestTypeOK'
    <3>1. CASE Goto(r, "loadCacheSet")
      BY <2>1, <3>1, GotoTyped DEF RequestSteps
    <3>2. CASE Fail(r, "failed")
      BY <3>2, AnswerTyped DEF Fail, Outcomes
    <3>3. QED
      BY <1>9, <3>1, <3>2 DEF LoadUpsert
  <2>5. QED
    BY <1>9, <2>3, <2>4 DEF LoadUpsert, redis, backlog, refresher, WorkerTypeOK, QueueTypeOK, Capacity
<1>10. CASE LoadCacheSet(r) \/ CacheSet(r)
  <2>1. key[r] \in Keys /\ snap[r] \in Snapshots
    BY <1>10 DEF LoadCacheSet, CacheSet, RequestTypeOK, InFlight, HoldingSteps
  <2>2. cache' \in [Keys -> Snapshots \cup {None, BadEnvelope, BadPayload}]
    BY <1>10, <2>1 DEF LoadCacheSet, CacheSet, Set
  <2>3. RequestTypeOK'
    BY <1>10, <2>1, AnswerTyped DEF LoadCacheSet, CacheSet, Serve, Outcomes
  <2>4. QED
    BY <1>10, <2>2, <2>3 DEF LoadCacheSet, CacheSet, store, backlog, refresher, StoreTypeOK, WorkerTypeOK, QueueTypeOK, Capacity
<1>11. CASE RequestRecordsAccess(r)
  <2>1. key[r] \in Keys /\ snap[r] \in Snapshots /\ InFlight(r) /\ outcome[r] \in {"redis", "postgres"}
    BY <1>11 DEF RequestRecordsAccess, RequestTypeOK, InFlight, HoldingSteps
  <2>2. accessWindow(Policy) \in Int
    BY ServiceAssumption DEF accessWindow, Policies, Fields, Effective, Day, Hour, Minute
  <2>3. StoreTypeOK'
    BY <1>11, <2>1, <2>2, RecordAccessTyped DEF RequestRecordsAccess, store, StoreTypeOK
  <2>4. RequestTypeOK'
    BY <1>11, <2>1, GotoTyped DEF RequestRecordsAccess, RequestSteps
  <2>5. QED
    BY <1>11, <2>3, <2>4 DEF RequestRecordsAccess, redis, backlog, refresher, WorkerTypeOK, QueueTypeOK, Capacity
<1>12. CASE CheckDue(r)
  <2>1. snap[r] \in Snapshots /\ InFlight(r)
    BY <1>12 DEF CheckDue, RequestTypeOK, InFlight, HoldingSteps
  <2>2. RequestTypeOK'
    <3>1. CASE Serve(r, "redis") \/ Serve(r, "stale")
      BY <2>1, <3>1, AnswerTyped DEF Serve, Outcomes
    <3>2. CASE Goto(r, "cacheDelete") \/ Goto(r, "mark") \/ Goto(r, "cacheSet")
      BY <2>1, <3>2, GotoTyped DEF RequestSteps
    <3>3. QED
      BY <1>12, <3>1, <3>2 DEF CheckDue
  <2>3. QED
    BY <1>12, <2>2 DEF CheckDue, store, redis, backlog, refresher, StoreTypeOK, WorkerTypeOK, QueueTypeOK, Capacity
<1>13. CASE CacheDelete(r)
  <2>1. snap[r] \in Snapshots /\ InFlight(r)
    BY <1>13 DEF CacheDelete, RequestTypeOK, InFlight, HoldingSteps
  <2>2. RequestTypeOK'
    BY <1>13, <2>1, GotoTyped DEF CacheDelete, RequestSteps
  <2>3. QED
    BY <1>13, <2>2 DEF CacheDelete, Delete, store, backlog, refresher, StoreTypeOK, WorkerTypeOK, QueueTypeOK, Capacity
<1>14. CASE MarkRefreshPending(r)
  <2>1. snap[r] \in Snapshots /\ InFlight(r) /\ key[r] \in Keys
    BY <1>14 DEF MarkRefreshPending, RequestTypeOK, InFlight, HoldingSteps
  <2>2. RequestTypeOK'
    <3>1. CASE Serve(r, "stale")
      BY <2>1, <3>1, AnswerTyped DEF Serve, Outcomes
    <3>2. CASE Goto(r, "send")
      BY <2>1, <3>2, GotoTyped DEF RequestSteps
    <3>3. QED
      BY <1>14, <3>1, <3>2 DEF MarkRefreshPending
  <2>3. QED
    BY <1>14, <2>1, <2>2 DEF MarkRefreshPending, store, redis, refresher, StoreTypeOK, WorkerTypeOK, QueueTypeOK, Capacity
<1>15. CASE SendRefresh(r)
  <2>1. snap[r] \in Snapshots /\ key[r] \in Keys
    BY <1>15 DEF SendRefresh, RequestTypeOK, InFlight, HoldingSteps
  <2>2. RequestTypeOK'
    BY <1>15, <2>1, AnswerTyped DEF SendRefresh, Serve, Outcomes
  <2>3. QueueTypeOK'
    <3>1. Capacity \in Nat
      BY ServiceAssumption DEF Capacity, Effective
    <3>2. CASE Len(queue) < Capacity
      <4>1. queue' = Append(queue, key[r]) /\ pending' = pending
        BY <1>15, <3>2 DEF SendRefresh, QueueHasRoom
      <4>2. queue' \in Seq(Keys) /\ Len(queue') = Len(queue) + 1
        BY <2>1, <4>1 DEF QueueTypeOK
      <4>3. QED
        BY <3>1, <3>2, <4>1, <4>2 DEF QueueTypeOK, Capacity
    <3>3. CASE ~(Len(queue) < Capacity)
      BY <1>15, <3>3 DEF SendRefresh, QueueHasRoom, clearRefreshPending, QueueTypeOK, Capacity
    <3>4. QED
      BY <3>2, <3>3
  <2>4. QED
    BY <1>15, <2>2, <2>3 DEF SendRefresh, store, redis, refresher, StoreTypeOK, WorkerTypeOK
<1>16. CASE Deliver(r)
  BY <1>16 DEF Deliver, RequestTypeOK, InFlight, RequestSteps, HoldingSteps, Outcomes, store, redis, backlog,
               refresher, StoreTypeOK, WorkerTypeOK, QueueTypeOK, Capacity
<1>17. QED
  BY <1>3, <1>4, <1>5, <1>6, <1>7, <1>8, <1>9, <1>10, <1>11, <1>12, <1>13, <1>14, <1>15, <1>16 DEF RequestStep

\* Every step of refreshWorker and refresh.
LEMMA WorkerStepTyped ==
  ASSUME TypeOK, NEW w \in Workers, WorkerStep(w) \/ RefreshFetch(w)
  PROVE  TypeOK'
<1> USE DEF TypeOK
<1>1. UNCHANGED flights => RequestTypeOK'
  BY DEF flights, RequestTypeOK, InFlight
<1>2. CASE RefreshTake(w)
  <2>1. Head(queue) \in Keys /\ queue' \in Seq(Keys) /\ Len(queue') <= Len(queue)
    BY <1>2 DEF RefreshTake, QueueTypeOK
  <2>2. WorkerTypeOK'
    BY <1>2, <2>1 DEF RefreshTake, WorkerTypeOK, WorkerSteps
  <2>3. QueueTypeOK'
    <3>1. Capacity \in Nat /\ Capacity' = Capacity
      BY ServiceAssumption DEF Capacity, Effective
    <3>2. QED
      BY <1>2, <2>1, <3>1 DEF RefreshTake, QueueTypeOK
  <2>4. QED
    BY <1>1, <1>2, <2>2, <2>3 DEF RefreshTake, store, redis, StoreTypeOK
<1>3. CASE RefreshStoreGet(w)
  <2>1. wkey[w] \in Keys
    BY <1>3 DEF RefreshStoreGet, WorkerTypeOK
  <2>2. row[wkey[w]] \in Snapshots \cup {None} /\ access[wkey[w]] \in AccessStats
    BY <2>1 DEF StoreTypeOK
  <2>3. WorkerTypeOK'
    BY <1>3, <2>1, <2>2 DEF RefreshStoreGet, Stored, WorkerGoto, WorkerTypeOK, WorkerSteps
  <2>4. QED
    BY <1>1, <1>3, <2>3 DEF RefreshStoreGet, store, redis, backlog, StoreTypeOK, QueueTypeOK, Capacity
<1>4. CASE RefreshFetch(w)
  <2>1. wkey[w] \in Keys /\ wsnap[w] \in Snapshots \cup {None} /\ wstats[w] \in AccessStats
    BY <1>4 DEF RefreshFetch, WorkerTypeOK
  <2>2. \A body \in Payloads : snapshotFromPayload(body, wsnap[w], wstats[w]) \in Snapshots
    BY <2>1, SnapshotMade
  <2>3. WorkerTypeOK'
    BY <1>4, <2>1, <2>2 DEF RefreshFetch, WorkerGoto, WorkerTypeOK, WorkerSteps
  <2>4. QED
    BY <1>1, <1>4, <2>3 DEF RefreshFetch, store, redis, backlog, StoreTypeOK, QueueTypeOK, Capacity
<1>5. CASE RefreshMarkError(w)
  <2>1. wkey[w] \in Keys
    BY <1>5 DEF RefreshMarkError, WorkerTypeOK
  <2>2. RefreshFailureRetryAt(Policy, now) \in Int
    BY ServiceAssumption DEF RefreshFailureRetryAt, Policies, Fields
  <2>3. StoreTypeOK'
    BY <1>5, <2>1, <2>2, MarkRefreshErrorTyped DEF RefreshMarkError, store, StoreTypeOK
  <2>4. WorkerTypeOK'
    BY <1>5, <2>1 DEF RefreshMarkError, WorkerGoto, WorkerTypeOK, WorkerSteps
  <2>5. QED
    BY <1>1, <1>5, <2>3, <2>4 DEF RefreshMarkError, redis, backlog, QueueTypeOK, Capacity
<1>6. CASE RefreshUpsert(w)
  <2>1. wkey[w] \in Keys /\ wsnap[w] \in Snapshots /\ wstats[w] \in AccessStats
    BY <1>6 DEF RefreshUpsert, WorkerTypeOK
  <2>2. StoreTypeOK'
    BY <1>6, <2>1, UpsertTyped DEF RefreshUpsert, store, StoreTypeOK
  <2>3. WorkerTypeOK'
    BY <1>6, <2>1 DEF RefreshUpsert, WorkerGoto, WorkerTypeOK, WorkerSteps
  <2>4. QED
    BY <1>1, <1>6, <2>2, <2>3 DEF RefreshUpsert, redis, backlog, QueueTypeOK, Capacity
<1>7. CASE RefreshCacheSet(w)
  <2>1. wkey[w] \in Keys /\ wsnap[w] \in Snapshots
    BY <1>7 DEF RefreshCacheSet, WorkerTypeOK
  <2>2. cache' \in [Keys -> Snapshots \cup {None, BadEnvelope, BadPayload}]
    BY <1>7, <2>1 DEF RefreshCacheSet, Set
  <2>3. WorkerTypeOK'
    BY <1>7, <2>1 DEF RefreshCacheSet, WorkerGoto, WorkerTypeOK, WorkerSteps
  <2>4. QED
    BY <1>1, <1>7, <2>2, <2>3 DEF RefreshCacheSet, store, backlog, StoreTypeOK, QueueTypeOK, Capacity
<1>8. CASE ClearRefreshPending(w)
  <2>1. NoAccess \in AccessStats
    BY DEF NoAccess, AccessStats
  <2>2. WorkerTypeOK'
    BY <1>8, <2>1 DEF ClearRefreshPending, WorkerTypeOK, WorkerSteps
  <2>3. QED
    BY <1>1, <1>8, <2>2 DEF ClearRefreshPending, clearRefreshPending, store, redis, StoreTypeOK, QueueTypeOK, Capacity
<1>9. CASE RefreshCheck(w)
  <2>1. WorkerTypeOK'
    BY <1>9 DEF RefreshCheck, WorkerGoto, WorkerTypeOK, WorkerSteps
  <2>2. QED
    BY <1>1, <1>9, <2>1 DEF RefreshCheck, store, redis, backlog, StoreTypeOK, QueueTypeOK, Capacity
<1>10. QED
  BY <1>2, <1>3, <1>4, <1>5, <1>6, <1>7, <1>8, <1>9 DEF WorkerStep

\* The clock, Redis, the clients and a crash.
LEMMA EnvironmentTyped ==
  ASSUME TypeOK, Environment
  PROVE  TypeOK'
<1> USE DEF TypeOK
<1>1. UNCHANGED flights => RequestTypeOK'
  BY DEF flights, RequestTypeOK, InFlight
<1>2. UNCHANGED refresher => WorkerTypeOK'
  BY DEF refresher, WorkerTypeOK
<1>3. UNCHANGED backlog => QueueTypeOK'
  BY DEF backlog, QueueTypeOK, Capacity
<1>4. UNCHANGED store => StoreTypeOK'
  BY DEF store, StoreTypeOK
<1>5. CASE Tick
  BY <1>1, <1>2, <1>3, <1>4, <1>5 DEF Tick, redis
<1>6. ASSUME NEW k \in Keys, CacheExpires(k) \/ CacheDamaged(k)
      PROVE  TypeOK'
  <2>1. cache' \in [Keys -> Snapshots \cup {None, BadEnvelope, BadPayload}]
    BY <1>6 DEF CacheExpires, CacheDamaged, Evict, Delete, Damage
  <2>2. QED
    BY <1>1, <1>2, <1>3, <1>4, <1>6, <2>1 DEF CacheExpires, CacheDamaged
<1>7. ASSUME NEW r \in Requests, Disconnect(r)
      PROVE  TypeOK'
  <2>1. RequestTypeOK'
    BY <1>7 DEF Disconnect, RequestTypeOK, InFlight
  <2>2. QED
    BY <1>2, <1>3, <1>4, <1>7, <2>1 DEF Disconnect, redis
<1>8. CASE Crash
  <2>1. RequestTypeOK'
    BY <1>8 DEF Crash, RequestTypeOK, RequestSteps, Outcomes, HoldingSteps, InFlight
  <2>2. WorkerTypeOK'
    BY <1>8 DEF Crash, WorkerTypeOK, WorkerSteps, NoAccess, AccessStats
  <2>3. QueueTypeOK'
    BY <1>8, ServiceAssumption DEF Crash, QueueTypeOK, Capacity, Effective
  <2>4. QED
    BY <1>4, <1>8, <2>1, <2>2, <2>3 DEF Crash, redis
<1>9. QED
  BY <1>5, <1>6, <1>7, <1>8 DEF Environment

\* TypeOK is inductive.
LEMMA NextTyped ==
  ASSUME TypeOK, [Next]_vars
  PROVE  TypeOK'
<1>1. ASSUME NEW r \in Requests, ArriveInvalid(r)
      PROVE  TypeOK'
  <2>1. RequestTypeOK'
    BY <1>1 DEF TypeOK, ArriveInvalid, RequestTypeOK, RequestSteps, Outcomes, HoldingSteps, InFlight
  <2>2. QED
    BY <1>1, <2>1 DEF TypeOK, ArriveInvalid, store, redis, backlog, refresher, StoreTypeOK, WorkerTypeOK, QueueTypeOK, Capacity
<1>2. ASSUME NEW r \in Requests, NEW k \in Keys, Arrive(r, k)
      PROVE  TypeOK'
  <2>1. RequestTypeOK'
    BY <1>2 DEF TypeOK, Arrive, RequestTypeOK, RequestSteps, HoldingSteps, InFlight
  <2>2. QED
    BY <1>2, <2>1 DEF TypeOK, Arrive, store, redis, backlog, refresher, StoreTypeOK, WorkerTypeOK, QueueTypeOK, Capacity
<1>3. CASE UNCHANGED vars
  BY <1>3 DEF vars, TypeOK, store, redis, flights, backlog, refresher, StoreTypeOK, RequestTypeOK, InFlight,
              WorkerTypeOK, QueueTypeOK, Capacity
<1>4. QED
  BY <1>1, <1>2, <1>3, RequestStepTyped, WorkerStepTyped, EnvironmentTyped DEF Next

\* Whatever requests, workers, failures and crashes do, for every configuration:
\* the queue keeps to its capacity, and who serves or stores a snapshot has one.
THEOREM TypeCorrect == Spec => []TypeOK
<1>1. TypeOK /\ [Next]_vars => TypeOK'
  BY NextTyped
<1>2. QED
  BY <1>1, InitTyped, PTL DEF Spec

-----------------------------------------------------------------------------
(* Pending marks and the queue. *)

QueueInvariant == PendingIsLive /\ OneRefreshPerKey

\* Steps that leave the marks, the queue and all holders alone.
LEMMA HoldersKept ==
  ASSUME QueueInvariant, UNCHANGED <<pending, queue>>,
         \A r \in Requests, k \in Keys : Sending(r, k)' <=> Sending(r, k),
         \A w \in Workers, k \in Keys : Refreshing(w, k)' <=> Refreshing(w, k)
  PROVE  QueueInvariant'
<1>1. \A i \in DOMAIN queue, k \in Keys : Queued(i, k)' <=> Queued(i, k)
  BY DEF Queued
<1>2. PendingIsLive'
  BY <1>1 DEF QueueInvariant, PendingIsLive
<1>3. OneRefreshPerKey'
  BY <1>1 DEF QueueInvariant, OneRefreshPerKey
<1>4. QED
  BY <1>2, <1>3 DEF QueueInvariant

\* The control steps of a request: nobody starts or stops queueing.
LEMMA GotoKeepsSenders ==
  ASSUME TypeOK, NEW r \in Requests, NEW step \in RequestSteps \ {"send"},
         pc[r] # "send", Goto(r, step) \/ \E s, source : Hold(r, s, source, step)
  PROVE  \A q \in Requests, k \in Keys : Sending(q, k)' <=> Sending(q, k)
BY DEF Sending, Goto, Hold, TypeOK, RequestTypeOK

\* An answer goes to its request and to those that wait for the flight: of
\* these only the first can have been about to queue a refresh.
LEMMA AnswerKeepsSenders ==
  ASSUME TypeOK, NEW r \in Requests, NEW result, NEW s, Answer(r, result, s)
  PROVE  \A q \in Requests \ {r}, k \in Keys : Sending(q, k)' <=> Sending(q, k)
<1>1. ASSUME NEW q \in Requests \ {r}
      PROVE  (pc'[q] = "send" <=> pc[q] = "send") /\ key'[q] = key[q]
  BY DEF Answer, Waiters, TypeOK, RequestTypeOK
<1>2. QED
  BY <1>1 DEF Sending

\* A request that neither marks a key nor queues it.
LEMMA OtherRequestStepsKeepQueue ==
  ASSUME TypeOK, QueueInvariant, NEW r \in Requests,
         RequestStep(r) \/ LoadFetch(r),
         pc[r] \notin {"mark", "send"}
  PROVE  QueueInvariant'
<1>1. /\ UNCHANGED <<pending, queue>>
      /\ UNCHANGED refresher
  BY DEF RequestStep, LoadFetch, CacheGet, StoreGet, LoadDo, LoadCacheGet, LoadStoreGet, LoadUpsert,
         LoadCacheSet, RequestRecordsAccess, CheckDue, CacheDelete, MarkRefreshPending, SendRefresh,
         CacheSet, Deliver, ReadCache, ReadStore, backlog
<1>2. \A q \in Requests, k \in Keys : Sending(q, k)' <=> Sending(q, k)
  <2>1. ASSUME NEW step \in RequestSteps \ {"send"}, Goto(r, step) \/ \E t, source : Hold(r, t, source, step)
        PROVE  \A q \in Requests, k \in Keys : Sending(q, k)' <=> Sending(q, k)
    BY <2>1, GotoKeepsSenders
  <2>2. ASSUME NEW result, NEW t, Answer(r, result, t)
        PROVE  \A q \in Requests, k \in Keys : Sending(q, k)' <=> Sending(q, k)
    <3>1. pc'[r] = "done"
      BY <2>2 DEF Answer
    <3>2. \A k \in Keys : ~Sending(r, k)' /\ ~Sending(r, k)
      BY <3>1 DEF Sending
    <3>3. QED
      BY <2>2, <3>2, AnswerKeepsSenders
  <2>3. CASE LoadDo(r) \/ Deliver(r)
    BY <2>3 DEF LoadDo, Deliver, Sending, TypeOK, RequestTypeOK
  <2>4. CASE CacheGet(r) \/ StoreGet(r) \/ LoadCacheGet(r) \/ LoadStoreGet(r)
    BY <2>1, <2>2, <2>4 DEF CacheGet, StoreGet, LoadCacheGet, LoadStoreGet, ReadCache, ReadStore, Fail, RequestSteps
  <2>5. CASE LoadFetch(r)
    BY <2>1, <2>2, <2>5 DEF LoadFetch, Fail, RequestSteps
  <2>6. CASE LoadUpsert(r) \/ LoadCacheSet(r)
    BY <2>1, <2>2, <2>6 DEF LoadUpsert, LoadCacheSet, Fail, Serve, RequestSteps
  <2>7. CASE RequestRecordsAccess(r) \/ CheckDue(r) \/ CacheDelete(r) \/ CacheSet(r)
    BY <2>1, <2>2, <2>7 DEF RequestRecordsAccess, CheckDue, CacheDelete, CacheSet, Serve, RequestSteps
  <2>8. QED
    BY <2>3, <2>4, <2>5, <2>6, <2>7 DEF RequestStep, MarkRefreshPending, SendRefresh
<1>3. \A w \in Workers, k \in Keys : Refreshing(w, k)' <=> Refreshing(w, k)
  BY <1>1 DEF Refreshing, refresher
<1>4. QED
  BY <1>1, <1>2, <1>3, HoldersKept

\* enqueueRefresh: the mark is set for a key nobody holds, and its setter is
\* then the only holder.
LEMMA MarkKeepsQueue ==
  ASSUME TypeOK, QueueInvariant, NEW r \in Requests, MarkRefreshPending(r)
  PROVE  QueueInvariant'
<1>1. key[r] \in Keys /\ pc[r] = "mark"
  BY DEF MarkRefreshPending, TypeOK, RequestTypeOK, InFlight
<1>2. \A w \in Workers, k \in Keys : Refreshing(w, k)' <=> Refreshing(w, k)
  BY DEF MarkRefreshPending, refresher, Refreshing
<1>3. \A i \in DOMAIN queue, k \in Keys : Queued(i, k)' <=> Queued(i, k)
  BY DEF MarkRefreshPending, Queued
<1>4. queue' = queue
  BY DEF MarkRefreshPending
<1>5. CASE Marked(key[r])
  <2>1. Answer(r, "stale", snap[r]) /\ pending' = pending
    BY <1>5 DEF MarkRefreshPending, Serve
  <2>2. pc'[r] = "done"
    BY <2>1 DEF Answer
  <2>3. \A k \in Keys : ~Sending(r, k)' /\ ~Sending(r, k)
    BY <1>1, <2>2 DEF Sending
  <2>4. QED
    BY <1>2, <1>4, <2>1, <2>3, AnswerKeepsSenders, HoldersKept
<1>6. CASE ~Marked(key[r])
  <2>1. Goto(r, "send") /\ pending' = pending \cup {key[r]} /\ key[r] \notin pending
    BY <1>6 DEF MarkRefreshPending, Marked
  <2>2. \A q \in Requests, k \in Keys : Sending(q, k)' <=> Sending(q, k) \/ (q = r /\ k = key[r])
    BY <1>1, <2>1 DEF Goto, Sending, TypeOK, RequestTypeOK
  <2>3. \A k \in Keys : ~Sending(r, k)
    BY <1>1 DEF Sending
  <2>4. PendingIsLive'
    BY <1>1, <1>2, <1>3, <1>4, <2>1, <2>2 DEF QueueInvariant, PendingIsLive
  <2>5. OneRefreshPerKey'
    BY <1>1, <1>2, <1>3, <1>4, <2>1, <2>2, <2>3 DEF QueueInvariant, PendingIsLive, OneRefreshPerKey
  <2>6. QED
    BY <2>4, <2>5 DEF QueueInvariant
<1>7. QED
  BY <1>5, <1>6

\* enqueueRefresh: the key moves from its only holder into the queue, or loses
\* its mark with it.
LEMMA SendKeepsQueue ==
  ASSUME TypeOK, QueueInvariant, NEW r \in Requests, SendRefresh(r)
  PROVE  QueueInvariant'
<1>1. key[r] \in Keys /\ Sending(r, key[r])
  BY DEF SendRefresh, TypeOK, RequestTypeOK, InFlight, Sending
<1>2. \A w \in Workers, k \in Keys : Refreshing(w, k)' <=> Refreshing(w, k)
  BY DEF SendRefresh, refresher, Refreshing
<1>3. Answer(r, "stale", snap[r])
  BY DEF SendRefresh, Serve
<1>4. \A q \in Requests, k \in Keys : Sending(q, k)' <=> Sending(q, k) /\ q # r
  <2>1. pc'[r] = "done"
    BY <1>3 DEF Answer
  <2>2. QED
    BY <1>3, <2>1, AnswerKeepsSenders DEF Sending
<1>5. \A k \in Keys : Sending(r, k) => k = key[r]
  BY DEF Sending
<1>6. CASE QueueHasRoom
  <2>1. queue' = Append(queue, key[r]) /\ pending' = pending
    BY <1>6 DEF SendRefresh
  <2>2. /\ DOMAIN queue = 1 .. Len(queue) /\ DOMAIN queue' = 1 .. Len(queue) + 1
        /\ Len(queue) \in Nat
        /\ \A i \in DOMAIN queue : queue'[i] = queue[i]
        /\ queue'[Len(queue) + 1] = key[r]
    BY <1>1, <2>1 DEF TypeOK, QueueTypeOK
  <2>3. /\ Len(queue) + 1 \in DOMAIN queue' /\ Len(queue) + 1 \notin DOMAIN queue
        /\ DOMAIN queue' = DOMAIN queue \cup {Len(queue) + 1}
    BY <2>2
  <2>4. \A i \in DOMAIN queue', k \in Keys :
          Queued(i, k)' <=> \/ i \in DOMAIN queue /\ Queued(i, k)
                            \/ i = Len(queue) + 1 /\ k = key[r]
    BY <2>2, <2>3 DEF Queued
  <2>5. PendingIsLive'
    BY <1>1, <1>2, <1>4, <1>5, <2>1, <2>3, <2>4 DEF QueueInvariant, PendingIsLive
  <2>6. OneRefreshPerKey'
    BY <1>1, <1>2, <1>4, <1>5, <2>3, <2>4 DEF QueueInvariant, OneRefreshPerKey
  <2>7. QED
    BY <2>5, <2>6 DEF QueueInvariant
<1>7. CASE ~QueueHasRoom
  <2>1. queue' = queue /\ pending' = pending \ {key[r]}
    BY <1>7 DEF SendRefresh, clearRefreshPending
  <2>2. \A i \in DOMAIN queue, k \in Keys : Queued(i, k)' <=> Queued(i, k)
    BY <2>1 DEF Queued
  <2>3. PendingIsLive'
    BY <1>1, <1>2, <1>4, <1>5, <2>1, <2>2 DEF QueueInvariant, PendingIsLive, OneRefreshPerKey
  <2>4. OneRefreshPerKey'
    BY <1>1, <1>2, <1>4, <1>5, <2>1, <2>2 DEF QueueInvariant, OneRefreshPerKey
  <2>5. QED
    BY <2>3, <2>4 DEF QueueInvariant
<1>8. QED
  BY <1>6, <1>7

\* refreshWorker and refresh: the key moves from the head of the queue to the
\* worker, stays with it at every step, and loses its mark as the worker lets go.
LEMMA WorkerStepKeepsQueue ==
  ASSUME TypeOK, QueueInvariant, NEW w \in Workers, WorkerStep(w) \/ RefreshFetch(w)
  PROVE  QueueInvariant'
<1>1. UNCHANGED flights
  BY DEF WorkerStep, RefreshFetch, RefreshTake, RefreshStoreGet, RefreshCheck, RefreshMarkError, RefreshUpsert,
         RefreshCacheSet, ClearRefreshPending
<1>2. \A r \in Requests, k \in Keys : Sending(r, k)' <=> Sending(r, k)
  BY <1>1 DEF flights, Sending
<1>3. CASE RefreshTake(w)
  <2>1. /\ wpc[w] = "idle" /\ queue # <<>> /\ queue' = Tail(queue) /\ pending' = pending
        /\ wkey' = [wkey EXCEPT ![w] = Head(queue)] /\ wpc' = [wpc EXCEPT ![w] = "storeGet"]
    BY <1>3 DEF RefreshTake
  <2>2. /\ DOMAIN queue = 1 .. Len(queue) /\ DOMAIN queue' = 1 .. Len(queue) - 1
        /\ Len(queue) \in Nat /\ Len(queue) > 0
        /\ \A i \in DOMAIN queue' : queue'[i] = queue[i + 1]
        /\ Head(queue) = queue[1] /\ Head(queue) \in Keys
    BY <2>1 DEF TypeOK, QueueTypeOK
  <2>3. \A v \in Workers, k \in Keys :
          Refreshing(v, k)' <=> Refreshing(v, k) \/ (v = w /\ Queued(1, k))
    BY <2>1, <2>2 DEF Refreshing, Queued, TypeOK, WorkerTypeOK
  <2>4. \A i \in DOMAIN queue', k \in Keys : i + 1 \in DOMAIN queue /\ (Queued(i, k)' <=> Queued(i + 1, k))
    BY <2>2 DEF Queued
  <2>5. \A i \in DOMAIN queue : i = 1 \/ (i - 1 \in DOMAIN queue' /\ i = (i - 1) + 1)
    BY <2>2
  <2>6. 1 \in DOMAIN queue /\ \A i \in DOMAIN queue' : i \in Int /\ i + 1 # 1
    BY <2>2
  <2>7. \A k \in Keys : ~Refreshing(w, k)
    BY <2>1 DEF Refreshing
  <2>8. PendingIsLive'
    BY <1>2, <2>1, <2>3, <2>4, <2>5, <2>6 DEF QueueInvariant, PendingIsLive
  <2>9. OneRefreshPerKey'
    BY <1>2, <2>3, <2>4, <2>6, <2>7 DEF QueueInvariant, OneRefreshPerKey
  <2>10. QED
    BY <2>8, <2>9 DEF QueueInvariant
<1>4. CASE RefreshStoreGet(w) \/ RefreshCheck(w) \/ RefreshFetch(w)
           \/ RefreshMarkError(w) \/ RefreshUpsert(w) \/ RefreshCacheSet(w)
  <2>1. UNCHANGED <<pending, queue>>
    BY <1>4 DEF RefreshStoreGet, RefreshCheck, RefreshFetch, RefreshMarkError, RefreshUpsert, RefreshCacheSet, backlog
  <2>2. /\ wkey' = wkey /\ wpc[w] # "idle"
        /\ \E step \in WorkerSteps \ {"idle"} : wpc' = [wpc EXCEPT ![w] = step]
    BY <1>4 DEF RefreshStoreGet, RefreshCheck, RefreshFetch, RefreshMarkError, RefreshUpsert,
                RefreshCacheSet, WorkerGoto, WorkerSteps
  <2>3. \A v \in Workers, k \in Keys : Refreshing(v, k)' <=> Refreshing(v, k)
    BY <2>2 DEF Refreshing, TypeOK, WorkerTypeOK
  <2>4. QED
    BY <1>2, <2>1, <2>3, HoldersKept
<1>5. CASE ClearRefreshPending(w)
  <2>1. /\ wpc[w] = "clear" /\ queue' = queue /\ pending' = pending \ {wkey[w]}
        /\ wpc' = [wpc EXCEPT ![w] = "idle"] /\ wkey' = [wkey EXCEPT ![w] = None]
    BY <1>5 DEF ClearRefreshPending, clearRefreshPending
  <2>2. wkey[w] \in Keys /\ Refreshing(w, wkey[w])
    BY <2>1 DEF TypeOK, WorkerTypeOK, Refreshing
  <2>3. \A v \in Workers, k \in Keys : Refreshing(v, k)' <=> Refreshing(v, k) /\ v # w
    BY <2>1 DEF Refreshing, TypeOK, WorkerTypeOK
  <2>4. \A k \in Keys : Refreshing(w, k) => k = wkey[w]
    BY DEF Refreshing
  <2>5. \A i \in DOMAIN queue, k \in Keys : Queued(i, k)' <=> Queued(i, k)
    BY <2>1 DEF Queued
  <2>6. PendingIsLive'
    BY <1>2, <2>1, <2>2, <2>3, <2>4, <2>5 DEF QueueInvariant, PendingIsLive, OneRefreshPerKey
  <2>7. OneRefreshPerKey'
    BY <1>2, <2>1, <2>2, <2>3, <2>5 DEF QueueInvariant, OneRefreshPerKey
  <2>8. QED
    BY <2>6, <2>7 DEF QueueInvariant
<1>6. QED
  BY <1>3, <1>4, <1>5 DEF WorkerStep

\* An arrival, an event of the environment or a stuttering step.  A crash
\* empties marks, queue and holders together.
LEMMA OtherStepsKeepQueue ==
  ASSUME TypeOK, QueueInvariant,
         \/ \E r \in Requests : ArriveInvalid(r) \/ \E k \in Keys : Arrive(r, k)
         \/ Environment
         \/ UNCHANGED vars
  PROVE  QueueInvariant'
<1>1. CASE Crash
  <2>1. /\ pending' = {} /\ DOMAIN queue' = {}
        /\ \A r \in Requests, k \in Keys : ~Sending(r, k)'
        /\ \A w \in Workers, k \in Keys : ~Refreshing(w, k)'
    BY <1>1 DEF Crash, Sending, Refreshing
  <2>2. QED
    BY <2>1 DEF QueueInvariant, PendingIsLive, OneRefreshPerKey
<1>2. CASE ~Crash
  <2>1. UNCHANGED <<pending, queue>>
    BY <1>2 DEF Arrive, ArriveInvalid, Environment, Tick, CacheExpires, CacheDamaged, Disconnect, vars, backlog
  <2>2. UNCHANGED refresher
    BY <1>2 DEF Arrive, ArriveInvalid, Environment, Tick, CacheExpires, CacheDamaged, Disconnect, vars
  <2>3. \A q \in Requests, k \in Keys : Sending(q, k)' <=> Sending(q, k)
    <3>1. CASE \E r \in Requests : ArriveInvalid(r) \/ \E k \in Keys : Arrive(r, k)
      BY <3>1 DEF Arrive, ArriveInvalid, Sending, TypeOK, RequestTypeOK
    <3>2. CASE Environment
      BY <1>2, <3>2 DEF Environment, Tick, CacheExpires, CacheDamaged, Disconnect, flights, Sending
    <3>3. CASE UNCHANGED vars
      BY <3>3 DEF vars, flights, Sending
    <3>4. QED
      BY <3>1, <3>2, <3>3
  <2>4. QED
    BY <2>1, <2>2, <2>3, HoldersKept DEF Refreshing, refresher
<1>3. QED
  BY <1>1, <1>2

\* Nothing is marked, queued or refreshed at the start.
LEMMA InitQueue == Init => QueueInvariant
BY DEF Init, StartEmpty, QueueInvariant, PendingIsLive, OneRefreshPerKey, Sending, Queued, Refreshing

\* The invariant of the queue is inductive with the types.
LEMMA NextKeepsQueue ==
  ASSUME TypeOK, QueueInvariant, [Next]_vars
  PROVE  QueueInvariant'
<1>1. ASSUME NEW r \in Requests, RequestStep(r) \/ LoadFetch(r)
      PROVE  QueueInvariant'
  <2>1. CASE pc[r] = "mark"
    BY <1>1, <2>1, MarkKeepsQueue
       DEF RequestStep, LoadFetch, CacheGet, StoreGet, LoadDo, LoadCacheGet, LoadStoreGet, LoadUpsert,
           LoadCacheSet, RequestRecordsAccess, CheckDue, CacheDelete, SendRefresh, CacheSet, Deliver
  <2>2. CASE pc[r] = "send"
    BY <1>1, <2>2, SendKeepsQueue
       DEF RequestStep, LoadFetch, CacheGet, StoreGet, LoadDo, LoadCacheGet, LoadStoreGet, LoadUpsert,
           LoadCacheSet, RequestRecordsAccess, CheckDue, CacheDelete, MarkRefreshPending, CacheSet, Deliver
  <2>3. CASE pc[r] \notin {"mark", "send"}
    BY <1>1, <2>3, OtherRequestStepsKeepQueue
  <2>4. QED
    BY <2>1, <2>2, <2>3
<1>2. QED
  BY <1>1, WorkerStepKeepsQueue, OtherStepsKeepQueue DEF Next

\* The invariant of the queue, with the types it rests on.
LEMMA QueueInvariantHolds == Spec => [](TypeOK /\ QueueInvariant)
<1>1. Init => TypeOK /\ QueueInvariant
  BY InitTyped, InitQueue
<1>2. TypeOK /\ QueueInvariant /\ [Next]_vars => (TypeOK /\ QueueInvariant)'
  BY NextTyped, NextKeepsQueue
<1>3. QED
  BY <1>1, <1>2, PTL DEF Spec

\* For any number of requests and workers, any queue size and any faults, the
\* pending mark of a key lives exactly as long as a refresh of it is on its way
\* (enqueueRefresh, clearRefreshPending).
THEOREM PendingMarksAreLive == Spec => []PendingIsLive
  BY QueueInvariantHolds, PTL DEF QueueInvariant

\* For any number of requests and workers, a key is never queued twice and never
\* refreshed by two workers.
THEOREM RefreshesAreSingle == Spec => []OneRefreshPerKey
  BY QueueInvariantHolds, PTL DEF QueueInvariant

-----------------------------------------------------------------------------
(* Flights of first loads. *)


\* The steps inside the flight, and those before it.
LoadSteps   == {"loadCacheGet", "loadStoreGet", "loadFetch", "loadUpsert", "loadCacheSet"}
BeforeSteps == {"idle", "cacheGet", "storeGet", "loadDo", "loadWait"}

\* A request goes on without an answer: a leader stays past loadGroup.Do, and
\* nobody enters the flight by itself.
LEMMA GotoKeepsFlight ==
  ASSUME TypeOK, FlightIsLive, NEW r \in Requests, InFlight(r),
         NEW step \in RequestSteps \ {"loadWait", "done"},
         Goto(r, step) \/ \E s, source : Hold(r, s, source, step),
         step \in BeforeSteps => pc[r] \in BeforeSteps \ {"loadWait"},
         step \in LoadSteps => pc[r] \in LoadSteps
  PROVE  FlightIsLive'
<1>1. /\ key' = key /\ loading' = loading
      /\ \A q \in Requests : pc'[q] = IF q = r THEN step ELSE pc[q]
  BY DEF Goto, Hold, TypeOK, RequestTypeOK
<1>2. ASSUME NEW k \in Keys, loading'[k] # None
      PROVE  /\ key'[loading'[k]] = k
             /\ pc'[loading'[k]] \notin BeforeSteps \cup {"done"}
  <2>1. loading[k] \in Requests /\ key[loading[k]] = k /\ pc[loading[k]] \notin BeforeSteps \cup {"done"}
    BY <1>1, <1>2 DEF TypeOK, RequestTypeOK, FlightIsLive, BeforeSteps
  <2>2. QED
    BY <1>1, <2>1 DEF BeforeSteps
<1>3. ASSUME NEW q \in Requests
      PROVE  /\ pc'[q] = "loadWait" => loading'[key'[q]] \notin {None, q}
             /\ pc'[q] \in LoadSteps => loading'[key'[q]] = q
  BY <1>1 DEF FlightIsLive, Leads, LoadSteps
<1>4. QED
  BY <1>2, <1>3 DEF FlightIsLive, Leads, LoadSteps, BeforeSteps

\* An answer to the leader ends the flight and every wait for it; an answer to
\* another request touches no flight.
LEMMA AnswerKeepsFlight ==
  ASSUME TypeOK, FlightIsLive, NEW r \in Requests, InFlight(r), NEW result, NEW s, Answer(r, result, s)
  PROVE  FlightIsLive'
<1>1. key[r] \in Keys
  BY DEF TypeOK, RequestTypeOK
<1>2. /\ key' = key
      /\ \A q \in Requests : pc'[q] = IF q \in {r} \cup Waiters(r) THEN "done" ELSE pc[q]
  BY DEF Answer
<1>3. CASE Leads(r)
  <2>1. \A k \in Keys : loading'[k] = IF k = key[r] THEN None ELSE loading[k]
    BY <1>1, <1>3 DEF Answer, Forget, TypeOK, RequestTypeOK
  <2>2. Waiters(r) = {q \in Requests : pc[q] = "loadWait" /\ key[q] = key[r]}
    BY <1>3 DEF Waiters
  <2>3. ASSUME NEW k \in Keys, loading'[k] # None
        PROVE  /\ key'[loading'[k]] = k
               /\ pc'[loading'[k]] \notin BeforeSteps \cup {"done"}
    <3>1. k # key[r] /\ loading[k] \in Requests /\ key[loading[k]] = k /\ pc[loading[k]] \notin BeforeSteps \cup {"done"}
      BY <2>1, <2>3 DEF TypeOK, RequestTypeOK, FlightIsLive, BeforeSteps
    <3>2. QED
      BY <1>2, <2>1, <2>2, <3>1 DEF BeforeSteps
  <2>4. ASSUME NEW q \in Requests, pc'[q] # "done"
        PROVE  /\ pc'[q] = "loadWait" => loading'[key'[q]] \notin {None, q}
               /\ pc'[q] \in LoadSteps => loading'[key'[q]] = q
    <3>1. pc'[q] = pc[q] /\ q # r /\ ~(pc[q] = "loadWait" /\ key[q] = key[r])
      BY <1>2, <2>2, <2>4
    <3>2. pc[q] \in LoadSteps \cup {"loadWait"} => key[q] \in Keys
      BY DEF TypeOK, RequestTypeOK, InFlight, LoadSteps
    <3>3. QED
      BY <1>2, <1>3, <2>1, <3>1, <3>2 DEF FlightIsLive, Leads, LoadSteps
  <2>5. QED
    BY <2>3, <2>4 DEF FlightIsLive, Leads, LoadSteps, BeforeSteps
<1>4. CASE ~Leads(r)
  <2>1. loading' = loading /\ Waiters(r) = {}
    BY <1>4 DEF Answer, Forget, Waiters
  <2>2. ASSUME NEW k \in Keys, loading'[k] # None
        PROVE  /\ key'[loading'[k]] = k
               /\ pc'[loading'[k]] \notin BeforeSteps \cup {"done"}
    <3>1. loading[k] \in Requests /\ key[loading[k]] = k /\ pc[loading[k]] \notin BeforeSteps \cup {"done"}
      BY <2>1, <2>2 DEF TypeOK, RequestTypeOK, FlightIsLive, BeforeSteps
    <3>2. loading[k] # r
      BY <1>4, <3>1 DEF Leads
    <3>3. QED
      BY <1>2, <2>1, <3>1, <3>2
  <2>3. QED
    BY <1>2, <2>1, <2>2 DEF FlightIsLive, Leads, LoadSteps, BeforeSteps
<1>5. QED
  BY <1>3, <1>4

\* Every step of GetComments and firstLoad.
LEMMA RequestStepKeepsFlight ==
  ASSUME TypeOK, FlightIsLive, NEW r \in Requests, RequestStep(r) \/ LoadFetch(r)
  PROVE  FlightIsLive'
<1> USE DEF LoadSteps, BeforeSteps, RequestSteps, InFlight, Fail, Serve
<1>1. CASE CacheGet(r) \/ StoreGet(r) \/ LoadCacheGet(r) \/ LoadStoreGet(r)
  BY <1>1, GotoKeepsFlight, AnswerKeepsFlight
     DEF CacheGet, StoreGet, LoadCacheGet, LoadStoreGet, ReadCache, ReadStore
<1>2. CASE LoadFetch(r)
  BY <1>2, GotoKeepsFlight, AnswerKeepsFlight DEF LoadFetch
<1>3. CASE LoadUpsert(r) \/ LoadCacheSet(r)
  BY <1>3, GotoKeepsFlight, AnswerKeepsFlight DEF LoadUpsert, LoadCacheSet
<1>4. CASE RequestRecordsAccess(r) \/ CheckDue(r) \/ CacheDelete(r) \/ CacheSet(r)
  BY <1>4, GotoKeepsFlight, AnswerKeepsFlight DEF RequestRecordsAccess, CheckDue, CacheDelete, CacheSet
<1>5. CASE MarkRefreshPending(r) \/ SendRefresh(r)
  BY <1>5, GotoKeepsFlight, AnswerKeepsFlight DEF MarkRefreshPending, SendRefresh
<1>6. CASE LoadDo(r)
  <2>1. key[r] \in Keys /\ key' = key /\ pc[r] = "loadDo"
    BY <1>6 DEF LoadDo, TypeOK, RequestTypeOK
  <2>2. CASE loading[key[r]] = None
    <3>1. /\ \A k \in Keys : loading'[k] = IF k = key[r] THEN r ELSE loading[k]
          /\ \A q \in Requests : pc'[q] = IF q = r THEN "loadCacheGet" ELSE pc[q]
      BY <1>6, <2>2 DEF LoadDo, TypeOK, RequestTypeOK
    <3>2. \A k \in Keys : loading[k] # r
      BY <2>1, ServiceAssumption DEF FlightIsLive
    <3>3. \A q \in Requests : pc[q] \in LoadSteps \cup {"loadWait"} => key[q] \in Keys
      BY DEF TypeOK, RequestTypeOK
    <3>4. \A k \in Keys : loading[k] \in Requests \cup {None}
      BY DEF TypeOK, RequestTypeOK
    <3>5. QED
      BY <2>1, <2>2, <3>1, <3>2, <3>3, <3>4, ServiceAssumption DEF FlightIsLive, Leads
  <2>3. CASE loading[key[r]] # None
    <3>1. /\ loading' = loading
          /\ \A q \in Requests : pc'[q] = IF q = r THEN "loadWait" ELSE pc[q]
      BY <1>6, <2>3 DEF LoadDo, TypeOK, RequestTypeOK
    <3>2. \A k \in Keys : loading[k] # r
      BY <2>1, ServiceAssumption DEF FlightIsLive
    <3>3. \A k \in Keys : loading[k] \in Requests \cup {None}
      BY DEF TypeOK, RequestTypeOK
    <3>4. QED
      BY <2>1, <2>3, <3>1, <3>2, <3>3 DEF FlightIsLive, Leads
  <2>4. QED
    BY <2>2, <2>3
<1>7. CASE Deliver(r)
  <2>1. /\ loading' = loading /\ pc[r] = "done"
        /\ \A q \in Requests : pc'[q] = IF q = r THEN "idle" ELSE pc[q]
        /\ \A q \in Requests : key'[q] = IF q = r THEN None ELSE key[q]
    BY <1>7 DEF Deliver, TypeOK, RequestTypeOK
  <2>2. \A k \in Keys : loading[k] # r /\ loading[k] \in Requests \cup {None}
    BY <2>1, ServiceAssumption DEF FlightIsLive, TypeOK, RequestTypeOK
  <2>3. QED
    BY <2>1, <2>2 DEF FlightIsLive, Leads
<1>8. QED
  BY <1>1, <1>2, <1>3, <1>4, <1>5, <1>6, <1>7 DEF RequestStep

\* Every other step: only an arrival and a crash touch a request's place, an
\* arrival outside every flight, a crash ending them all.
LEMMA OtherStepsKeepFlight ==
  ASSUME TypeOK, FlightIsLive,
         \/ \E r \in Requests : ArriveInvalid(r) \/ \E k \in Keys : Arrive(r, k)
         \/ \E w \in Workers : WorkerStep(w) \/ RefreshFetch(w)
         \/ Environment
         \/ UNCHANGED vars
  PROVE  FlightIsLive'
<1>1. CASE UNCHANGED <<pc, key, loading>>
  BY <1>1 DEF FlightIsLive, Leads
<1>2. CASE Crash
  BY <1>2 DEF Crash, FlightIsLive
<1>3. ASSUME NEW r \in Requests, ArriveInvalid(r) \/ \E k \in Keys : Arrive(r, k)
      PROVE  FlightIsLive'
  <2>1. /\ loading' = loading /\ pc[r] = "idle" /\ pc'[r] \in {"cacheGet", "done"}
        /\ \A q \in Requests \ {r} : pc'[q] = pc[q] /\ key'[q] = key[q]
    BY <1>3 DEF Arrive, ArriveInvalid, TypeOK, RequestTypeOK
  <2>2. \A k \in Keys : loading[k] # r /\ loading[k] \in Requests \cup {None}
    BY <2>1, ServiceAssumption DEF FlightIsLive, TypeOK, RequestTypeOK
  <2>3. QED
    BY <2>1, <2>2 DEF FlightIsLive, Leads
<1>4. CASE \E w \in Workers : WorkerStep(w) \/ RefreshFetch(w)
  BY <1>1, <1>4 DEF WorkerStep, RefreshFetch, RefreshTake, RefreshStoreGet, RefreshCheck,
                    RefreshMarkError, RefreshUpsert, RefreshCacheSet, ClearRefreshPending, flights
<1>5. CASE Environment
  BY <1>1, <1>2, <1>5 DEF Environment, Tick, CacheExpires, CacheDamaged, Disconnect, flights
<1>6. CASE UNCHANGED vars
  BY <1>1, <1>6 DEF vars, flights
<1>7. QED
  BY <1>3, <1>4, <1>5, <1>6

\* FlightIsLive is inductive with the types.
LEMMA NextKeepsFlight ==
  ASSUME TypeOK, FlightIsLive, [Next]_vars
  PROVE  FlightIsLive'
BY RequestStepKeepsFlight, OtherStepsKeepFlight DEF Next

\* Nothing is under way at the start.
LEMMA InitFlight == Init => FlightIsLive
BY DEF Init, StartEmpty, FlightIsLive

\* For any number of requests and any faults: a flight is run by one request
\* that is still under way, and nobody waits for a flight that is over
\* (firstLoad, singleflight.Group).
THEOREM FlightsAreLive == Spec => []FlightIsLive
<1>1. Init => TypeOK /\ FlightIsLive
  BY InitTyped, InitFlight
<1>2. TypeOK /\ FlightIsLive /\ [Next]_vars => (TypeOK /\ FlightIsLive)'
  BY NextTyped, NextKeepsFlight
<1>3. QED
  BY <1>1, <1>2, PTL DEF Spec
=============================================================================
