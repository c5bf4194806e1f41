--------------------------- MODULE CommentService ---------------------------
(***************************************************************************)
(* The danmaku comment service (services/danmaku/service.go) between the   *)
(* HTTP handlers, Redis, PostgreSQL and the upstream API, as it runs in    *)
(* one process: requests that call GetComments, the singleflight group of  *)
(* first loads, the bounded refresh queue with its pending marks, and the  *)
(* background refresh workers.                                             *)
(*                                                                         *)
(* One step is one call on Redis, PostgreSQL, the upstream, the            *)
(* singleflight group, the queue or the mutex, with the local computation  *)
(* that follows it; a read of the clock that decides something is a step   *)
(* of its own.  A key stands for (episode id, variant).                    *)
(***************************************************************************)
EXTENDS RefreshPolicy, SnapshotStore, SnapshotCache, Sequences, FiniteSets

CONSTANTS
  Requests,          \* slots for concurrent GetComments calls
  Workers,           \* background refresh workers (RefreshWorkerCount)
  Policy,            \* the configured RefreshPolicy
  RefreshQueueSize,  \* as configured, also zero or negative
  LegacyRows,        \* rows an earlier deployment may have left in the table
  Faults,            \* what may go wrong, a subset of AllFaults
  Silent,            \* keys whose upstream calls may hang for ever
  MaxTime,           \* bound: the clock stops here
  MaxAccess          \* bound: no request for a key accessed this often

AllFaults ==
  { "redis",       \* a Redis call fails
    "postgres",    \* a PostgreSQL call fails; a failed write may have happened
    "upstream",    \* an upstream call fails
    "payload",     \* the upstream answers with an Invalid body
    "corrupt",     \* a Redis value is damaged
    "disconnect",  \* a client goes away, its request context is cancelled
    "crash" }      \* the process stops and starts again

ASSUME ServiceAssumption ==
  /\ None \notin Requests
  /\ Policy \in Policies
  /\ RefreshQueueSize \in Int
  /\ LegacyRows \subseteq Snapshots
  /\ \A s \in LegacyRows : s.fetchedAt = 0
  /\ Faults \subseteq AllFaults
  /\ Silent \subseteq Keys
  /\ MaxTime \in Nat
  /\ MaxAccess \in Nat

VARIABLES
  now,       \* the clock, s.now()
  pending,   \* refreshPending: keys marked as queued or being refreshed
  queue,     \* refreshQueue: a buffered channel of keys
  loading,   \* loadGroup: per key the request that runs the flight, or None
  pc,        \* request: what it does next
  key,       \* request: the key asked for
  snap,      \* request: the snapshot in its hands
  outcome,   \* request: the source of snap, then the result of the call
  gone,      \* request: its context is cancelled
  wpc,       \* worker: what it does next
  wkey,      \* worker: the key it refreshes
  wsnap,     \* worker: the row it read, then the snapshot it made
  wstats     \* worker: the access statistics it read with the row

redis     == cache
flights   == <<pc, key, snap, outcome, gone, loading>>
backlog   == <<pending, queue>>
refresher == <<wpc, wkey, wsnap, wstats>>
vars      == <<now, store, redis, flights, backlog, refresher>>

\* make(chan refreshRequest, queueSize): at least one place.
Capacity == Effective(RefreshQueueSize, 1)

InFlight(r)   == pc[r] \notin {"idle", "done"}
Leads(r)      == loading[key[r]] = r
Due(snapshot) == snapshot.nextRefreshAt <= now

\* Fault variant: a row that is due counts as missing.
StoredFresh(k) == row[k] # None /\ ~Due(row[k])

Stored(k) == row[k] # None

RedisMayFail(r)    == gone[r] \/ "redis" \in Faults
PostgresMayFail(r) == gone[r] \/ "postgres" \in Faults
UpstreamMayFail(r) == gone[r] \/ "upstream" \in Faults

Bodies == Payloads \cup (IF "payload" \in Faults THEN {Invalid} ELSE {})

\* Fault variant: every refresh is treated as a first load.
ContextOfFirst(body, previous, stats) ==
  [ info |-> ValidatePayload(body), previousHash |-> None, previousStreak |-> 0,
    recentAccessCount |-> 1 ]

\* The RefreshContext of a fetched body; previous is the row read before the
\* fetch, or None, with the access statistics read with it.
ContextOf(body, previous, stats) ==
  [ info              |-> ValidatePayload(body),
    previousHash      |-> IF previous = None THEN None ELSE previous.content,
    previousStreak    |-> IF previous = None THEN 0 ELSE previous.unchangedStreak,
    recentAccessCount |-> IF previous = None THEN 1 ELSE stats.recent ]

\* Of a valid body.
snapshotFromPayload(body, previous, stats) ==
  LET decision == NextRefreshDecision(Policy, now, ContextOf(body, previous, stats))
  IN [ content         |-> body,
       fetchedAt       |-> now,
       nextRefreshAt   |-> decision.nextRefreshAt,
       unchangedStreak |-> decision.unchangedStreak,
       status          |-> "success" ]

FirstAccess(at) == [ total |-> 1, recent |-> 1, since |-> at ]

\* NewCommentService: nothing is kept in memory across a start.
StartEmpty ==
  /\ pending = {} /\ queue = <<>>
  /\ loading = [k \in Keys |-> None]
  /\ pc = [r \in Requests |-> "idle"]
  /\ key = [r \in Requests |-> None]
  /\ snap = [r \in Requests |-> None]
  /\ outcome = [r \in Requests |-> "none"]
  /\ gone = [r \in Requests |-> FALSE]
  /\ wpc = [w \in Workers |-> "idle"]
  /\ wkey = [w \in Workers |-> None]
  /\ wsnap = [w \in Workers |-> None]
  /\ wstats = [w \in Workers |-> NoAccess]

Init ==
  /\ now = 1
  /\ row \in [Keys -> LegacyRows \cup {None}]
  /\ access = [k \in Keys |-> NoAccess]
  /\ cache = [k \in Keys |-> None]
  /\ StartEmpty

-----------------------------------------------------------------------------
(* Control of a request. *)

Goto(r, step) ==
  /\ pc' = [pc EXCEPT ![r] = step]
  /\ UNCHANGED <<key, snap, outcome, gone, loading>>

\* The request now holds a snapshot that came from source.
Hold(r, snapshot, source, step) ==
  /\ pc' = [pc EXCEPT ![r] = step]
  /\ snap' = [snap EXCEPT ![r] = snapshot]
  /\ outcome' = [outcome EXCEPT ![r] = source]
  /\ UNCHANGED <<key, gone, loading>>

\* The call returns.  When r runs a flight of the singleflight group, every
\* request that waits for it gets the same result and the key is forgotten.
Waiters(r) ==
  IF Leads(r) THEN {q \in Requests : pc[q] = "loadWait" /\ key[q] = key[r]} ELSE {}

Forget(r) ==
  loading' = IF Leads(r) THEN [loading EXCEPT ![key[r]] = None] ELSE loading

Answer(r, result, snapshot) ==
  LET answered == {r} \cup Waiters(r)
  IN /\ pc' = [q \in Requests |-> IF q \in answered THEN "done" ELSE pc[q]]
     /\ outcome' = [q \in Requests |-> IF q \in answered THEN result ELSE outcome[q]]
     /\ snap' = [q \in Requests |-> IF q \in answered THEN snapshot ELSE snap[q]]
     /\ Forget(r)
     /\ UNCHANGED <<key, gone>>

Serve(r, result) == Answer(r, result, snap[r])
Fail(r, result)  == Answer(r, result, None)

-----------------------------------------------------------------------------
(* GetComments and firstLoad. *)

Arrive(r, k) ==
  /\ pc[r] = "idle"
  /\ access[k].total < MaxAccess
  /\ pc' = [pc EXCEPT ![r] = "cacheGet"]
  /\ key' = [key EXCEPT ![r] = k]
  /\ UNCHANGED <<now, store, redis, snap, outcome, gone, loading, backlog, refresher>>

\* The episode id is not a number.
ArriveInvalid(r) ==
  /\ pc[r] = "idle"
  /\ pc' = [pc EXCEPT ![r] = "done"]
  /\ outcome' = [outcome EXCEPT ![r] = "failed"]
  /\ UNCHANGED <<now, store, redis, key, snap, gone, loading, backlog, refresher>>

\* Fault variant: an error of Redis is returned.
ReadCacheOrFail(r, otherwise) ==
  /\ \/ /\ ~gone[r] /\ CacheHit(key[r])
        /\ IF Decodable(cache[key[r]])
             THEN Hold(r, cache[key[r]], "redis", "access")
             ELSE Fail(r, "failed")
     \/ ~CacheHit(key[r]) /\ Goto(r, otherwise)
     \/ RedisMayFail(r) /\ Fail(r, "failed")
  /\ UNCHANGED <<now, store, redis, backlog, refresher>>

\* cache.Get: a hit is decoded and served, anything else falls through.
ReadCache(r, otherwise) ==
  /\ \/ /\ ~gone[r] /\ CacheHit(key[r])
        /\ IF Decodable(cache[key[r]])
             THEN Hold(r, cache[key[r]], "redis", "access")
             ELSE Fail(r, "failed")
     \/ /\ RedisMayFail(r) \/ ~CacheHit(key[r])
        /\ Goto(r, otherwise)
  /\ UNCHANGED <<now, store, redis, backlog, refresher>>

\* store.Get: only a missing row leads on to the upstream.
ReadStore(r, otherwise) ==
  /\ \/ /\ ~gone[r]
        /\ IF Stored(key[r])
             THEN Hold(r, row[key[r]], "postgres", "access")
             ELSE Goto(r, otherwise)
     \/ PostgresMayFail(r) /\ Fail(r, "failed")
  /\ UNCHANGED <<now, store, redis, backlog, refresher>>

\* Fault variant: the flight does not look into the store again.
LoadWithoutStoreGet(r) ==
  /\ pc[r] = "loadStoreGet"
  /\ Goto(r, "loadFetch")
  /\ UNCHANGED <<now, store, redis, backlog, refresher>>

CacheGet(r)     == pc[r] = "cacheGet"     /\ ReadCache(r, "storeGet")
StoreGet(r)     == pc[r] = "storeGet"     /\ ReadStore(r, "loadDo")
LoadCacheGet(r) == pc[r] = "loadCacheGet" /\ ReadCache(r, "loadStoreGet")
LoadStoreGet(r) == pc[r] = "loadStoreGet" /\ ReadStore(r, "loadFetch")

\* recordAccess: its error is ignored.
RequestRecordsAccess(r) ==
  /\ pc[r] = "access"
  /\ \/ RecordAccess(key[r], now, accessWindow(Policy))
     \/ PostgresMayFail(r) /\ UNCHANGED store
  /\ Goto(r, "check")
  /\ UNCHANGED <<now, redis, backlog, refresher>>

\* Fault variant: every due entry of Redis is treated as a flight treats it.
CheckDueAsInFlight(r) ==
  /\ pc[r] = "check"
  /\ \/ outcome[r] = "redis" /\ Serve(r, IF Due(snap[r]) THEN "stale" ELSE "redis")
     \/ outcome[r] = "postgres" /\ Goto(r, IF Due(snap[r]) THEN "mark" ELSE "cacheSet")
  /\ UNCHANGED <<now, store, redis, backlog, refresher>>

\* NextRefreshAt.After(now), on the copy read two calls ago.  A flight that
\* finds a due copy in Redis returns it and schedules nothing.
CheckDue(r) ==
  /\ pc[r] = "check"
  /\ \/ /\ outcome[r] = "redis" /\ ~Due(snap[r])
        /\ Serve(r, "redis")
     \/ /\ outcome[r] = "redis" /\ Due(snap[r]) /\ Leads(r)
        /\ Serve(r, "stale")
     \/ /\ outcome[r] = "redis" /\ Due(snap[r]) /\ ~Leads(r)
        /\ Goto(r, "cacheDelete")
     \/ /\ outcome[r] = "postgres" /\ Due(snap[r])
        /\ Goto(r, "mark")
     \/ /\ outcome[r] = "postgres" /\ ~Due(snap[r])
        /\ Goto(r, "cacheSet")
  /\ UNCHANGED <<now, store, redis, backlog, refresher>>

CacheDelete(r) ==
  /\ pc[r] = "cacheDelete"
  /\ \/ Delete(key[r])
     \/ RedisMayFail(r) /\ UNCHANGED cache
  /\ Goto(r, "mark")
  /\ UNCHANGED <<now, store, backlog, refresher>>

\* Fault variants: the mark is set without a look; it is not taken back; the
\* queue takes one entry too many, or one too few.
NeverMarked(k)  == FALSE
ClearNothing(k) == UNCHANGED pending
RoomForOneMore  == Len(queue) <= Capacity
RoomForOneLess  == Len(queue) + 1 < Capacity

Marked(k)              == k \in pending
clearRefreshPending(k) == pending' = pending \ {k}
QueueHasRoom           == Len(queue) < Capacity

\* enqueueRefresh, under refreshMu: a key already marked is left alone.
MarkRefreshPending(r) ==
  /\ pc[r] = "mark"
  /\ IF Marked(key[r])
       THEN Serve(r, "stale") /\ UNCHANGED pending
       ELSE Goto(r, "send") /\ pending' = pending \cup {key[r]}
  /\ UNCHANGED <<now, store, redis, queue, refresher>>

\* Fault variant: a refresh that is dropped keeps its mark.
SendRefreshOrMark(r) ==
  /\ pc[r] = "send"
  /\ queue' = IF QueueHasRoom THEN Append(queue, key[r]) ELSE queue
  /\ Serve(r, "stale")
  /\ UNCHANGED <<now, store, redis, pending, refresher>>

\* enqueueRefresh, the select with a default: a full queue drops the refresh
\* and takes the mark back.
SendRefresh(r) ==
  /\ pc[r] = "send"
  /\ IF QueueHasRoom
       THEN queue' = Append(queue, key[r]) /\ UNCHANGED pending
       ELSE clearRefreshPending(key[r]) /\ UNCHANGED queue
  /\ Serve(r, "stale")
  /\ UNCHANGED <<now, store, redis, refresher>>

CacheSet(r) ==
  /\ pc[r] = "cacheSet"
  /\ \/ Set(key[r], snap[r])
     \/ RedisMayFail(r) /\ UNCHANGED cache
  /\ Serve(r, "postgres")
  /\ UNCHANGED <<now, store, backlog, refresher>>

\* Fault variant: the flight's name leaves out the key, one flight serves all.
LoadDoUnderOneName(r) ==
  /\ pc[r] = "loadDo"
  /\ \/ /\ \A k \in Keys : loading[k] = None
        /\ loading' = [loading EXCEPT ![key[r]] = r]
        /\ pc' = [pc EXCEPT ![r] = "loadCacheGet"]
     \/ /\ \E k \in Keys : loading[k] # None
        /\ pc' = [pc EXCEPT ![r] = "loadWait"]
        /\ UNCHANGED loading
  /\ UNCHANGED <<now, store, redis, key, snap, outcome, gone, backlog, refresher>>

\* loadGroup.Do: run the flight of the key, or wait for the one under way.
LoadDo(r) ==
  /\ pc[r] = "loadDo"
  /\ \/ /\ loading[key[r]] = None
        /\ loading' = [loading EXCEPT ![key[r]] = r]
        /\ pc' = [pc EXCEPT ![r] = "loadCacheGet"]
     \/ /\ loading[key[r]] # None
        /\ pc' = [pc EXCEPT ![r] = "loadWait"]
        /\ UNCHANGED loading
  /\ UNCHANGED <<now, store, redis, key, snap, outcome, gone, backlog, refresher>>

\* Fault variant: a failed call is tried again, without an end.
LoadFetchRetried(r) ==
  /\ pc[r] = "loadFetch"
  /\ \/ \E body \in Bodies :
        /\ ~gone[r]
        /\ IF ValidatePayload(body) = None
             THEN Fail(r, "failed")
             ELSE Hold(r, snapshotFromPayload(body, None, NoAccess), "upstream", "loadUpsert")
     \/ UpstreamMayFail(r) /\ Goto(r, "loadStoreGet")
  /\ UNCHANGED <<now, store, redis, backlog, refresher>>

\* The upstream call of a first load, made with the context of the request
\* that runs the flight.
LoadFetch(r) ==
  /\ pc[r] = "loadFetch"
  /\ \/ \E body \in Bodies :
        /\ ~gone[r]
        /\ IF ValidatePayload(body) = None
             THEN Fail(r, "failed")
             ELSE Hold(r, snapshotFromPayload(body, None, NoAccess), "upstream", "loadUpsert")
     \/ UpstreamMayFail(r) /\ Fail(r, "unavailable")
  /\ UNCHANGED <<now, store, redis, backlog, refresher>>

\* Fault variant: the error of the write is ignored.
LoadUpsertUnchecked(r) ==
  /\ pc[r] = "loadUpsert"
  /\ \/ Upsert(key[r], snap[r], FirstAccess(snap[r].fetchedAt))
     \/ PostgresMayFail(r) /\ UNCHANGED store
  /\ Goto(r, "loadCacheSet")
  /\ UNCHANGED <<now, redis, backlog, refresher>>

LoadUpsert(r) ==
  /\ pc[r] = "loadUpsert"
  /\ \/ /\ ~gone[r]
        /\ Upsert(key[r], snap[r], FirstAccess(snap[r].fetchedAt))
        /\ Goto(r, "loadCacheSet")
     \/ /\ PostgresMayFail(r)
        /\ \/ Upsert(key[r], snap[r], FirstAccess(snap[r].fetchedAt))
           \/ UNCHANGED store
        /\ Fail(r, "failed")
  /\ UNCHANGED <<now, redis, backlog, refresher>>

LoadCacheSet(r) ==
  /\ pc[r] = "loadCacheSet"
  /\ \/ Set(key[r], snap[r])
     \/ RedisMayFail(r) /\ UNCHANGED cache
  /\ Serve(r, "upstream")
  /\ UNCHANGED <<now, store, backlog, refresher>>

\* The handler writes the response; the slot is free again.
Deliver(r) ==
  /\ pc[r] = "done"
  /\ pc' = [pc EXCEPT ![r] = "idle"]
  /\ key' = [key EXCEPT ![r] = None]
  /\ snap' = [snap EXCEPT ![r] = None]
  /\ outcome' = [outcome EXCEPT ![r] = "none"]
  /\ gone' = [gone EXCEPT ![r] = FALSE]
  /\ UNCHANGED <<now, store, redis, loading, backlog, refresher>>

-----------------------------------------------------------------------------
(* refreshWorker and refresh.  refreshGroup.Do never joins two workers: the *)
(* pending mark keeps a key with one worker (OneRefreshPerKey below).       *)

WorkerGoto(w, step) ==
  /\ wpc' = [wpc EXCEPT ![w] = step]
  /\ UNCHANGED <<wkey, wsnap, wstats>>

RefreshTake(w) ==
  /\ wpc[w] = "idle"
  /\ queue # <<>>
  /\ queue' = Tail(queue)
  /\ wkey' = [wkey EXCEPT ![w] = Head(queue)]
  /\ wpc' = [wpc EXCEPT ![w] = "storeGet"]
  /\ UNCHANGED <<now, store, redis, flights, pending, wsnap, wstats>>

\* store.Get: the refresh of a missing row needs no look at the clock, one that
\* cannot read the row is given up.
RefreshStoreGet(w) ==
  /\ wpc[w] = "storeGet"
  /\ \/ /\ wpc' = [wpc EXCEPT ![w] = IF Stored(wkey[w]) THEN "check" ELSE "fetch"]
        /\ wsnap' = [wsnap EXCEPT ![w] = row[wkey[w]]]
        /\ wstats' = [wstats EXCEPT ![w] = access[wkey[w]]]
        /\ UNCHANGED wkey
     \/ "postgres" \in Faults /\ WorkerGoto(w, "clear")
  /\ UNCHANGED <<now, store, redis, flights, backlog>>

\* Fault variants: the row is not looked at; the comparison is inverted.
AlwaysNeeded(w)  == TRUE
NeededIfFresh(w) == ~Due(wsnap[w])

RefreshNeeded(w) == Due(wsnap[w])

\* NextRefreshAt.After(now): a refresh that is no longer needed is skipped.
RefreshCheck(w) ==
  /\ wpc[w] = "check"
  /\ WorkerGoto(w, IF RefreshNeeded(w) THEN "fetch" ELSE "clear")
  /\ UNCHANGED <<now, store, redis, flights, backlog>>

RefreshFetch(w) ==
  /\ wpc[w] = "fetch"
  /\ \/ \E body \in Payloads :
          /\ wsnap' = [wsnap EXCEPT ![w] = snapshotFromPayload(body, wsnap[w], wstats[w])]
          /\ wpc' = [wpc EXCEPT ![w] = "upsert"]
          /\ UNCHANGED <<wkey, wstats>>
     \/ /\ "upstream" \in Faults \/ Invalid \in Bodies
        /\ WorkerGoto(w, "markError")
  /\ UNCHANGED <<now, store, redis, flights, backlog>>

RefreshMarkError(w) ==
  /\ wpc[w] = "markError"
  /\ \/ MarkRefreshError(wkey[w], RefreshFailureRetryAt(Policy, now))
     \/ "postgres" \in Faults /\ UNCHANGED store
  /\ WorkerGoto(w, "clear")
  /\ UNCHANGED <<now, redis, flights, backlog>>

\* A snapshot that cannot be stored is dropped, without MarkRefreshError.
RefreshUpsert(w) ==
  /\ wpc[w] = "upsert"
  /\ \/ /\ Upsert(wkey[w], wsnap[w], wstats[w])
        /\ WorkerGoto(w, "cacheSet")
     \/ /\ "postgres" \in Faults
        /\ Upsert(wkey[w], wsnap[w], wstats[w]) \/ UNCHANGED store
        /\ WorkerGoto(w, "clear")
  /\ UNCHANGED <<now, redis, flights, backlog>>

RefreshCacheSet(w) ==
  /\ wpc[w] = "cacheSet"
  /\ \/ Set(wkey[w], wsnap[w])
     \/ "redis" \in Faults /\ UNCHANGED cache
  /\ WorkerGoto(w, "clear")
  /\ UNCHANGED <<now, store, flights, backlog>>

\* The deferred clearRefreshPending, on every way out of refresh.
ClearRefreshPending(w) ==
  /\ wpc[w] = "clear"
  /\ clearRefreshPending(wkey[w])
  /\ wpc' = [wpc EXCEPT ![w] = "idle"]
  /\ wkey' = [wkey EXCEPT ![w] = None]
  /\ wsnap' = [wsnap EXCEPT ![w] = None]
  /\ wstats' = [wstats EXCEPT ![w] = NoAccess]
  /\ UNCHANGED <<now, store, redis, flights, queue>>

-----------------------------------------------------------------------------
(* The environment. *)

Tick ==
  /\ now < MaxTime
  /\ now' = now + 1
  /\ UNCHANGED <<store, redis, flights, backlog, refresher>>

CacheExpires(k) ==
  Evict(k) /\ UNCHANGED <<now, store, flights, backlog, refresher>>

CacheDamaged(k) ==
  /\ "corrupt" \in Faults
  /\ Damage(k)
  /\ UNCHANGED <<now, store, flights, backlog, refresher>>

Disconnect(r) ==
  /\ "disconnect" \in Faults
  /\ InFlight(r) /\ ~gone[r]
  /\ gone' = [gone EXCEPT ![r] = TRUE]
  /\ UNCHANGED <<now, store, redis, pc, key, snap, outcome, loading, backlog, refresher>>

\* The process ends anywhere, Close included, and main starts it again.
Crash ==
  /\ "crash" \in Faults
  /\ pending' = {} /\ queue' = <<>>
  /\ loading' = [k \in Keys |-> None]
  /\ pc' = [r \in Requests |-> "idle"]
  /\ key' = [r \in Requests |-> None]
  /\ snap' = [r \in Requests |-> None]
  /\ outcome' = [r \in Requests |-> "none"]
  /\ gone' = [r \in Requests |-> FALSE]
  /\ wpc' = [w \in Workers |-> "idle"]
  /\ wkey' = [w \in Workers |-> None]
  /\ wsnap' = [w \in Workers |-> None]
  /\ wstats' = [w \in Workers |-> NoAccess]
  /\ UNCHANGED <<now, store, redis>>

-----------------------------------------------------------------------------
\* What a request does by itself, the upstream's answer apart.
RequestStep(r) ==
  \/ CacheGet(r) \/ StoreGet(r)
  \/ LoadDo(r) \/ LoadCacheGet(r) \/ LoadStoreGet(r)
  \/ LoadUpsert(r) \/ LoadCacheSet(r)
  \/ RequestRecordsAccess(r) \/ CheckDue(r)
  \/ CacheDelete(r) \/ MarkRefreshPending(r) \/ SendRefresh(r)
  \/ CacheSet(r)
  \/ Deliver(r)

WorkerStep(w) ==
  \/ RefreshTake(w) \/ RefreshStoreGet(w) \/ RefreshCheck(w)
  \/ RefreshMarkError(w) \/ RefreshUpsert(w)
  \/ RefreshCacheSet(w) \/ ClearRefreshPending(w)

Environment ==
  \/ Tick
  \/ \E k \in Keys : CacheExpires(k) \/ CacheDamaged(k)
  \/ \E r \in Requests : Disconnect(r)
  \/ Crash

Next ==
  \/ \E r \in Requests : ArriveInvalid(r) \/ \E k \in Keys : Arrive(r, k)
  \/ \E r \in Requests : RequestStep(r) \/ LoadFetch(r)
  \/ \E w \in Workers : WorkerStep(w) \/ RefreshFetch(w)
  \/ Environment

Spec == Init /\ [][Next]_vars

\* Every goroutine that can go on does: Go's scheduler, the timeouts of the
\* Redis client, and a PostgreSQL that answers or drops its connections.
Scheduled ==
  /\ \A r \in Requests : WF_vars(RequestStep(r))
  /\ \A w \in Workers : WF_vars(WorkerStep(w))

\* Assumed of the upstream and not enforced: its http.Client has no timeout.
\* Nothing is assumed of the calls for a Silent key.
UpstreamAnswers ==
  /\ \A r \in Requests : WF_vars(key[r] \notin Silent /\ LoadFetch(r))
  /\ \A w \in Workers : WF_vars(wkey[w] \notin Silent /\ RefreshFetch(w))

FairSpec == Spec /\ Scheduled /\ UpstreamAnswers
=============================================================================
