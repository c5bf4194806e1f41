----------------------- MODULE UpstreamPromiseProofs -----------------------
(***************************************************************************)
(* The comment service implements UpstreamContract, for any number of      *)
(* keys, requests and workers, any configuration and any set of faults.    *)
(*                                                                         *)
(* A key has one caller at a time: of the requests the one that runs its   *)
(* flight, of the workers the one that has its mark, and never both,       *)
(* because a first load calls only for a key without a row and a refresh   *)
(* only for one with a row.                                                *)
(***************************************************************************)
EXTENDS SnapshotCopiesProofs

LoadCalls(r)    == pc[r] \in {"loadFetch", "loadUpsert"}
RefreshCalls(w) == wpc[w] \in {"fetch", "upsert", "markError"}

-----------------------------------------------------------------------------
(* Who calls. *)

\* A key in Calling has a caller, and a caller's key is in Calling.
LEMMA CallingMeans ==
  ASSUME TypeOK, NEW k
  PROVE  k \in Calling <=> \/ \E r \in Requests : LoadCalls(r) /\ key[r] = k
                           \/ \E w \in Workers : RefreshCalls(w) /\ wkey[w] = k
BY DEF Calling, LoadCalls, RefreshCalls

\* A flight that has not seen a row shares its key with no other caller.
LEMMA LoadIsOnlyCaller ==
  ASSUME ServiceInvariant, NEW r \in Requests, row[key[r]] = None,
         pc[r] \in {"loadStoreGet", "loadFetch", "loadUpsert"}
  PROVE  /\ \A q \in Requests \ {r} : LoadCalls(q) => key[q] # key[r]
         /\ \A w \in Workers : RefreshCalls(w) => wkey[w] # key[r]
<1>1. TypeOK /\ FlightIsLive /\ PendingIsLive /\ PendingIsStored
  BY DEF ServiceInvariant, CopyInvariant, QueueInvariant
<1>2. \A q \in Requests \ {r} : LoadCalls(q) => key[q] # key[r]
  BY <1>1 DEF FlightIsLive, Leads, LoadCalls
<1>3. \A w \in Workers : RefreshCalls(w) => wkey[w] # key[r]
  BY <1>1 DEF PendingIsLive, PendingIsStored, Refreshing, RefreshCalls, TypeOK, WorkerTypeOK
<1>4. QED
  BY <1>2, <1>3

\* Nor does a worker with the key it refreshes, which has a row.
LEMMA RefreshIsOnlyCaller ==
  ASSUME ServiceInvariant, NEW w \in Workers, wpc[w] # "idle"
  PROVE  /\ wkey[w] \in Keys /\ row[wkey[w]] # None
         /\ \A q \in Requests : LoadCalls(q) => key[q] # wkey[w]
         /\ \A v \in Workers \ {w} : RefreshCalls(v) => wkey[v] # wkey[w]
<1>1. TypeOK /\ FirstLoadsAreFirst /\ PendingIsLive /\ PendingIsStored /\ OneRefreshPerKey
  BY DEF ServiceInvariant, CopyInvariant, QueueInvariant
<1>2. wkey[w] \in Keys
  BY <1>1 DEF TypeOK, WorkerTypeOK
<1>3. row[wkey[w]] # None
  BY <1>1, <1>2 DEF PendingIsLive, PendingIsStored, Refreshing
<1>4. \A q \in Requests : LoadCalls(q) => key[q] # wkey[w]
  BY <1>1, <1>3 DEF FirstLoadsAreFirst, LoadCalls
<1>5. \A v \in Workers \ {w} : RefreshCalls(v) => wkey[v] # wkey[w]
  BY <1>1, <1>2 DEF OneRefreshPerKey, Refreshing, RefreshCalls
<1>6. QED
  BY <1>2, <1>3, <1>4, <1>5

-----------------------------------------------------------------------------
(* The steps of the contract. *)

LEMMA ContractStutters ==
  ASSUME UNCHANGED <<now, row>>, Calling' \subseteq Calling
  PROVE  Contract!Next
BY DEF Contract!Next, Contract!GiveUp

LEMMA ContractTicks ==
  ASSUME now' = now + 1, UNCHANGED row, Calling' = Calling
  PROVE  Contract!Next
BY DEF Contract!Next, Contract!Tick

LEMMA ContractCalls ==
  ASSUME NEW k \in Keys, k \notin Calling, row[k] = None \/ Due(row[k]),
         UNCHANGED <<now, row>>, Calling' = Calling \cup {k}
  PROVE  Contract!Next
<1>1. Contract!Call(k)
  BY DEF Contract!Call, Due
<1>2. QED
  BY <1>1 DEF Contract!Next

LEMMA ContractStores ==
  ASSUME TypeOK, NEW k \in Keys, k \in Calling, NEW s \in Snapshots,
         s.fetchedAt <= now, s.fetchedAt < s.nextRefreshAt,
         row[k] # None => row[k].fetchedAt < s.fetchedAt,
         row' = [row EXCEPT ![k] = s], UNCHANGED now, Calling' = Calling \ {k}
  PROVE  Contract!Next
<1> DEFINE due == [j \in Keys |-> IF row[j] = None THEN None ELSE row[j].nextRefreshAt]
           fetched == [j \in Keys |-> IF row[j] = None THEN None ELSE row[j].fetchedAt]
<1>1. /\ row \in [Keys -> Snapshots \cup {None}] /\ s # None
      /\ s.fetchedAt \in Nat /\ s.nextRefreshAt \in Int
  BY SnapshotAssumption DEF TypeOK, StoreTypeOK, Snapshots
<1>2. /\ fetched'[k] = s.fetchedAt /\ due'[k] = s.nextRefreshAt
      /\ fetched' = [fetched EXCEPT ![k] = s.fetchedAt]
      /\ due' = [due EXCEPT ![k] = s.nextRefreshAt]
  BY <1>1
<1>3. fetched[k] # None => fetched[k] < s.fetchedAt
  OBVIOUS
<1>4. Contract!Store(k)
  BY <1>1, <1>2, <1>3 DEF Contract!Store
<1>5. QED
  BY <1>4 DEF Contract!Next

LEMMA ContractPostpones ==
  ASSUME TypeOK, NEW k \in Keys, k \in Calling, row[k] # None, NEW at \in Int,
         row' = [row EXCEPT ![k] = [@ EXCEPT !.nextRefreshAt = at, !.status = "error"]],
         UNCHANGED now, Calling' = Calling \ {k}
  PROVE  Contract!Next
<1> DEFINE due == [j \in Keys |-> IF row[j] = None THEN None ELSE row[j].nextRefreshAt]
           fetched == [j \in Keys |-> IF row[j] = None THEN None ELSE row[j].fetchedAt]
           marked == [row[k] EXCEPT !.nextRefreshAt = at, !.status = "error"]
<1>1. /\ row \in [Keys -> Snapshots \cup {None}] /\ row[k] \in Snapshots
  BY DEF TypeOK, StoreTypeOK
<1>2. /\ marked \in Snapshots /\ marked.nextRefreshAt = at /\ marked.fetchedAt = row[k].fetchedAt
      /\ row[k].nextRefreshAt \in Int
  BY <1>1 DEF Snapshots
<1>3. row' = [row EXCEPT ![k] = marked]
  OBVIOUS
<1> HIDE DEF marked
<1>4. marked # None /\ row[k].nextRefreshAt # None
  BY <1>2, SnapshotAssumption
<1>5. /\ fetched' = fetched /\ due'[k] = at
      /\ due' = [due EXCEPT ![k] = at]
  BY <1>1, <1>2, <1>3, <1>4
<1>6. Contract!Postpone(k)
  BY <1>4, <1>5 DEF Contract!Postpone
<1>7. QED
  BY <1>6 DEF Contract!Next

-----------------------------------------------------------------------------
(* The steps of the service. *)

\* Nobody starts a call.
LEMMA NoNewCaller ==
  ASSUME \A r \in Requests : LoadCalls(r)' => LoadCalls(r) /\ key'[r] = key[r],
         \A w \in Workers : RefreshCalls(w)' => RefreshCalls(w) /\ wkey'[w] = wkey[w]
  PROVE  Calling' \subseteq Calling
BY DEF Calling, LoadCalls, RefreshCalls

\* A request starts one only by going on to loadFetch.
LEMMA RequestStartsNoCall ==
  ASSUME TypeOK, NEW r \in Requests, UNCHANGED refresher,
         \/ \E step : step \notin {"loadFetch", "loadUpsert"} /\ Goto(r, step)
         \/ \E step, s, source :
              (step \notin {"loadFetch", "loadUpsert"} \/ LoadCalls(r)) /\ Hold(r, s, source, step)
         \/ \E result, s : Answer(r, result, s)
  PROVE  Calling' \subseteq Calling
<1>1. ASSUME NEW q \in Requests, LoadCalls(q)'
      PROVE  LoadCalls(q) /\ key'[q] = key[q]
  BY <1>1 DEF LoadCalls, Goto, Hold, Answer, TypeOK, RequestTypeOK
<1>2. \A w \in Workers : RefreshCalls(w)' => RefreshCalls(w) /\ wkey'[w] = wkey[w]
  BY DEF RefreshCalls, refresher
<1>3. QED
  BY <1>1, <1>2, NoNewCaller

LEMMA LoadStoreGetKeepsPromise ==
  ASSUME ServiceInvariant, NEW r \in Requests, LoadStoreGet(r)
  PROVE  Contract!Next
<1>1. /\ TypeOK /\ pc[r] = "loadStoreGet" /\ key[r] \in Keys
      /\ UNCHANGED <<now, row, refresher>>
  BY DEF ServiceInvariant, TypeOK, RequestTypeOK, InFlight, LoadStoreGet, ReadStore, store
<1>2. CASE row[key[r]] = None /\ Goto(r, "loadFetch")
  <2>1. /\ key' = key /\ wpc' = wpc /\ wkey' = wkey
        /\ LoadCalls(r)' /\ ~LoadCalls(r)
        /\ \A q \in Requests \ {r} : LoadCalls(q)' <=> LoadCalls(q)
    BY <1>1, <1>2 DEF Goto, LoadCalls, refresher, TypeOK, RequestTypeOK
  <2>2. key[r] \notin Calling
    BY <1>1, <1>2, <2>1, LoadIsOnlyCaller, CallingMeans
  <2>3. Calling' = Calling \cup {key[r]}
    BY <2>1 DEF Calling, LoadCalls
  <2>4. QED
    BY <1>1, <1>2, <2>2, <2>3, ContractCalls
<1>3. CASE \/ Hold(r, row[key[r]], "postgres", "access")
           \/ Fail(r, "failed")
  <2>1. Calling' \subseteq Calling
    <3>1. CASE Hold(r, row[key[r]], "postgres", "access")
      BY <1>1, <3>1, RequestStartsNoCall
    <3>2. CASE Fail(r, "failed")
      BY <1>1, <3>2, RequestStartsNoCall DEF Fail
    <3>3. QED
      BY <1>3, <3>1, <3>2
  <2>2. QED
    BY <1>1, <2>1, ContractStutters
<1>4. QED
  BY <1>2, <1>3 DEF LoadStoreGet, ReadStore, Stored

LEMMA LoadUpsertKeepsPromise ==
  ASSUME ServiceInvariant, NEW r \in Requests, LoadUpsert(r)
  PROVE  Contract!Next
<1> DEFINE k == key[r]
<1>1. /\ TypeOK /\ pc[r] = "loadUpsert" /\ k \in Keys /\ snap[r] \in Snapshots /\ row[k] = None
      /\ snap[r].fetchedAt <= now /\ snap[r].fetchedAt < snap[r].nextRefreshAt
      /\ UNCHANGED <<now, refresher>>
  BY DEF ServiceInvariant, CopyInvariant, FirstLoadsAreFirst, TypeOK, RequestTypeOK, InFlight, HoldingSteps,
         LoadUpsert
<1>2. Goto(r, "loadCacheSet") \/ Answer(r, "failed", None)
  BY DEF LoadUpsert, Fail
<1>3. /\ key' = key /\ wpc' = wpc /\ wkey' = wkey
      /\ LoadCalls(r) /\ ~LoadCalls(r)'
      /\ \A q \in Requests \ {r} : LoadCalls(q)' <=> LoadCalls(q)
  BY <1>1, <1>2 DEF Goto, Answer, Waiters, LoadCalls, refresher, TypeOK, RequestTypeOK
<1>4. k \in Calling
  BY <1>1, <1>3, CallingMeans
<1>5. Calling' = Calling \ {k}
  <2>1. /\ \A q \in Requests \ {r} : LoadCalls(q) => key[q] # k
        /\ \A w \in Workers : RefreshCalls(w) => wkey[w] # k
    BY <1>1, LoadIsOnlyCaller
  <2>2. QED
    BY <1>3, <2>1 DEF Calling, LoadCalls, RefreshCalls
<1>6. CASE row' = [row EXCEPT ![k] = snap[r]]
  BY <1>1, <1>4, <1>5, <1>6, ContractStores
<1>7. CASE row' = row
  BY <1>1, <1>5, <1>7, ContractStutters
<1>8. QED
  BY <1>6, <1>7 DEF LoadUpsert, Upsert, store

\* The other steps of a request start no call and write no row.
LEMMA RequestStepKeepsPromise ==
  ASSUME ServiceInvariant, NEW r \in Requests,
         RequestStep(r) \/ LoadFetch(r), ~LoadStoreGet(r), ~LoadUpsert(r)
  PROVE  Contract!Next
<1>1. TypeOK
  BY DEF ServiceInvariant
<1>2. UNCHANGED <<now, row, refresher>>
  BY DEF RequestStep, LoadFetch, CacheGet, StoreGet, LoadDo, LoadCacheGet, LoadCacheSet, RequestRecordsAccess,
         RecordAccess, CheckDue, CacheDelete, MarkRefreshPending, SendRefresh, CacheSet, Deliver, ReadCache,
         ReadStore, store
<1>3. CASE CacheGet(r) \/ StoreGet(r) \/ LoadCacheGet(r)
  <2>1. \/ \E step : step \notin {"loadFetch", "loadUpsert"} /\ Goto(r, step)
        \/ \E s, source : Hold(r, s, source, "access")
        \/ \E result, s : Answer(r, result, s)
    BY <1>3 DEF CacheGet, StoreGet, LoadCacheGet, ReadCache, ReadStore, Fail
  <2>2. QED
    BY <1>1, <1>2, <2>1, RequestStartsNoCall, ContractStutters
<1>4. CASE LoadFetch(r)
  <2>1. \/ \E s : Hold(r, s, "upstream", "loadUpsert")
        \/ \E result, s : Answer(r, result, s)
    BY <1>4 DEF LoadFetch, Fail
  <2>2. LoadCalls(r)
    BY <1>4 DEF LoadFetch, LoadCalls
  <2>3. QED
    BY <1>1, <1>2, <2>1, <2>2, RequestStartsNoCall, ContractStutters
<1>5. CASE \/ RequestRecordsAccess(r) \/ CheckDue(r) \/ CacheDelete(r) \/ MarkRefreshPending(r)
           \/ SendRefresh(r) \/ CacheSet(r) \/ LoadCacheSet(r)
  <2>1. \/ \E step : step \notin {"loadFetch", "loadUpsert"} /\ Goto(r, step)
        \/ \E result, s : Answer(r, result, s)
    BY <1>5 DEF RequestRecordsAccess, CheckDue, CacheDelete, MarkRefreshPending, SendRefresh, CacheSet,
                LoadCacheSet, Serve
  <2>2. QED
    BY <1>1, <1>2, <2>1, RequestStartsNoCall, ContractStutters
<1>6. CASE LoadDo(r) \/ Deliver(r)
  <2>1. /\ \A q \in Requests : LoadCalls(q)' => LoadCalls(q) /\ key'[q] = key[q]
        /\ \A w \in Workers : RefreshCalls(w)' => RefreshCalls(w) /\ wkey'[w] = wkey[w]
    BY <1>1, <1>2, <1>6 DEF LoadDo, Deliver, LoadCalls, RefreshCalls, refresher, TypeOK, RequestTypeOK
  <2>2. QED
    BY <1>2, <2>1, NoNewCaller, ContractStutters
<1>7. QED
  BY <1>3, <1>4, <1>5, <1>6 DEF RequestStep

\* A worker calls for a row that is due and settles the call with a newer row,
\* with another next time, or with nothing.
LEMMA WorkerStepKeepsPromise ==
  ASSUME ServiceInvariant, NEW w \in Workers, WorkerStep(w) \/ RefreshFetch(w)
  PROVE  Contract!Next
<1> DEFINE k == wkey[w]
<1>1. /\ TypeOK /\ RefreshesAreDue
      /\ UNCHANGED <<now, pc, key>>
      /\ \A v \in Workers \ {w} : wpc'[v] = wpc[v] /\ wkey'[v] = wkey[v]
  BY DEF ServiceInvariant, CopyInvariant, WorkerStep, RefreshTake, RefreshStoreGet, RefreshCheck,
         RefreshFetch, RefreshMarkError, RefreshUpsert, RefreshCacheSet, ClearRefreshPending, WorkerGoto,
         flights, TypeOK, WorkerTypeOK
<1>2. ASSUME wpc[w] # "idle"
      PROVE  /\ k \in Keys /\ row[k] # None
             /\ \A q \in Requests : LoadCalls(q) => key[q] # k
             /\ \A v \in Workers \ {w} : RefreshCalls(v) => wkey[v] # k
  BY <1>2, RefreshIsOnlyCaller
<1>3. CASE \/ RefreshTake(w) \/ RefreshStoreGet(w) \/ RefreshFetch(w) \/ RefreshCacheSet(w)
           \/ ClearRefreshPending(w)
  <2>1. /\ UNCHANGED row
        /\ RefreshCalls(w)' => RefreshCalls(w) /\ wkey'[w] = wkey[w]
    BY <1>1, <1>2, <1>3 DEF RefreshTake, RefreshStoreGet, Stored, RefreshFetch, RefreshCacheSet,
                      ClearRefreshPending, WorkerGoto, RefreshCalls, store, TypeOK, WorkerTypeOK
  <2>2. Calling' \subseteq Calling
    BY <1>1, <2>1, NoNewCaller DEF LoadCalls, RefreshCalls
  <2>3. QED
    BY <1>1, <2>1, <2>2, ContractStutters
<1>4. CASE RefreshCheck(w)
  <2>1. /\ wpc[w] = "check" /\ UNCHANGED <<row, wkey>>
        /\ wpc'[w] = "clear" \/ (wpc'[w] = "fetch" /\ Due(wsnap[w]))
    BY <1>1, <1>4 DEF RefreshCheck, RefreshNeeded, WorkerGoto, store, TypeOK, WorkerTypeOK
  <2>2. wsnap[w] = row[k]
    BY <1>1, <2>1 DEF RefreshesAreDue
  <2>3. CASE wpc'[w] = "clear"
    <3>1. Calling' \subseteq Calling
      BY <1>1, <2>1, <2>3, NoNewCaller DEF LoadCalls, RefreshCalls
    <3>2. QED
      BY <1>1, <2>1, <3>1, ContractStutters
  <2>4. CASE wpc'[w] = "fetch" /\ Due(row[k])
    <3>1. k \notin Calling
      BY <1>1, <1>2, <2>1, CallingMeans DEF RefreshCalls
    <3>2. Calling' = Calling \cup {k}
      BY <1>1, <2>1, <2>4 DEF Calling
    <3>3. QED
      BY <1>1, <1>2, <2>1, <2>4, <3>1, <3>2, ContractCalls
  <2>5. QED
    BY <2>1, <2>2, <2>3, <2>4
<1>5. ASSUME wpc[w] \in {"upsert", "markError"}, UNCHANGED wkey, wpc'[w] \in {"cacheSet", "clear"}
      PROVE  k \in Calling /\ Calling' = Calling \ {k}
  <2>1. k \in Calling
    BY <1>1, <1>5, CallingMeans DEF RefreshCalls
  <2>2. Calling' = Calling \ {k}
    BY <1>1, <1>2, <1>5 DEF Calling, LoadCalls, RefreshCalls
  <2>3. QED
    BY <2>1, <2>2
<1>6. CASE RefreshUpsert(w)
  <2>1. /\ wpc[w] = "upsert" /\ UNCHANGED wkey /\ wpc'[w] \in {"cacheSet", "clear"}
        /\ wsnap[w] \in Snapshots
        /\ row' = row \/ row' = [row EXCEPT ![k] = wsnap[w]]
    BY <1>1, <1>6 DEF RefreshUpsert, Upsert, WorkerGoto, store, TypeOK, WorkerTypeOK
  <2>2. /\ wsnap[w].fetchedAt <= now /\ wsnap[w].fetchedAt < wsnap[w].nextRefreshAt
        /\ row[k].fetchedAt < wsnap[w].fetchedAt
    BY <1>1, <2>1 DEF RefreshesAreDue, Replaces
  <2>3. CASE row' = row
    BY <1>1, <1>5, <2>1, <2>3, ContractStutters
  <2>4. CASE row' = [row EXCEPT ![k] = wsnap[w]]
    BY <1>1, <1>2, <1>5, <2>1, <2>2, <2>4, ContractStores
  <2>5. QED
    BY <2>1, <2>3, <2>4
<1>7. CASE RefreshMarkError(w)
  <2> DEFINE at == RefreshFailureRetryAt(Policy, now)
  <2>1. /\ wpc[w] = "markError" /\ UNCHANGED wkey /\ wpc'[w] \in {"cacheSet", "clear"}
    BY <1>1, <1>7 DEF RefreshMarkError, WorkerGoto, TypeOK, WorkerTypeOK
  <2>2. at \in Int
    BY <1>1, ServiceAssumption DEF RefreshFailureRetryAt, Policies, Fields, TypeOK
  <2>3. row[k] # None /\ k \in Keys /\ k \in Calling /\ Calling' = Calling \ {k}
    BY <1>2, <1>5, <2>1
  <2>4. \/ row' = row
        \/ row' = [row EXCEPT ![k] = [@ EXCEPT !.nextRefreshAt = at, !.status = "error"]]
    BY <1>7, <2>3 DEF RefreshMarkError, MarkRefreshError, store
  <2> HIDE DEF at
  <2>5. CASE row' = row
    BY <1>1, <2>3, <2>5, ContractStutters
  <2>6. CASE row' = [row EXCEPT ![k] = [@ EXCEPT !.nextRefreshAt = at, !.status = "error"]]
    BY <1>1, <2>2, <2>3, <2>6, ContractPostpones
  <2>7. QED
    BY <2>4, <2>5, <2>6
<1>8. QED
  BY <1>3, <1>4, <1>6, <1>7 DEF WorkerStep

LEMMA OtherStepsKeepPromise ==
  ASSUME ServiceInvariant,
         \/ \E r \in Requests : ArriveInvalid(r) \/ \E k \in Keys : Arrive(r, k)
         \/ Environment
         \/ UNCHANGED vars
  PROVE  [Contract!Next]_(Contract!vars)
<1>1. TypeOK
  BY DEF ServiceInvariant
<1>2. CASE Tick
  <2>1. now' = now + 1 /\ UNCHANGED row /\ Calling' = Calling
    BY <1>2 DEF Tick, store, flights, refresher, Calling
  <2>2. QED
    BY <2>1, ContractTicks
<1>3. ASSUME /\ \A r \in Requests : LoadCalls(r)' => LoadCalls(r) /\ key'[r] = key[r]
             /\ \A w \in Workers : RefreshCalls(w)' => RefreshCalls(w) /\ wkey'[w] = wkey[w]
             /\ UNCHANGED <<now, row>>
      PROVE  Contract!Next
  BY <1>3, NoNewCaller, ContractStutters
<1>4. CASE \E r \in Requests : ArriveInvalid(r) \/ \E k \in Keys : Arrive(r, k)
  <2>1. \A r \in Requests : LoadCalls(r)' => LoadCalls(r) /\ key'[r] = key[r]
    BY <1>1, <1>4 DEF ArriveInvalid, Arrive, LoadCalls, TypeOK, RequestTypeOK
  <2>2. /\ \A w \in Workers : RefreshCalls(w)' => RefreshCalls(w) /\ wkey'[w] = wkey[w]
        /\ UNCHANGED <<now, row>>
    BY <1>4 DEF ArriveInvalid, Arrive, RefreshCalls, refresher, store
  <2>3. QED
    BY <1>3, <2>1, <2>2
<1>5. CASE \/ \E k \in Keys : CacheExpires(k) \/ CacheDamaged(k)
           \/ \E r \in Requests : Disconnect(r)
           \/ Crash
           \/ UNCHANGED vars
  <2>1. /\ \A r \in Requests : LoadCalls(r)' => LoadCalls(r) /\ key'[r] = key[r]
        /\ \A w \in Workers : RefreshCalls(w)' => RefreshCalls(w) /\ wkey'[w] = wkey[w]
        /\ UNCHANGED <<now, row>>
    BY <1>5 DEF CacheExpires, CacheDamaged, Disconnect, Crash, LoadCalls, RefreshCalls, vars, flights, refresher, store
  <2>2. QED
    BY <1>3, <2>1
<1>6. QED
  BY <1>2, <1>4, <1>5 DEF Environment

-----------------------------------------------------------------------------
(* Results. *)

LEMMA ContractInit == Init => Contract!Init
<1> SUFFICES ASSUME Init PROVE Contract!Init
  OBVIOUS
<1>1. Calling = {}
  BY DEF Init, StartEmpty, Calling
<1>2. /\ row \in [Keys -> LegacyRows \cup {None}]
      /\ \A s \in LegacyRows : s \in Snapshots /\ s # None /\ s.fetchedAt = 0 /\ s.nextRefreshAt \in Int
  BY ServiceAssumption, SnapshotAssumption DEF Init, Snapshots
<1>3. 0 # None /\ \A i \in Int : i # None
  BY SnapshotAssumption
<1>4. QED
  BY <1>1, <1>2, <1>3 DEF Init, Contract!Init

\* The upstream is called for a key only if nothing is stored or what is stored
\* is due, and for one caller at a time; what a call brings is stored once, and
\* no stored time goes back (GetComments, firstLoad, enqueueRefresh, refresh).
THEOREM PromiseIsKept == Spec => UpstreamPromise
<1>1. ServiceInvariant /\ [Next]_vars => [Contract!Next]_(Contract!vars)
  <2> SUFFICES ASSUME ServiceInvariant, [Next]_vars
               PROVE  [Contract!Next]_(Contract!vars)
    OBVIOUS
  <2>1. CASE \E r \in Requests : RequestStep(r) \/ LoadFetch(r)
    BY <2>1, LoadStoreGetKeepsPromise, LoadUpsertKeepsPromise, RequestStepKeepsPromise
  <2>2. CASE \E w \in Workers : WorkerStep(w) \/ RefreshFetch(w)
    BY <2>2, WorkerStepKeepsPromise
  <2>3. CASE \/ \E r \in Requests : ArriveInvalid(r) \/ \E k \in Keys : Arrive(r, k)
             \/ Environment
             \/ UNCHANGED vars
    BY <2>3, OtherStepsKeepPromise
  <2>4. QED
    BY <2>1, <2>2, <2>3 DEF Next
<1>2. QED
  BY <1>1, ContractInit, ServiceInvariantHolds, PTL DEF Spec, UpstreamPromise, Contract!Spec

-----------------------------------------------------------------------------
(* Answers. *)

\* A request is answered by a step of its runner, which has its key.
LEMMA RunnerAnswers ==
  ASSUME TypeOK, [Next]_vars, NEW q \in Requests, Answered(q)
  PROVE  \E r \in Requests : \E result, s :
           /\ r = Runner(q) /\ key[q] = key[r]
           /\ RequestStep(r) \/ LoadFetch(r)
           /\ Answer(r, result, s) /\ outcome'[q] = result
<1>1. ASSUME NEW r \in Requests, NEW result, NEW s, Answer(r, result, s), pc[r] # "loadWait"
      PROVE  r = Runner(q) /\ key[q] = key[r] /\ outcome'[q] = result
  <2>1. q \in {r} \cup Waiters(r)
    BY <1>1 DEF Answer, Answered, Waiters
  <2>2. outcome'[q] = result
    BY <1>1, <2>1 DEF Answer
  <2>3. QED
    BY <1>1, <2>1, <2>2 DEF Waiters, Leads, Runner
<1>2. ASSUME NEW r \in Requests, NEW step, step # "done"
      PROVE  /\ ~Goto(r, step)
             /\ \A s, source : ~Hold(r, s, source, step)
  BY <1>2 DEF Goto, Hold, TypeOK, RequestTypeOK, Answered
<1>3. ASSUME NEW r \in Requests, RequestStep(r) \/ LoadFetch(r)
      PROVE  pc[r] # "loadWait" /\ \E result, s : Answer(r, result, s)
  <2>1. CASE CacheGet(r) \/ LoadCacheGet(r) \/ StoreGet(r) \/ LoadStoreGet(r)
    BY <1>2, <2>1 DEF CacheGet, LoadCacheGet, StoreGet, LoadStoreGet, ReadCache, ReadStore, Fail
  <2>2. CASE RequestRecordsAccess(r) \/ CheckDue(r) \/ CacheDelete(r)
    BY <1>2, <2>2 DEF RequestRecordsAccess, CheckDue, CacheDelete, Serve
  <2>3. CASE MarkRefreshPending(r) \/ SendRefresh(r) \/ CacheSet(r)
    BY <1>2, <2>3 DEF MarkRefreshPending, SendRefresh, CacheSet, Serve
  <2>4. CASE LoadFetch(r) \/ LoadUpsert(r) \/ LoadCacheSet(r)
    BY <1>2, <2>4 DEF LoadFetch, LoadUpsert, LoadCacheSet, Serve, Fail
  <2>5. ~(LoadDo(r) \/ Deliver(r))
    BY DEF LoadDo, Deliver, TypeOK, RequestTypeOK, Answered
  <2>6. QED
    BY <1>3, <2>1, <2>2, <2>3, <2>4, <2>5 DEF RequestStep
<1>4. ~\E r \in Requests : ArriveInvalid(r) \/ \E k \in Keys : Arrive(r, k)
  BY DEF ArriveInvalid, Arrive, TypeOK, RequestTypeOK, Answered
<1>5. ~\E w \in Workers : WorkerStep(w) \/ RefreshFetch(w)
  BY DEF WorkerStep, RefreshTake, RefreshStoreGet, RefreshCheck, RefreshFetch, RefreshMarkError, RefreshUpsert,
         RefreshCacheSet, ClearRefreshPending, flights, Answered
<1>6. ~Environment /\ ~UNCHANGED vars
  BY DEF Environment, Tick, CacheExpires, CacheDamaged, Disconnect, Crash, vars, flights, Answered
<1>7. PICK r \in Requests : RequestStep(r) \/ LoadFetch(r)
  BY <1>4, <1>5, <1>6 DEF Next
<1>8. QED
  BY <1>1, <1>3, <1>7

\* A request told that the upstream is unavailable and nothing is stored
\* (ErrUpstreamUnavailable) asked for a key that has no row, whether it ran the
\* flight that failed or waited for it.
THEOREM UnavailableIsTrue == Spec => UnavailableMeansNoSnapshot
<1> DEFINE Told(q) == Answered(q) /\ outcome'[q] = "unavailable"
<1>1. ASSUME ServiceInvariant, [Next]_vars, NEW q \in Requests, Told(q)
      PROVE  row[key[q]] = None
  <2>1. TypeOK /\ FirstLoadsAreFirst
    BY <1>1 DEF ServiceInvariant, CopyInvariant
  <2>2. PICK r \in Requests : \E result, s :
          /\ r = Runner(q) /\ key[q] = key[r]
          /\ RequestStep(r) \/ LoadFetch(r)
          /\ Answer(r, result, s) /\ outcome'[q] = result
    BY <1>1, <2>1, RunnerAnswers
  <2>3. CASE LoadFetch(r)
    BY <2>1, <2>2, <2>3 DEF LoadFetch, FirstLoadsAreFirst
  <2>4. pc'[r] = "done" /\ outcome'[r] = "unavailable"
    BY <1>1, <2>2 DEF Answer
  <2>5. /\ \A step : step # "done" => ~Goto(r, step)
        /\ \A step, t, source : step # "done" => ~Hold(r, t, source, step)
        /\ \A other : other # "unavailable" => ~Serve(r, other) /\ ~Fail(r, other)
    BY <2>1, <2>4 DEF Goto, Hold, Serve, Fail, Answer, TypeOK, RequestTypeOK
  <2>6. ~(CacheGet(r) \/ StoreGet(r) \/ LoadCacheGet(r) \/ LoadStoreGet(r))
    BY <2>5 DEF CacheGet, StoreGet, LoadCacheGet, LoadStoreGet, ReadCache, ReadStore
  <2>7. ~(RequestRecordsAccess(r) \/ CheckDue(r) \/ CacheDelete(r) \/ MarkRefreshPending(r)
          \/ SendRefresh(r) \/ CacheSet(r) \/ LoadUpsert(r) \/ LoadCacheSet(r))
    BY <2>5 DEF RequestRecordsAccess, CheckDue, CacheDelete, MarkRefreshPending, SendRefresh,
                CacheSet, LoadUpsert, LoadCacheSet
  <2>8. ~(LoadDo(r) \/ Deliver(r))
    BY <2>1, <2>4 DEF LoadDo, Deliver, TypeOK, RequestTypeOK
  <2>9. QED
    BY <2>2, <2>3, <2>6, <2>7, <2>8 DEF RequestStep
<1>2. ServiceInvariant /\ [Next]_vars => [\A r \in Requests : Told(r) => row[key[r]] = None]_vars
  BY <1>1
<1>3. QED
  BY <1>2, ServiceInvariantHolds, PTL DEF Spec, UnavailableMeansNoSnapshot, Answered

\* Only damage puts something into Redis that is not a snapshot.
CacheIsSound == "corrupt" \notin Faults => cache \in [Keys -> Snapshots \cup {None}]

LEMMA CacheStaysSound ==
  ASSUME ServiceInvariant, CacheIsSound, [Next]_vars
  PROVE  CacheIsSound'
<1> SUFFICES ASSUME "corrupt" \notin Faults PROVE cache' \in [Keys -> Snapshots \cup {None}]
  BY DEF CacheIsSound
<1>1. cache \in [Keys -> Snapshots \cup {None}] /\ TypeOK
  BY DEF CacheIsSound, ServiceInvariant
<1>2. ASSUME NEW r \in Requests, RequestStep(r) \/ LoadFetch(r)
      PROVE  cache' \in [Keys -> Snapshots \cup {None}]
  <2>1. CASE UNCHANGED cache
    BY <1>1, <2>1
  <2>2. CASE CacheSet(r) \/ LoadCacheSet(r) \/ CacheDelete(r)
    BY <1>1, <2>2 DEF CacheSet, LoadCacheSet, CacheDelete, Set, Delete, TypeOK, RequestTypeOK,
                      HoldingSteps
  <2>3. QED
    BY <1>2, <2>1, <2>2
       DEF RequestStep, LoadFetch, CacheGet, StoreGet, LoadDo, LoadCacheGet, LoadStoreGet,
           LoadUpsert, RequestRecordsAccess, CheckDue, MarkRefreshPending, SendRefresh, Deliver,
           ReadCache, ReadStore, redis
<1>3. ASSUME NEW w \in Workers, WorkerStep(w) \/ RefreshFetch(w)
      PROVE  cache' \in [Keys -> Snapshots \cup {None}]
  <2>1. CASE RefreshCacheSet(w)
    BY <1>1, <2>1 DEF RefreshCacheSet, Set, TypeOK, WorkerTypeOK
  <2>2. CASE ~RefreshCacheSet(w)
    BY <1>1, <1>3, <2>2 DEF WorkerStep, RefreshTake, RefreshStoreGet, RefreshCheck, RefreshFetch,
                            RefreshMarkError, RefreshUpsert, ClearRefreshPending, redis
  <2>3. QED
    BY <2>1, <2>2
<1>4. CASE Environment
  BY <1>1, <1>4 DEF Environment, Tick, CacheExpires, CacheDamaged, Disconnect, Crash, Evict, Delete,
                    redis
<1>5. CASE UNCHANGED vars \/ \E r \in Requests : ArriveInvalid(r) \/ \E k \in Keys : Arrive(r, k)
  BY <1>1, <1>5 DEF ArriveInvalid, Arrive, vars, redis
<1>6. QED
  BY <1>2, <1>3, <1>4, <1>5 DEF Next

LEMMA CacheIsAlwaysSound == Spec => [](ServiceInvariant /\ CacheIsSound)
<1>1. Init => CacheIsSound
  BY DEF Init, CacheIsSound
<1>2. QED
  BY <1>1, ServiceInvariantInit, ServiceInvariantKept, CacheStaysSound, PTL DEF Spec

\* A step of the runner that ends in a failure had one of these causes.
LEMMA FailureHasCause ==
  ASSUME ServiceInvariant, CacheIsSound, NEW r \in Requests, RequestStep(r) \/ LoadFetch(r),
         NEW result \in {"failed", "unavailable"}, NEW s, Answer(r, result, s)
  PROVE  \/ {"postgres", "corrupt"} \cap Faults # {}
         \/ gone[r]
         \/ row[key[r]] = None /\ {"upstream", "payload"} \cap Faults # {}
<1>1. TypeOK /\ FirstLoadsAreFirst
  BY DEF ServiceInvariant, CopyInvariant
<1>2. pc'[r] = "done" /\ outcome'[r] = result
  BY DEF Answer
<1>3. ASSUME NEW step, step # "done"
      PROVE  /\ ~Goto(r, step)
             /\ \A t, source : ~Hold(r, t, source, step)
  BY <1>1, <1>2, <1>3 DEF Goto, Hold, TypeOK, RequestTypeOK
<1>4. ASSUME NEW other \in {"redis", "postgres", "stale", "upstream"}
      PROVE  ~Serve(r, other)
  BY <1>2 DEF Serve, Answer
<1>5. CASE CacheGet(r) \/ LoadCacheGet(r)
  <2>1. cache[key[r]] = BadPayload /\ key[r] \in Keys
    BY <1>1, <1>3, <1>5 DEF CacheGet, LoadCacheGet, ReadCache, Decodable, TypeOK, RequestTypeOK, InFlight
  <2>2. BadPayload \notin Snapshots \cup {None}
    BY CacheAssumption
  <2>3. "corrupt" \in Faults
    BY <2>1, <2>2 DEF CacheIsSound
  <2>4. QED
    BY <2>3
<1>6. CASE StoreGet(r) \/ LoadStoreGet(r)
  BY <1>3, <1>6 DEF StoreGet, LoadStoreGet, ReadStore, PostgresMayFail
<1>7. CASE LoadUpsert(r)
  BY <1>3, <1>7 DEF LoadUpsert, PostgresMayFail
<1>8. CASE LoadFetch(r)
  <2>1. row[key[r]] = None
    BY <1>1, <1>8 DEF LoadFetch, FirstLoadsAreFirst
  <2>2. \A body \in Payloads : ValidatePayload(body) # None
    <3>1. SUFFICES ASSUME NEW body \in Payloads PROVE ValidatePayload(body) # None
      OBVIOUS
    <3>2. ValidatePayload(body) \in [hash : Payloads, empty : BOOLEAN]
      BY SnapshotAssumption DEF ValidatePayload
    <3>3. QED
      BY <3>2, SnapshotAssumption
  <2>3. \/ UpstreamMayFail(r)
        \/ \E body \in Bodies : ValidatePayload(body) = None
    BY <1>3, <1>8 DEF LoadFetch
  <2>4. QED
    BY <2>1, <2>2, <2>3 DEF UpstreamMayFail, Bodies
<1>9. ~(RequestRecordsAccess(r) \/ CheckDue(r) \/ CacheDelete(r) \/ MarkRefreshPending(r)
        \/ SendRefresh(r) \/ CacheSet(r) \/ LoadCacheSet(r))
  BY <1>3, <1>4 DEF RequestRecordsAccess, CheckDue, CacheDelete, MarkRefreshPending, SendRefresh,
                    CacheSet, LoadCacheSet
<1>10. ~(LoadDo(r) \/ Deliver(r))
  BY <1>1, <1>2 DEF LoadDo, Deliver, TypeOK, RequestTypeOK
<1>11. QED
  BY <1>5, <1>6, <1>7, <1>8, <1>9, <1>10 DEF RequestStep

\* A valid request fails only over PostgreSQL, damage in Redis or a client that
\* went away, and over the upstream only without a row; an outage of Redis, a
\* full queue and earlier crashes never fail one.
THEOREM FailuresHaveCauses == Spec => AnswersFailForCause
<1> DEFINE Failed(q) == Answered(q) /\ outcome'[q] \in {"failed", "unavailable"}
           Cause(q) == \/ {"postgres", "corrupt"} \cap Faults # {}
                       \/ gone[Runner(q)]
                       \/ row[key[q]] = None /\ {"upstream", "payload"} \cap Faults # {}
<1>1. ASSUME ServiceInvariant, CacheIsSound, [Next]_vars, NEW q \in Requests, Failed(q)
      PROVE  Cause(q)
  <2>1. PICK r \in Requests : \E result, s :
          /\ r = Runner(q) /\ key[q] = key[r]
          /\ RequestStep(r) \/ LoadFetch(r)
          /\ Answer(r, result, s) /\ outcome'[q] = result
    BY <1>1, RunnerAnswers DEF ServiceInvariant
  <2>2. QED
    BY <1>1, <2>1, FailureHasCause
<1>2. ServiceInvariant /\ CacheIsSound /\ [Next]_vars =>
        [\A r \in Requests : Failed(r) => Cause(r)]_vars
  BY <1>1
<1>3. QED
  BY <1>2, CacheIsAlwaysSound, PTL DEF Spec, AnswersFailForCause, Answered

\* A stale answer, to whoever runs or waits for its flight too, leaves the key
\* marked and so, by PendingMarksAreLive, its refresh on the way; or the queue
\* is full; or a flight found the due copy in Redis.
THEOREM StaleAnswersRefresh == Spec => StaleIsRefreshed
<1> DEFINE Told(q) == Answered(q) /\ outcome'[q] = "stale"
           Left(q) == \/ key[q] \in pending'
                      \/ Len(queue) = Capacity
                      \/ Leads(Runner(q)) /\ outcome[Runner(q)] = "redis"
<1>1. ASSUME ServiceInvariant, [Next]_vars, NEW q \in Requests, Told(q)
      PROVE  Left(q)
  <2>1. TypeOK /\ PendingIsLive
    BY <1>1 DEF ServiceInvariant, QueueInvariant
  <2>2. PICK r \in Requests : \E result, s :
          /\ r = Runner(q) /\ key[q] = key[r]
          /\ RequestStep(r) \/ LoadFetch(r)
          /\ Answer(r, result, s) /\ outcome'[q] = result
    BY <1>1, <2>1, RunnerAnswers
  <2>3. pc'[r] = "done" /\ outcome'[r] = "stale"
    BY <1>1, <2>2 DEF Answer
  <2>4. ASSUME NEW step, step # "done"
        PROVE  /\ ~Goto(r, step)
               /\ \A t, source : ~Hold(r, t, source, step)
    BY <2>1, <2>3, <2>4 DEF Goto, Hold, TypeOK, RequestTypeOK
  <2>5. ASSUME NEW other \in {"redis", "postgres", "upstream", "failed", "unavailable"}
        PROVE  ~Serve(r, other) /\ ~Fail(r, other)
    BY <2>3 DEF Serve, Fail, Answer
  <2>6. CASE CheckDue(r)
    BY <2>2, <2>4, <2>5, <2>6 DEF CheckDue
  <2>7. CASE MarkRefreshPending(r)
    BY <2>2, <2>4, <2>7 DEF MarkRefreshPending, Marked
  <2>8. CASE SendRefresh(r)
    <3>1. key[r] \in Keys /\ key[r] \in pending
      BY <2>1, <2>8 DEF SendRefresh, PendingIsLive, Sending, TypeOK, RequestTypeOK, InFlight
    <3>2. CASE QueueHasRoom
      BY <2>2, <2>8, <3>1, <3>2 DEF SendRefresh
    <3>3. CASE ~QueueHasRoom
      <4>1. Len(queue) \in Nat /\ Len(queue) <= Capacity
        BY <2>1 DEF TypeOK, QueueTypeOK
      <4>2. Capacity \in Nat
        BY ServiceAssumption DEF Capacity, Effective
      <4>3. QED
        BY <3>3, <4>1, <4>2 DEF QueueHasRoom
    <3>4. QED
      BY <3>2, <3>3
  <2>9. ~(CacheGet(r) \/ LoadCacheGet(r) \/ StoreGet(r) \/ LoadStoreGet(r))
    BY <2>4, <2>5 DEF CacheGet, LoadCacheGet, StoreGet, LoadStoreGet, ReadCache, ReadStore
  <2>10. ~(RequestRecordsAccess(r) \/ CacheDelete(r) \/ CacheSet(r) \/ LoadCacheSet(r)
           \/ LoadFetch(r) \/ LoadUpsert(r))
    BY <2>4, <2>5 DEF RequestRecordsAccess, CacheDelete, CacheSet, LoadCacheSet, LoadFetch, LoadUpsert
  <2>11. ~(LoadDo(r) \/ Deliver(r))
    BY <2>1, <2>3 DEF LoadDo, Deliver, TypeOK, RequestTypeOK
  <2>12. QED
    BY <2>2, <2>6, <2>7, <2>8, <2>9, <2>10, <2>11 DEF RequestStep
<1>2. ServiceInvariant /\ [Next]_vars => [\A r \in Requests : Told(r) => Left(r)]_vars
  BY <1>1
<1>3. QED
  BY <1>2, ServiceInvariantHolds, PTL DEF Spec, StaleIsRefreshed, Answered
=============================================================================
