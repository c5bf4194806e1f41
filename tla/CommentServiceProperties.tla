---------------------- MODULE CommentServiceProperties ----------------------
(***************************************************************************)
(* What makes the comment service correct, stated over CommentService.     *)
(***************************************************************************)
EXTENDS CommentService

-----------------------------------------------------------------------------
(* Types. *)

RequestSteps ==
  { "idle", "cacheGet", "storeGet", "loadDo", "loadWait", "loadCacheGet",
    "loadStoreGet", "loadFetch", "loadUpsert", "loadCacheSet", "access",
    "check", "cacheDelete", "mark", "send", "cacheSet", "done" }

WorkerSteps ==
  { "idle", "storeGet", "check", "fetch", "markError", "upsert", "cacheSet", "clear" }

\* The steps at which a request or a worker has a snapshot in its hands.
HoldingSteps ==
  { "access", "check", "cacheDelete", "mark", "send", "cacheSet",
    "loadUpsert", "loadCacheSet" }

Outcomes ==
  { "none", "redis", "postgres", "stale", "upstream", "failed", "unavailable" }

RequestTypeOK ==
  /\ loading \in [Keys -> Requests \cup {None}]
  /\ pc \in [Requests -> RequestSteps]
  /\ key \in [Requests -> Keys \cup {None}]
  /\ snap \in [Requests -> Snapshots \cup {None}]
  /\ outcome \in [Requests -> Outcomes]
  /\ gone \in [Requests -> BOOLEAN]
  /\ \A r \in Requests :
       /\ InFlight(r) => key[r] \in Keys
       /\ pc[r] \in HoldingSteps => snap[r] \in Snapshots
       /\ pc[r] \in {"access", "check"} => outcome[r] \in {"redis", "postgres"}

WorkerTypeOK ==
  /\ wpc \in [Workers -> WorkerSteps]
  /\ wkey \in [Workers -> Keys \cup {None}]
  /\ wsnap \in [Workers -> Snapshots \cup {None}]
  /\ wstats \in [Workers -> AccessStats]
  /\ \A w \in Workers :
       /\ wpc[w] # "idle" => wkey[w] \in Keys
       /\ wpc[w] \in {"check", "upsert", "cacheSet"} => wsnap[w] \in Snapshots

QueueTypeOK ==
  /\ pending \subseteq Keys
  /\ queue \in Seq(Keys)
  /\ Len(queue) <= Capacity

\* Every variable has the type of its Go counterpart, the queue keeps to its
\* capacity, a request in flight has a key, and a request or worker about to
\* serve or store a snapshot holds one.
TypeOK ==
  /\ now \in Nat
  /\ StoreTypeOK
  /\ cache \in [Keys -> Snapshots \cup {None, BadEnvelope, BadPayload}]
  /\ RequestTypeOK
  /\ WorkerTypeOK
  /\ QueueTypeOK

-----------------------------------------------------------------------------
(* The refresh queue. *)

Sending(r, k)    == pc[r] = "send" /\ key[r] = k
Queued(i, k)     == queue[i] = k
Refreshing(w, k) == wpc[w] # "idle" /\ wkey[w] = k

\* A key is marked pending exactly while a request is about to queue it, it is
\* in the queue, or a worker refreshes it: no path through enqueueRefresh and
\* refresh leaks a mark (a key that would never be refreshed again) or drops it
\* while the refresh still lives.
PendingIsLive ==
  \A k \in Keys :
    k \in pending <=> \/ \E r \in Requests : Sending(r, k)
                      \/ \E i \in DOMAIN queue : Queued(i, k)
                      \/ \E w \in Workers : Refreshing(w, k)

\* At most one of these holds a key, and only once: two workers never refresh
\* the same key, and a key is never queued twice.
OneRefreshPerKey ==
  \A k \in Keys :
    /\ \A r, q \in Requests : Sending(r, k) /\ Sending(q, k) => r = q
    /\ \A i, j \in DOMAIN queue : Queued(i, k) /\ Queued(j, k) => i = j
    /\ \A v, w \in Workers : Refreshing(v, k) /\ Refreshing(w, k) => v = w
    /\ \A r \in Requests, i \in DOMAIN queue : ~(Sending(r, k) /\ Queued(i, k))
    /\ \A r \in Requests, w \in Workers : ~(Sending(r, k) /\ Refreshing(w, k))
    /\ \A i \in DOMAIN queue, w \in Workers : ~(Queued(i, k) /\ Refreshing(w, k))

\* The singleflight group: the flight of a key is run by the one request that
\* is past loadGroup.Do for that key, and a request waits only for a flight
\* that is under way, so that nobody waits for an answer that never comes.
FlightIsLive ==
  /\ \A k \in Keys : loading[k] # None =>
       key[loading[k]] = k /\ pc[loading[k]] \notin {"idle", "cacheGet", "storeGet", "loadDo", "loadWait", "done"}
  /\ \A r \in Requests :
       /\ pc[r] = "loadWait" => loading[key[r]] \notin {None, r}
       /\ pc[r] \in {"loadCacheGet", "loadStoreGet", "loadFetch", "loadUpsert", "loadCacheSet"}
            => Leads(r)

-----------------------------------------------------------------------------
(* Copies of a row. *)

\* The copies of the row of k: the Redis entry, what requests hold and were
\* answered, and what a worker is about to put into Redis.
Copies(k) ==
  ({cache[k]} \ {None, BadEnvelope, BadPayload})
    \cup {snap[r] : r \in {q \in Requests :
            key[q] = k /\ snap[q] # None /\ pc[q] # "loadUpsert"}}
    \cup {wsnap[w] : w \in {v \in Workers : wkey[v] = k /\ wpc[v] = "cacheSet"}}

\* PostgreSQL is written first: no copy exists without a committed row, and
\* none was fetched after it, not even when the process stops or a write fails
\* between the two stores.
NoCopyAheadOfStore ==
  \A k \in Keys : \A s \in Copies(k) :
    row[k] # None /\ s.fetchedAt <= row[k].fetchedAt

\* A copy whose time has not come is what PostgreSQL holds.  Requests and
\* workers write Redis from copies they read earlier, so an old copy may
\* overwrite a newer one; it can only do so once it is due, and is then
\* answered as stale.
FreshCopyIsCurrent ==
  \A k \in Keys : \A s \in Copies(k) :
    ~Due(s) => /\ row[k] # None
               /\ s.content = row[k].content
               /\ s.fetchedAt = row[k].fetchedAt

\* Every write of the row is either a refresh, which is newer, counts its
\* streak from the row it replaces and starts as success, or the note of a
\* failed one, which keeps what was stored; whatever happened between the read
\* of the previous row and the write (snapshotFromPayload, MarkRefreshError).
RowEvolves ==
  [][\A k \in Keys : row[k] # None /\ row'[k] # row[k] =>
       \/ /\ row'[k].fetchedAt > row[k].fetchedAt
          /\ row'[k].status = "success"
          /\ row'[k].unchangedStreak =
               IF row'[k].content = row[k].content THEN row[k].unchangedStreak + 1 ELSE 0
       \/ /\ row'[k].status = "error"
          /\ row'[k].fetchedAt = row[k].fetchedAt
          /\ row'[k].content = row[k].content
          /\ row'[k].unchangedStreak = row[k].unchangedStreak]_vars

\* An access once counted is never lost: a refresh that read the row before
\* the access was recorded does not write the old count back.
AccessesAreKept ==
  [][\A k \in Keys : access'[k].total \in {access[k].total, access[k].total + 1}]_vars

-----------------------------------------------------------------------------
(* Answers. *)

\* The request whose steps lead to the answer of r: the one that runs the flight
\* r waits for, or r itself.
Runner(r) == IF pc[r] = "loadWait" THEN loading[key[r]] ELSE r

Answered(r) == pc[r] \notin {"idle", "done"} /\ pc'[r] = "done"

\* A valid request fails only over PostgreSQL, a damaged entry of Redis or a
\* client that went away, and over the upstream only if nothing is stored: an
\* outage of Redis, at whichever call, a full queue, the failed refreshes of
\* others and earlier crashes are never the reason.
AnswersFailForCause ==
  [][\A r \in Requests :
       Answered(r) /\ outcome'[r] \in {"failed", "unavailable"} =>
         \/ {"postgres", "corrupt"} \cap Faults # {}
         \/ gone[Runner(r)]
         \/ row[key[r]] = None /\ {"upstream", "payload"} \cap Faults # {}]_vars

\* Whoever is answered with a snapshot that is due leaves a refresh of it on its
\* way, unless the queue is full; or a flight found the snapshot in Redis, which
\* leaves it to the next reader.  A mark that somebody else set may be relied on.
StaleIsRefreshed ==
  [][\A r \in Requests :
       Answered(r) /\ outcome'[r] = "stale" =>
         \/ key[r] \in pending'
         \/ Len(queue) = Capacity
         \/ Leads(Runner(r)) /\ outcome[Runner(r)] = "redis"]_vars

-----------------------------------------------------------------------------
(* The upstream. *)

\* "upstream unavailable and no danmaku snapshot exists" (service.go:18) is
\* never said of a key that has a snapshot, even for the requests that waited
\* while another one tried.
UnavailableMeansNoSnapshot ==
  [][\A r \in Requests :
       Answered(r) /\ outcome'[r] = "unavailable" => row[key[r]] = None]_vars

\* What the upstream is promised; see UpstreamContract.
Calling ==
  {key[r] : r \in {q \in Requests : pc[q] \in {"loadFetch", "loadUpsert"}}}
    \cup {wkey[w] : w \in {v \in Workers : wpc[v] \in {"fetch", "upsert", "markError"}}}

Contract ==
  INSTANCE UpstreamContract WITH
    due     <- [k \in Keys |-> IF row[k] = None THEN None ELSE row[k].nextRefreshAt],
    fetched <- [k \in Keys |-> IF row[k] = None THEN None ELSE row[k].fetchedAt],
    calling <- Calling

UpstreamPromise == Contract!Spec

-----------------------------------------------------------------------------
(* Liveness. *)

\* Every request is answered, as long as the upstream answers those who ask for
\* its key: no wait on the singleflight group, the queue or the mutex is for ever.
EveryRequestAnswered ==
  \A r \in Requests :
    pc[r] = "cacheGet" /\ key[r] \notin Silent ~> pc[r] \in {"done", "idle"}

\* A key with a stored snapshot is answered even if the upstream never answers
\* for it: neither a hung first load nor workers stuck in their calls hold a
\* reader back.
StoredKeyAnswered ==
  \A r \in Requests :
    pc[r] = "cacheGet" /\ row[key[r]] # None ~> pc[r] \in {"done", "idle"}

\* A queued refresh of a row that is due is carried out, not dropped by the
\* second look at the row, lost with its mark or held up by the hung call of
\* another key, when PostgreSQL and the upstream do their part and a worker is
\* left for every key that hangs.
QueuedRefreshIsCarriedOut ==
  \A k \in Keys \ Silent, t \in 0 .. MaxTime - 1 :
    /\ \E i \in DOMAIN queue : Queued(i, k)
    /\ row[k] # None /\ row[k].fetchedAt = t /\ Due(row[k])
    ~> row[k] # None /\ row[k].fetchedAt > t

\* A pending refresh ends, so that the key can be refreshed again, also when the
\* queue had no place for it.
PendingEnds ==
  \A k \in Keys \ Silent : k \in pending ~> k \notin pending

-----------------------------------------------------------------------------
(* What the documents say and the code does not do: each is refuted by a run. *)

\* README:239 and service.go:18 give 503 to a request without a snapshot when
\* the upstream fails.  The flight runs with the context of the request that
\* started it (service.go:161,192), so when that client goes away the others
\* get 503 although the upstream works.
Only503WhenUpstreamFails ==
  \A r \in Requests :
    outcome[r] = "unavailable" /\ ~gone[r] => "upstream" \in Faults

\* README:239, the other way round: a first load whose upstream call brings no
\* usable comments is a 503.  FetchComments does not look at the HTTP status and
\* the rejected body is returned as a plain error (service.go:196-199).
FailedFirstLoadIs503 ==
  [][\A r \in Requests :
       pc[r] = "loadFetch" /\ pc'[r] = "done" => outcome'[r] = "unavailable"]_vars

\* The design ignores a corrupted Redis value and asks PostgreSQL; an envelope
\* that decodes around a damaged payload fails the request (service.go:124-128).
DamagedEntryIsIgnored ==
  [][\A r \in Requests :
       pc[r] \in {"cacheGet", "loadCacheGet"} => outcome'[r] # "failed"]_vars
=============================================================================
