---------------------------- MODULE CachedRoutes ----------------------------
(***************************************************************************)
(* The routes that answer from Redis or the upstream alone: the search of  *)
(* episodes and the subject of Bangumi.tv (handlers/danmaku.go), over the  *)
(* Redis helpers (utils/cache.go) and the upstream client                  *)
(* (services/dandanplay.go); beside them the upstream calls of the comment *)
(* service, for the credentials they take.                                 *)
(*                                                                         *)
(* One step is one call on Redis, the counter of the credentials or the    *)
(* upstream.  None of them depends on the context of the client, so that a *)
(* client that goes away changes nothing.  The remaining life of an entry  *)
(* is counted in ticks; the clock itself is not needed.                    *)
(***************************************************************************)
EXTENDS CredentialRotation

CONSTANTS
  Texts,                \* query strings and subject ids
  Requests,             \* slots for concurrent requests of the routes
  Versions,             \* what the upstream may answer, error pages included
  SearchCacheDuration,  \* the text of SEARCH_CACHE_DURATION, in ticks
  DefaultDuration,      \* one hour, in ticks
  None,                 \* Redis has no such key
  Damaged,              \* a Redis value that is not what SetCache wrote
  Forever               \* an entry that never expires

Keys == [route : {"search", "bangumi"}, text : Texts]

\* What the upstream answers: the body says what it is an answer to.
Bodies == [about : Keys, version : Versions]

Duration == parseDuration(SearchCacheDuration, DefaultDuration)

ASSUME RoutesAssumption ==
  /\ Duration \in Int /\ DefaultDuration \in Nat \ {0}
  /\ None \notin [body : Bodies \cup {Damaged}, left : Nat \cup {Forever}]
  /\ None \notin Keys /\ None \notin Bodies
  /\ Damaged \notin Bodies /\ Forever \notin Nat

VARIABLES
  upstream,  \* what the upstream answers now, per key
  redis,     \* the entries, by their cache key
  pc,        \* request: what it does next
  key,       \* request: what it asks for
  body       \* request: the answer in its hands, None if there is none

routes == <<pc, key, body>>
vars   == <<upstream, redis, routes, rotation>>

\* Fault variant: the two routes share their keys.
SharedKey(k) == k.text

\* fmt.Sprintf("search:%s"), fmt.Sprintf("bangumi:bgmtv:%s")
CacheKey(k) == <<k.route, k.text>>

CacheKeys == {CacheKey(k) : k \in Keys}

Idle ==
  /\ pc = [r \in Requests |-> "idle"]
  /\ key = [r \in Requests |-> None]
  /\ body = [r \in Requests |-> None]

Init ==
  /\ upstream \in [Keys -> Versions]
  /\ redis = [k \in CacheKeys |-> None]
  /\ Idle
  /\ RotationInit

-----------------------------------------------------------------------------
(* The routes. *)

Goto(r, where) == pc' = [pc EXCEPT ![r] = where] /\ UNCHANGED <<key, body>>

Hold(r, answer, where) ==
  /\ pc' = [pc EXCEPT ![r] = where]
  /\ body' = [body EXCEPT ![r] = answer]
  /\ UNCHANGED key

Arrive(r, k) ==
  /\ pc[r] = "idle"
  /\ pc' = [pc EXCEPT ![r] = "cacheGet"]
  /\ key' = [key EXCEPT ![r] = k]
  /\ UNCHANGED <<upstream, redis, body, rotation>>

Entry(r) == redis[CacheKey(key[r])]

\* GetCache: no entry, an entry that does not decode and a Redis that fails are
\* all a miss.
CacheGet(r) ==
  /\ pc[r] = "cacheGet"
  /\ \/ Entry(r) # None /\ Entry(r).body # Damaged /\ Hold(r, Entry(r).body, "done")
     \/ Goto(r, "sign")
  /\ UNCHANGED <<upstream, redis, rotation>>

Sign(r) ==
  /\ pc[r] = "sign"
  /\ Goto(r, "call")
  /\ Advance("routes")
  /\ UNCHANGED <<upstream, redis>>

\* Whatever the status of the response is, its body is the answer.
UpstreamAnswers(r) ==
  /\ pc[r] = "call"
  /\ Hold(r, [about |-> key[r], version |-> upstream[key[r]]], "cacheSet")
  /\ UNCHANGED <<upstream, redis, rotation>>

\* No request can be made of the text, before a credential is taken, or the
\* request fails.
UpstreamFails(r) ==
  /\ pc[r] \in {"sign", "call"}
  /\ Hold(r, None, "done")
  /\ UNCHANGED <<upstream, redis, rotation>>

\* Fault variant: a Redis SET without an expiry.
NoExpiry == Forever

\* The client of Redis sends an expiry only if it is positive.
Life == IF Duration > 0 THEN Duration ELSE Forever

\* SetCache; its error is ignored.
CacheSet(r) ==
  /\ pc[r] = "cacheSet"
  /\ \/ redis' = [redis EXCEPT ![CacheKey(key[r])] = [body |-> body[r], left |-> Life]]
     \/ UNCHANGED redis
  /\ Goto(r, "done")
  /\ UNCHANGED <<upstream, rotation>>

\* The response is written; the slot is free for another request.
Deliver(r) ==
  /\ pc[r] = "done"
  /\ pc' = [pc EXCEPT ![r] = "idle"]
  /\ key' = [key EXCEPT ![r] = None]
  /\ body' = [body EXCEPT ![r] = None]
  /\ UNCHANGED <<upstream, redis, rotation>>

RequestStep(r) == CacheGet(r) \/ Sign(r) \/ UpstreamAnswers(r) \/ CacheSet(r) \/ Deliver(r)

-----------------------------------------------------------------------------
(* The comment service. *)

\* A call takes one credential, with which it signs its request and the one
\* that a redirect asks for.
FetchComments ==
  /\ Advance("comments")
  /\ UNCHANGED <<upstream, redis, routes>>

-----------------------------------------------------------------------------
(* Redis, the upstream and the process. *)

Aged(entry) ==
  IF entry = None \/ entry.left = Forever THEN entry
  ELSE IF entry.left = 1 THEN None
  ELSE [entry EXCEPT !.left = @ - 1]

Tick ==
  /\ redis' = [k \in CacheKeys |-> Aged(redis[k])]
  /\ UNCHANGED <<upstream, routes, rotation>>

Evict(k) ==
  /\ redis' = [redis EXCEPT ![k] = None]
  /\ UNCHANGED <<upstream, routes, rotation>>

Damage(k) ==
  /\ redis[k] # None
  /\ redis' = [redis EXCEPT ![k].body = Damaged]
  /\ UNCHANGED <<upstream, routes, rotation>>

Change(k) ==
  /\ \E version \in Versions : upstream' = [upstream EXCEPT ![k] = version]
  /\ UNCHANGED <<redis, routes, rotation>>

\* The process ends and starts again; Redis keeps its entries.
Restart ==
  /\ pc' = [r \in Requests |-> "idle"]
  /\ key' = [r \in Requests |-> None]
  /\ body' = [r \in Requests |-> None]
  /\ next' = [provider \in Providers |-> 0]
  /\ used' = [provider \in Providers |-> [place \in Places |-> 0]]
  /\ UNCHANGED <<upstream, redis>>

-----------------------------------------------------------------------------
Next ==
  \/ \E r \in Requests, k \in Keys : Arrive(r, k)
  \/ \E r \in Requests : RequestStep(r) \/ UpstreamFails(r)
  \/ FetchComments
  \/ \E k \in CacheKeys : Evict(k) \/ Damage(k)
  \/ \E k \in Keys : Change(k)
  \/ Tick \/ Restart

Spec == Init /\ [][Next]_vars

\* The goroutine of a request runs on, the upstream answers it or fails (the
\* client has no timeout of its own), and time goes by.
FairSpec ==
  /\ Spec
  /\ \A r \in Requests : WF_vars(RequestStep(r) \/ UpstreamFails(r))
  /\ WF_vars(Tick)
=============================================================================
