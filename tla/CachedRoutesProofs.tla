------------------------- MODULE CachedRoutesProofs -------------------------
(***************************************************************************)
(* The cached routes and the rotation of the credentials: proofs for any   *)
(* number of requests, texts and credentials and any duration.             *)
(*                                                                         *)
(* RoutesInv says that an entry answers the question of its key, that the  *)
(* body a request holds answers its own, and that the credentials before   *)
(* the next one, and only those, are one use ahead of the others.          *)
(***************************************************************************)
EXTENDS CachedRoutesProperties, TLAPS

-----------------------------------------------------------------------------
(* The rotation. *)

HowMany == Len(DandanplayCredentials)

\* The credentials before the next one are ahead by one.
InTurn ==
  \A provider \in Providers :
    /\ next[provider] \in Nat
    /\ DandanplayCredentials # <<>> => next[provider] < HowMany
    /\ used[provider] = [place \in Places |-> IF place <= next[provider] THEN 1 ELSE 0]

RotationTyped ==
  /\ next \in [Providers -> Nat]
  /\ used \in [Providers -> [Places -> {0, 1}]]

RotationInv == RotationTyped /\ InTurn

LEMMA ListOfCredentials ==
  /\ HowMany \in Nat
  /\ Places = 1 .. HowMany
  /\ DandanplayCredentials # <<>> <=> HowMany > 0
  /\ \A provider : Credentials(provider) = DandanplayCredentials
BY RotationAssumption DEF HowMany, Places, Credentials, Own

LEMMA RotationStarts == RotationInit => RotationInv
<1> SUFFICES ASSUME RotationInit PROVE RotationInv
  OBVIOUS
<1>1. RotationTyped
  BY DEF RotationInit, RotationTyped
<1>2. InTurn
  BY ListOfCredentials DEF RotationInit, InTurn
<1>3. QED
  BY <1>1, <1>2 DEF RotationInv

LEMMA Wraps ==
  ASSUME NEW m \in Nat, NEW i \in Nat, i < m
  PROVE  i % m = i
<1>1. i % m \in 0 .. m - 1 /\ i = m * (i \div m) + (i % m)
  OBVIOUS
<1>2. QED
  BY <1>1

LEMMA WrapsToZero ==
  ASSUME NEW m \in Nat, m > 0
  PROVE  m % m = 0
OBVIOUS

\* The use of the next credential keeps all of them in turn.
LEMMA AdvanceInTurn ==
  ASSUME RotationInv, NEW provider \in Providers, Advance(provider)
  PROVE  RotationInv'
<1> DEFINE n == next[provider]
           lead == used[provider]
           after == [lead EXCEPT ![n + 1] = @ + 1]
<1>1. CASE DandanplayCredentials = <<>>
  BY <1>1, ListOfCredentials DEF Advance, rotation, RotationInv, RotationTyped, InTurn
<1>2. CASE DandanplayCredentials # <<>>
  <2>1. /\ n \in Nat /\ n < HowMany /\ HowMany \in Nat /\ Places = 1 .. HowMany
        /\ lead = [place \in Places |-> IF place <= n THEN 1 ELSE 0]
    BY <1>2, ListOfCredentials DEF RotationInv, InTurn
  <2>2. /\ next' = [next EXCEPT ![provider] = (n + 1) % HowMany]
        /\ used' = [used EXCEPT ![provider] = Count(lead, n + 1)]
    BY <1>2, ListOfCredentials DEF Advance, Place, HowMany
  <2>3. after = [place \in Places |-> IF place <= n + 1 THEN 1 ELSE 0]
    BY <2>1
  <2>4. (n + 1) % HowMany = IF n + 1 = HowMany THEN 0 ELSE n + 1
    BY <2>1, Wraps, WrapsToZero
  <2>5. Count(lead, n + 1) =
          [place \in Places |-> IF place <= (n + 1) % HowMany THEN 1 ELSE 0]
    <3>1. CASE n + 1 = HowMany
      <4>1. \A p \in Places : after[p] = 1
        BY <2>1, <2>3, <3>1
      <4>2. Count(lead, n + 1) = [p \in Places |-> after[p] - 1]
        BY <4>1 DEF Count
      <4>3. QED
        <5>1. (n + 1) % HowMany = 0
          BY <2>4, <3>1
        <5>2. \A p \in Places : after[p] - 1 = IF p <= 0 THEN 1 ELSE 0
          BY <2>1, <4>1
        <5>3. QED
          BY <4>2, <5>1, <5>2
    <3>2. CASE n + 1 # HowMany
      <4>1. HowMany \in Places /\ after[HowMany] = 0
        BY <2>1, <2>3, <3>2
      <4>2. Count(lead, n + 1) = after
        BY <4>1 DEF Count
      <4>3. QED
        BY <2>1, <2>3, <2>4, <3>2, <4>2
    <3>3. QED
      BY <3>1, <3>2
  <2>6. (n + 1) % HowMany \in Nat /\ (n + 1) % HowMany < HowMany
    BY <2>1, <2>4
  <2> DEFINE following == (n + 1) % HowMany
             turn(m) == [place \in Places |-> IF place <= m THEN 1 ELSE 0]
  <2> HIDE DEF following
  <2>7. /\ next' = [next EXCEPT ![provider] = following]
        /\ used' = [used EXCEPT ![provider] = turn(following)]
        /\ following \in Nat /\ following < HowMany
        /\ turn(following) \in [Places -> {0, 1}]
    BY <2>2, <2>5, <2>6 DEF following
  <2>8. RotationTyped'
    BY <2>7 DEF RotationInv, RotationTyped
  <2>9. InTurn'
    BY <2>7 DEF RotationInv, RotationTyped, InTurn
  <2>10. QED
    BY <2>8, <2>9 DEF RotationInv
<1>3. QED
  BY <1>1, <1>2

-----------------------------------------------------------------------------
(* The routes. *)

Steps == {"idle", "cacheGet", "sign", "call", "cacheSet", "done"}

RoutesTyped ==
  /\ upstream \in [Keys -> Versions]
  /\ redis \in [CacheKeys -> LiveEntries \cup {None}]
  /\ pc \in [Requests -> Steps]
  /\ key \in [Requests -> Keys \cup {None}]
  /\ body \in [Requests -> Bodies \cup {None}]

\* The entry of a key answers the key.
EntriesAnswer ==
  \A k \in Keys :
    LET entry == redis[CacheKey(k)]
    IN entry # None /\ entry.body # Damaged => entry.body.about = k

\* The body a request holds answers it; before its upstream call it has none.
BodiesAnswer ==
  \A r \in Requests :
    /\ pc[r] # "idle" => key[r] # None
    /\ pc[r] \in {"idle", "cacheGet", "sign", "call"} => body[r] = None
    /\ pc[r] = "cacheSet" => body[r] # None
    /\ body[r] # None => body[r].about = key[r]

RoutesInv == RoutesTyped /\ EntriesAnswer /\ BodiesAnswer /\ RotationInv

LEMMA KeysDiffer ==
  /\ \A k \in Keys : CacheKey(k) \in CacheKeys
  /\ \A k, j \in Keys : CacheKey(k) = CacheKey(j) => k = j
<1>1. \A k \in Keys : CacheKey(k) \in CacheKeys
  BY DEF CacheKeys
<1>2. ASSUME NEW k \in Keys, NEW j \in Keys, CacheKey(k) = CacheKey(j)
      PROVE  k = j
  <2>1. k.route = j.route /\ k.text = j.text
    BY <1>2 DEF CacheKey
  <2>2. /\ k = [route |-> k.route, text |-> k.text]
        /\ j = [route |-> j.route, text |-> j.text]
    BY DEF Keys
  <2>3. QED
    BY <2>1, <2>2
<1>3. QED
  BY <1>1, <1>2

LEMMA EntriesAreNot == /\ None \notin LiveEntries
                       /\ \A b \in Bodies \cup {Damaged} : [body |-> b, left |-> Life] \in LiveEntries
<1>1. Duration \in Int /\ None \notin [body : Bodies \cup {Damaged}, left : Nat \cup {Forever}]
  BY RoutesAssumption
<1>2. LiveEntries \subseteq [body : Bodies \cup {Damaged}, left : Nat \cup {Forever}]
  BY <1>1 DEF LiveEntries
<1>3. Life \in IF Duration > 0 THEN 1 .. Duration ELSE {Forever}
  BY <1>1 DEF Life
<1>4. QED
  BY <1>1, <1>2, <1>3 DEF LiveEntries

LEMMA InitInv == Init => RoutesInv
<1> SUFFICES ASSUME Init PROVE RoutesInv
  OBVIOUS
<1>1. RoutesTyped
  BY DEF Init, Idle, RoutesTyped, Steps
<1>2. EntriesAnswer
  BY KeysDiffer DEF Init, EntriesAnswer
<1>3. BodiesAnswer
  BY DEF Init, Idle, BodiesAnswer
<1>4. QED
  BY <1>1, <1>2, <1>3, RotationStarts DEF Init, RoutesInv

-----------------------------------------------------------------------------
(* Who changes what. *)

\* Only Sign and FetchComments choose a credential.
LEMMA RotationKept ==
  ASSUME RoutesInv, Next
  PROVE  RotationInv'
<1>1. RotationInv
  BY DEF RoutesInv
<1>2. CASE UNCHANGED rotation
  BY <1>1, <1>2 DEF rotation, RotationInv, RotationTyped, InTurn
<1>3. CASE Restart
  <2>1. RotationTyped'
    BY <1>3 DEF Restart, RotationTyped
  <2>2. InTurn'
    BY <1>3, ListOfCredentials DEF Restart, InTurn
  <2>3. QED
    BY <2>1, <2>2 DEF RotationInv
<1>4. ASSUME NEW provider \in Providers, Advance(provider)
      PROVE  RotationInv'
  BY <1>1, <1>4, AdvanceInTurn
<1>5. "routes" \in Providers /\ "comments" \in Providers
  BY DEF Providers
<1>6. \/ UNCHANGED rotation \/ Restart
      \/ Advance("routes") \/ Advance("comments")
  BY DEF Next, Arrive, RequestStep, CacheGet, Sign, UpstreamAnswers, UpstreamFails, CacheSet,
         Deliver, FetchComments, Evict, Damage, Change, Tick
<1>7. QED
  BY <1>2, <1>3, <1>4, <1>5, <1>6

-----------------------------------------------------------------------------
(* The requests. *)

RequestsTyped ==
  /\ pc \in [Requests -> Steps]
  /\ key \in [Requests -> Keys \cup {None}]
  /\ body \in [Requests -> Bodies \cup {None}]

LEMMA RequestsKept ==
  ASSUME RoutesInv, Next
  PROVE  RequestsTyped' /\ BodiesAnswer'
<1>1. RequestsTyped /\ BodiesAnswer /\ EntriesAnswer
      /\ redis \in [CacheKeys -> LiveEntries \cup {None}] /\ upstream \in [Keys -> Versions]
  BY DEF RoutesInv, RoutesTyped, RequestsTyped
<1> USE DEF RequestsTyped, BodiesAnswer, Steps
<1>2. CASE UNCHANGED routes
  BY <1>1, <1>2 DEF routes
<1>3. CASE Restart
  BY <1>3 DEF Restart
<1>4. ASSUME NEW r \in Requests, NEW k \in Keys, Arrive(r, k)
      PROVE  RequestsTyped' /\ BodiesAnswer'
  BY <1>1, <1>4, RoutesAssumption DEF Arrive
\* A request that goes on without a body.
<1>5. ASSUME NEW r \in Requests, NEW where \in {"sign", "call", "done"}, Goto(r, where),
             pc[r] # "idle", where # "done" => body[r] = None
      PROVE  RequestsTyped' /\ BodiesAnswer'
  BY <1>1, <1>5 DEF Goto
\* A request that goes on with one.
<1>6. ASSUME NEW r \in Requests, NEW where \in {"cacheSet", "done"}, NEW answer \in Bodies \cup {None},
             Hold(r, answer, where), pc[r] # "idle",
             where = "cacheSet" => answer # None,
             answer # None => answer.about = key[r]
      PROVE  RequestsTyped' /\ BodiesAnswer'
  BY <1>1, <1>6 DEF Hold
<1>7. ASSUME NEW r \in Requests, CacheGet(r)
      PROVE  RequestsTyped' /\ BodiesAnswer'
  <2>1. pc[r] = "cacheGet" /\ key[r] \in Keys /\ body[r] = None
    BY <1>1, <1>7 DEF CacheGet
  <2>2. CASE Goto(r, "sign")
    BY <1>5, <2>1, <2>2
  <2>3. CASE Entry(r) # None /\ Entry(r).body # Damaged /\ Hold(r, Entry(r).body, "done")
    <3>1. Entry(r) \in LiveEntries
      BY <1>1, <2>1, <2>3, KeysDiffer DEF Entry
    <3>2. Entry(r).body \in Bodies
      BY <2>3, <3>1 DEF LiveEntries
    <3>3. Entry(r).body.about = key[r]
      BY <1>1, <2>1, <2>3 DEF EntriesAnswer, Entry
    <3>4. QED
      BY <1>6, <2>1, <2>3, <3>2, <3>3
  <2>4. QED
    BY <1>7, <2>2, <2>3 DEF CacheGet
<1>8. ASSUME NEW r \in Requests, Sign(r)
      PROVE  RequestsTyped' /\ BodiesAnswer'
  BY <1>1, <1>5, <1>8 DEF Sign
<1>9. ASSUME NEW r \in Requests, UpstreamAnswers(r)
      PROVE  RequestsTyped' /\ BodiesAnswer'
  <2> DEFINE answer == [about |-> key[r], version |-> upstream[key[r]]]
  <2>1. pc[r] = "call" /\ key[r] \in Keys /\ Hold(r, answer, "cacheSet")
    BY <1>1, <1>9 DEF UpstreamAnswers
  <2>2. answer \in Bodies /\ answer.about = key[r]
    BY <1>1, <2>1 DEF Bodies
  <2>3. answer # None
    BY <2>2, RoutesAssumption
  <2>4. QED
    BY <1>6, <2>1, <2>2, <2>3
<1>10. ASSUME NEW r \in Requests, UpstreamFails(r)
       PROVE  RequestsTyped' /\ BodiesAnswer'
  BY <1>6, <1>10 DEF UpstreamFails
<1>11. ASSUME NEW r \in Requests, CacheSet(r)
       PROVE  RequestsTyped' /\ BodiesAnswer'
  BY <1>5, <1>11 DEF CacheSet
<1>12. ASSUME NEW r \in Requests, Deliver(r)
       PROVE  RequestsTyped' /\ BodiesAnswer'
  BY <1>1, <1>12 DEF Deliver
<1>13. QED
  BY <1>2, <1>3, <1>4, <1>7, <1>8, <1>9, <1>10, <1>11, <1>12
     DEF Next, RequestStep, FetchComments, Evict, Damage, Change, Tick

-----------------------------------------------------------------------------
(* Redis. *)

LEMMA RedisKept ==
  ASSUME RoutesInv, Next
  PROVE  redis' \in [CacheKeys -> LiveEntries \cup {None}] /\ EntriesAnswer'
<1>1. /\ redis \in [CacheKeys -> LiveEntries \cup {None}] /\ EntriesAnswer
      /\ RequestsTyped /\ BodiesAnswer
  BY DEF RoutesInv, RoutesTyped, RequestsTyped
<1>2. CASE UNCHANGED redis
  BY <1>1, <1>2 DEF EntriesAnswer
\* An entry that ages or goes away, or that is damaged, answers what it did.
<1>3. ASSUME redis' \in [CacheKeys -> LiveEntries \cup {None}],
             \A k \in CacheKeys : redis'[k] # None /\ redis'[k].body # Damaged =>
               redis[k] # None /\ redis'[k].body = redis[k].body
      PROVE  EntriesAnswer'
  BY <1>1, <1>3, KeysDiffer DEF EntriesAnswer
<1>4. CASE Tick
  <2>1. ASSUME NEW k \in CacheKeys
        PROVE  /\ redis'[k] = Aged(redis[k])
               /\ Aged(redis[k]) \in LiveEntries \cup {None}
               /\ Aged(redis[k]) # None => redis[k] # None /\ Aged(redis[k]).body = redis[k].body
    <3>1. redis'[k] = Aged(redis[k]) /\ redis[k] \in LiveEntries \cup {None}
      BY <1>1, <1>4 DEF Tick
    <3>2. CASE redis[k] = None \/ redis[k].left = Forever \/ redis[k].left = 1
      BY <3>1, <3>2 DEF Aged
    <3>3. CASE redis[k] # None /\ redis[k].left # Forever /\ redis[k].left # 1
      <4>1. /\ redis[k].body \in Bodies \cup {Damaged} /\ redis[k].left \in 1 .. Duration
            /\ Duration \in Int /\ Duration > 0
            /\ redis[k] = [body |-> redis[k].body, left |-> redis[k].left]
        BY <3>1, <3>3, RoutesAssumption DEF LiveEntries
      <4>2. Aged(redis[k]) = [body |-> redis[k].body, left |-> redis[k].left - 1]
        BY <3>3, <4>1 DEF Aged
      <4>3. redis[k].left - 1 \in 1 .. Duration
        BY <3>3, <4>1
      <4>4. Aged(redis[k]) \in LiveEntries
        BY <4>1, <4>2, <4>3 DEF LiveEntries
      <4>5. QED
        BY <3>1, <3>3, <4>2, <4>4
    <3>4. QED
      BY <3>1, <3>2, <3>3
  <2>2. redis' \in [CacheKeys -> LiveEntries \cup {None}]
    BY <1>4, <2>1 DEF Tick
  <2>3. QED
    BY <1>3, <2>1, <2>2
<1>5. ASSUME NEW k \in CacheKeys, Evict(k)
      PROVE  redis' \in [CacheKeys -> LiveEntries \cup {None}] /\ EntriesAnswer'
  BY <1>1, <1>3, <1>5 DEF Evict
<1>6. ASSUME NEW k \in CacheKeys, Damage(k)
      PROVE  redis' \in [CacheKeys -> LiveEntries \cup {None}] /\ EntriesAnswer'
  <2>1. redis[k] \in LiveEntries /\ redis' = [redis EXCEPT ![k] = [@ EXCEPT !.body = Damaged]]
    BY <1>1, <1>6 DEF Damage
  <2>2. /\ [redis[k] EXCEPT !.body = Damaged] \in LiveEntries
        /\ [redis[k] EXCEPT !.body = Damaged].body = Damaged
    BY <2>1 DEF LiveEntries
  <2>3. QED
    BY <1>1, <1>3, <2>1, <2>2
<1>7. ASSUME NEW r \in Requests, CacheSet(r), ~UNCHANGED redis
      PROVE  redis' \in [CacheKeys -> LiveEntries \cup {None}] /\ EntriesAnswer'
  <2> DEFINE entry == [body |-> body[r], left |-> Life]
  <2>1. /\ redis' = [redis EXCEPT ![CacheKey(key[r])] = entry]
        /\ key[r] \in Keys /\ body[r] \in Bodies /\ body[r].about = key[r]
    BY <1>1, <1>7 DEF CacheSet, RequestsTyped, BodiesAnswer
  <2>2. entry \in LiveEntries /\ entry.body = body[r]
    BY <2>1, EntriesAreNot
  <2> HIDE DEF entry
  <2>3. redis' \in [CacheKeys -> LiveEntries \cup {None}]
    BY <1>1, <2>1, <2>2
  <2>4. ASSUME NEW k \in Keys, redis'[CacheKey(k)] # None, redis'[CacheKey(k)].body # Damaged
        PROVE  redis'[CacheKey(k)].body.about = k
    <3>1. CASE k = key[r]
      BY <1>1, <2>1, <2>2, <3>1, KeysDiffer
    <3>2. CASE k # key[r]
      <4>1. redis'[CacheKey(k)] = redis[CacheKey(k)]
        BY <1>1, <2>1, <3>2, KeysDiffer
      <4>2. QED
        BY <1>1, <2>4, <4>1 DEF EntriesAnswer
    <3>3. QED
      BY <3>1, <3>2
  <2>5. QED
    BY <2>3, <2>4 DEF EntriesAnswer
<1>8. \/ UNCHANGED redis \/ Tick
      \/ \E k \in CacheKeys : Evict(k) \/ Damage(k)
      \/ \E r \in Requests : CacheSet(r)
  BY DEF Next, RequestStep, Arrive, CacheGet, Sign, UpstreamAnswers, UpstreamFails, Deliver,
         FetchComments, Change, Restart
<1>9. QED
  BY <1>2, <1>4, <1>5, <1>6, <1>7, <1>8

LEMMA UpstreamKept ==
  ASSUME RoutesInv, Next
  PROVE  upstream' \in [Keys -> Versions]
<1>1. upstream \in [Keys -> Versions]
  BY DEF RoutesInv, RoutesTyped
<1>2. UNCHANGED upstream \/ \E k \in Keys : Change(k)
  BY DEF Next, RequestStep, Arrive, CacheGet, Sign, UpstreamAnswers, UpstreamFails, CacheSet,
         Deliver, FetchComments, Evict, Damage, Tick, Restart
<1>3. QED
  BY <1>1, <1>2 DEF Change

-----------------------------------------------------------------------------
(* The invariant. *)

LEMMA StepInv == RoutesInv /\ [Next]_vars => RoutesInv'
<1>1. ASSUME RoutesInv, Next
      PROVE  RoutesInv'
  <2>1. RoutesTyped'
    BY <1>1, RequestsKept, RedisKept, UpstreamKept DEF RoutesTyped, RequestsTyped
  <2>2. QED
    BY <1>1, <2>1, RequestsKept, RedisKept, RotationKept DEF RoutesInv
<1>2. ASSUME RoutesInv, UNCHANGED vars
      PROVE  RoutesInv'
  BY <1>2 DEF RoutesInv, RoutesTyped, EntriesAnswer, BodiesAnswer, RotationInv,
              RotationTyped, InTurn, vars, routes, rotation
<1>3. QED
  BY <1>1, <1>2

LEMMA Invariant == Spec => []RoutesInv
  BY InitInv, StepInv, PTL DEF Spec

\* Every entry lives for the configured duration at most, for ever when that
\* is not positive, and the next credential is one of the list.
THEOREM RoutesTypedAlways == Spec => []TypeOK
<1>1. RoutesInv => TypeOK
  <2> SUFFICES ASSUME RoutesInv PROVE TypeOK
    OBVIOUS
  <2>1. ASSUME NEW provider \in Providers, Credentials(provider) # <<>>
        PROVE  Place(provider) \in Places
    <3>1. /\ next[provider] \in Nat /\ next[provider] < HowMany
          /\ HowMany \in Nat /\ Places = 1 .. HowMany
      BY <2>1, ListOfCredentials DEF RoutesInv, RotationInv, InTurn
    <3>2. QED
      BY <3>1 DEF Place
  <2>2. QED
    BY <2>1 DEF RoutesInv, RoutesTyped, BodiesAnswer, TypeOK, Steps
<1>2. QED
  BY <1>1, Invariant, PTL

\* No request is ever answered with what belongs to another question.
THEOREM AnswersMatchQuestions == Spec => []AnswerIsToTheQuestion
<1>1. RoutesInv => AnswerIsToTheQuestion
  BY DEF RoutesInv, BodiesAnswer, AnswerIsToTheQuestion
<1>2. QED
  BY <1>1, Invariant, PTL

\* A list of credentials of any length is used evenly.
THEOREM RotationIsEven == Spec => []EvenRotation
<1>1. RoutesInv => EvenRotation
  BY DEF RoutesInv, RotationInv, RotationTyped, EvenRotation
<1>2. QED
  BY <1>1, Invariant, PTL
=============================================================================
