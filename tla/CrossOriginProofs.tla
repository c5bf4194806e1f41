-------------------------- MODULE CrossOriginProofs --------------------------
(***************************************************************************)
(* The CORS middleware: proofs for any clients, any lists of origins and   *)
(* any number of starts with other settings.                               *)
(*                                                                         *)
(* Nothing is ever stored, so that every answer is the one the middleware  *)
(* makes for the origin of its request under the settings of that moment;  *)
(* what is left is that its test of suffixes is the meaning of a wildcard, *)
(* and who else has the header it answers to those it does not match.      *)
(***************************************************************************)
EXTENDS CrossOriginProperties, SequenceTheorems, TLAPS

\* HasSuffix finds the labels that stand for the star, at least one.
LEMMA SuffixIsBelow ==
  ASSUME NEW origin, NEW item, IsText(origin), IsText(item), Len(item) > 1
  PROVE  HasSuffix(origin, item) <=>
           \E n \in 1 .. Len(origin) : SubSeq(origin, n + 1, Len(origin)) = Tail(item)
<1> DEFINE Labels == {origin[i] : i \in DOMAIN origin} \cup {item[i] : i \in DOMAIN item}
           rest == Len(origin) - Len(item) + 1
<1>1. origin \in Seq(Labels) /\ item \in Seq(Labels) /\ item # <<>>
  BY DEF IsText
<1>2. Len(origin) \in Nat /\ Len(item) \in Nat /\ Len(Tail(item)) = Len(item) - 1
  BY <1>1
<1>3. ASSUME HasSuffix(origin, item)
      PROVE  /\ rest \in 1 .. Len(origin)
             /\ SubSeq(origin, rest + 1, Len(origin)) = Tail(item)
  <2>1. rest \in 1 .. Len(origin) /\ rest + 1 = Len(origin) - Len(item) + 2
    BY <1>2, <1>3 DEF HasSuffix
  <2>2. QED
    BY <1>3, <2>1 DEF HasSuffix
<1>4. ASSUME NEW n \in 1 .. Len(origin), SubSeq(origin, n + 1, Len(origin)) = Tail(item)
      PROVE  HasSuffix(origin, item)
  <2>1. Len(SubSeq(origin, n + 1, Len(origin))) = Len(origin) - n
    BY <1>1, <1>2
  <2>2. n = rest
    BY <1>2, <1>4, <2>1
  <2>3. Len(origin) >= Len(item) /\ n + 1 = Len(origin) - Len(item) + 2
    BY <1>2, <2>2
  <2>4. QED
    BY <1>4, <2>3 DEF HasSuffix
<1>5. QED
  BY <1>3, <1>4

\* The middleware matches the origins that the settings are meant to allow.
LEMMA MatchedAreAllowed ==
  ASSUME config \in Configurations, NEW c \in Clients, Origin[c] # NoOrigin
  PROVE  originMatched(Origin[c]) <=> Allowed(Origin[c])
<1>1. IsText(Origin[c])
  BY CrossOriginAssumption
<1>2. \A item \in Items : IsText(item)
  BY CrossOriginAssumption DEF Items
<1>3. ASSUME NEW item \in Items
      PROVE  item[1] = "*" /\ Len(item) > 1 /\ HasSuffix(Origin[c], item) <=>
               \E n \in 1 .. Len(Origin[c]) : IsBelow(Origin[c], item, n)
  BY <1>1, <1>2, SuffixIsBelow DEF IsBelow
<1>4. QED
  BY <1>3 DEF originMatched, originAllowed, allowAll, Allowed

\* The check of a browser lets those pages read, their cookies be sent, and
\* pages of an opaque origin read without theirs.
LEMMA ReadableByAllowedAndOpaque ==
  ASSUME config \in Configurations, NEW c \in Clients
  PROVE  Readable(c, CORS(Origin[c])) <=>
           Origin[c] = NoOrigin \/ IsAllowed(c) \/ IsOpaque(c)
<1>1. CASE Origin[c] = NoOrigin
  BY <1>1 DEF Readable
<1>2. CASE Origin[c] # NoOrigin
  <2>1. Null # Star
    BY DEF Null, Star
  <2>2. originMatched(Origin[c]) <=> Allowed(Origin[c])
    BY <1>2, MatchedAreAllowed
  <2>3. allowAll => Allowed(Origin[c])
    BY DEF allowAll, Allowed
  <2>4. config.AllowCredentials \in BOOLEAN
    BY CrossOriginAssumption
  <2>5. QED
    BY <1>2, <2>1, <2>2, <2>3, <2>4 DEF Readable, CORS, IsAllowed, IsOpaque
<1>3. QED
  BY <1>1, <1>2

-----------------------------------------------------------------------------
(* The invariant. *)

Steps == {"idle", "preflight", "request", "done"}

NothingStored ==
  /\ config \in Configurations
  /\ shared = None
  /\ pc \in [Clients -> Steps]
  /\ verdict \in [Clients -> BOOLEAN]

LEMMA InitStoresNothing == Init => NothingStored
  BY DEF Init, NothingStored, Steps

LEMMA StepStoresNothing == NothingStored /\ [Next]_vars => NothingStored'
<1> SUFFICES ASSUME NothingStored, [Next]_vars PROVE NothingStored'
  OBVIOUS
<1> USE DEF NothingStored, Steps
<1>1. ASSUME NEW c \in Clients, Begin(c)
      PROVE  NothingStored'
  BY <1>1 DEF Begin
<1>2. \A c \in Clients : \A response : Readable(c, response) \in BOOLEAN
  BY DEF Readable
<1>3. ASSUME NEW c \in Clients, Preflight(c)
      PROVE  NothingStored'
  BY <1>2, <1>3 DEF Preflight, Conclude
<1>4. ASSUME NEW c \in Clients, Request(c)
      PROVE  NothingStored'
  <2>1. /\ Conclude(c, Readable(c, CORS(Origin[c])))
        /\ shared' \in {shared} \cup (IF CORS(Origin[c]).noStore THEN {} ELSE {CORS(Origin[c])})
        /\ UNCHANGED config
    BY <1>4 DEF Request
  <2>2. CORS(Origin[c]).noStore = TRUE
    BY DEF CORS, NoStore
  <2>3. QED
    BY <1>2, <2>1, <2>2 DEF Conclude
<1>5. CASE Reconfigure
  BY <1>5 DEF Reconfigure
<1>6. CASE UNCHANGED vars
  BY <1>6 DEF vars
<1>7. QED
  BY <1>1, <1>3, <1>4, <1>5, <1>6 DEF Next

LEMMA Invariant == Spec => []NothingStored
  BY InitStoresNothing, StepStoresNothing, PTL DEF Spec

-----------------------------------------------------------------------------
(* Who reads. *)

LEMMA ConcludedAsReadable ==
  ASSUME NothingStored, Next, NEW c \in Clients, Concludes(c)
  PROVE  verdict'[c] = Readable(c, CORS(Origin[c]))
<1> USE DEF NothingStored, Steps, Concludes
<1>1. ASSUME NEW d \in Clients, Begin(d)
      PROVE  FALSE
  BY <1>1 DEF Begin
<1>2. ASSUME NEW d \in Clients, Preflight(d)
      PROVE  verdict'[c] = Readable(c, CORS(Origin[c]))
  <2>1. d = c
    BY <1>2 DEF Preflight, Conclude
  <2>2. Readable(c, CORS(Origin[c])) = FALSE /\ verdict'[c] = FALSE
    BY <1>2, <2>1 DEF Preflight, Conclude, Readable
  <2>3. QED
    BY <2>2
<1>3. ASSUME NEW d \in Clients, Request(d)
      PROVE  verdict'[c] = Readable(c, CORS(Origin[c]))
  <2>1. Conclude(d, Readable(d, CORS(Origin[d])))
    BY <1>3 DEF Request
  <2>2. QED
    BY <2>1 DEF Conclude
<1>4. CASE Reconfigure
  BY <1>4 DEF Reconfigure
<1>5. QED
  BY <1>1, <1>2, <1>3, <1>4 DEF Next

\* For any clients, opaque ones too, any lists of origins and changes of the
\* settings, a page reads exactly if the settings are meant to allow its origin,
\* or if its origin is opaque and it sends no cookies, whoever asked before
\* through whatever cache.
THEOREM AllowedAndOpaqueRead == Spec => ReadByAllowedAndOpaque
<1>1. ASSUME NothingStored, Next, NEW c \in Clients, Concludes(c)
      PROVE  verdict'[c] <=> Origin[c] = NoOrigin \/ IsAllowed(c) \/ IsOpaque(c)
  BY <1>1, ConcludedAsReadable, ReadableByAllowedAndOpaque DEF NothingStored
<1>2. NothingStored /\ [Next]_vars =>
        [\A c \in Clients :
           Concludes(c) =>
             (verdict'[c] <=> Origin[c] = NoOrigin \/ IsAllowed(c) \/ IsOpaque(c))]_vars
  BY <1>1
<1>3. QED
  BY <1>2, Invariant, PTL DEF Spec, ReadByAllowedAndOpaque
=============================================================================
