----------------------------- MODULE CrossOrigin -----------------------------
(***************************************************************************)
(* The headers that let pages of other origins read the answers            *)
(* (utils/cors.go), between browsers that check them and a shared cache    *)
(* that keeps what it may and replays it to everyone, whatever their       *)
(* Origin: many do not honour Vary, which is why the middleware forbids    *)
(* all storing.                                                            *)
(*                                                                         *)
(* The text of an origin or of an item of CORS_ALLOW_ORIGINS is the        *)
(* sequence of its labels, between the dots.                               *)
(***************************************************************************)
EXTENDS Sequences, Integers

CONSTANTS
  Clients,         \* browser pages and other programs
  Origin,          \* per client the origin of its page, NoOrigin if it has none
  Credentialed,    \* the clients that send their cookies
  Preflighted,     \* the clients that ask before they send
  Configurations,  \* the settings of one start of the process after the other
  NoOrigin,        \* a request without the header
  None             \* nothing is stored

Star == <<"*">>
Null == <<"null">>

IsText(text) == text # <<>> /\ text \in Seq({text[i] : i \in DOMAIN text})

\* splitAndTrim leaves out empty items, and an empty header counts as none.  A
\* page without a host of its own, such as a file or a sandboxed frame, has an
\* opaque origin, which browsers send as "null".
ASSUME CrossOriginAssumption ==
  /\ \A c \in Clients : Origin[c] # NoOrigin => IsText(Origin[c])
  /\ \A settings \in Configurations :
       /\ settings.AllowCredentials \in BOOLEAN
       /\ \A i \in DOMAIN settings.AllowOrigins : IsText(settings.AllowOrigins[i])
  /\ Credentialed \subseteq Clients /\ Preflighted \subseteq Clients

VARIABLES
  config,   \* AllowOrigins after splitAndTrim, AllowCredentials
  shared,   \* what the shared cache has stored for the URL
  pc,       \* client: what it does next
  verdict   \* client: whether its page may read the answer

vars == <<config, shared, pc, verdict>>

-----------------------------------------------------------------------------
(* The middleware. *)

Items == {config.AllowOrigins[i] : i \in DOMAIN config.AllowOrigins}

\* An empty list, of blanks only, allows everyone too.
allowAll == Items = {} \/ Star \in Items

\* HasSuffix(origin, item[1:]), where item[1:] begins with a dot.
HasSuffix(origin, item) ==
  /\ Len(origin) >= Len(item)
  /\ SubSeq(origin, Len(origin) - Len(item) + 2, Len(origin)) = Tail(item)

originAllowed(origin) ==
  \E item \in Items :
    \/ item = origin
    \/ item[1] = "*" /\ Len(item) > 1 /\ HasSuffix(origin, item)

originMatched(origin) == origin # NoOrigin /\ (allowAll \/ originAllowed(origin))

\* Fault variant: only answers to pages are kept out of the cache.
NoStoreForPages(origin) == origin # NoOrigin

\* Cache-Control: private, no-store
NoStore(origin) == TRUE

\* A preflight is answered with the same headers and without the route; the
\* headers it asks for are all allowed.
CORS(origin) ==
  [ allowOrigin      |-> IF allowAll /\ ~config.AllowCredentials THEN Star
                         ELSE IF originMatched(origin) THEN origin
                         ELSE Null,
    allowCredentials |-> originMatched(origin) /\ config.AllowCredentials,
    noStore          |-> NoStore(origin) ]

-----------------------------------------------------------------------------
(* Browsers and the shared cache. *)

\* The check of the Fetch standard; a program without an origin makes none.
Readable(c, response) ==
  \/ Origin[c] = NoOrigin
  \/ c \notin Credentialed /\ response.allowOrigin \in {Star, Origin[c]}
  \/ c \in Credentialed /\ response.allowOrigin = Origin[c] /\ response.allowCredentials

Init ==
  /\ config \in Configurations
  /\ shared = None
  /\ pc = [c \in Clients |-> "idle"]
  /\ verdict = [c \in Clients |-> FALSE]

Conclude(c, readable) ==
  /\ pc' = [pc EXCEPT ![c] = "done"]
  /\ verdict' = [verdict EXCEPT ![c] = readable]

Begin(c) ==
  /\ pc[c] \in {"idle", "done"}
  /\ \/ c \in Preflighted /\ pc' = [pc EXCEPT ![c] = "preflight"]
     \/ pc' = [pc EXCEPT ![c] = "request"]   \* the last preflight still holds
  /\ UNCHANGED <<config, shared, verdict>>

Preflight(c) ==
  /\ pc[c] = "preflight"
  /\ IF Readable(c, CORS(Origin[c]))
       THEN pc' = [pc EXCEPT ![c] = "request"] /\ UNCHANGED verdict
       ELSE Conclude(c, FALSE)
  /\ UNCHANGED <<config, shared>>

\* The client gets the answer of the middleware, which the shared cache may
\* keep, or what is stored there.
Request(c) ==
  /\ pc[c] = "request"
  /\ \E response \in {CORS(Origin[c])} \cup ({shared} \ {None}) :
       /\ Conclude(c, Readable(c, response))
       /\ shared' \in {shared} \cup (IF response.noStore THEN {} ELSE {response})
  /\ UNCHANGED config

\* The process starts again with other settings.
Reconfigure ==
  /\ config' \in Configurations
  /\ UNCHANGED <<shared, pc, verdict>>

Next ==
  \/ \E c \in Clients : Begin(c) \/ Preflight(c) \/ Request(c)
  \/ Reconfigure

Spec == Init /\ [][Next]_vars
=============================================================================
