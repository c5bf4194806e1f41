------------------------- MODULE CredentialRotation -------------------------
(***************************************************************************)
(* Which credential signs the next upstream call (utils/auth.go).  Two     *)
(* instances of the upstream client exist: the package-level one of the    *)
(* routes (handlers/danmaku.go), built with an empty list before the       *)
(* configuration is loaded, and the one of the comment service (main.go).  *)
(* Each counts its own calls; the counter is kept modulo the number of     *)
(* credentials, all that is ever read of it.                               *)
(***************************************************************************)
EXTENDS Configuration

CONSTANTS
  DandanplayCredentials  \* of the loaded configuration

ASSUME RotationAssumption ==
  DandanplayCredentials \in Seq({DandanplayCredentials[i] : i \in DOMAIN DandanplayCredentials})

VARIABLES
  next,   \* per provider, the calls so far modulo the length of its list
  used    \* history: per provider and place in the list, how much more often
          \* it was chosen than the one chosen least

rotation == <<next, used>>

Providers == {"routes", "comments"}

Places == DOMAIN DandanplayCredentials

RotationInit ==
  /\ next = [provider \in Providers |-> 0]
  /\ used = [provider \in Providers |-> [place \in Places |-> 0]]

\* NewRoundRobinCredentialProvider copies the list it is given.
Own(provider) == IF provider = "comments" THEN DandanplayCredentials ELSE <<>>

Credentials(provider) ==
  IF Own(provider) = <<>> THEN DandanplayCredentials ELSE Own(provider)

Place(provider) == next[provider] + 1

\* The history: when every place is ahead, the lead of all is none.
Count(lead, place) ==
  LET after == [lead EXCEPT ![place] = @ + 1]
  IN IF \A p \in Places : after[p] > 0 THEN [p \in Places |-> after[p] - 1] ELSE after

\* Fault variant: a provider without a list of its own does not count.
AdvanceOwn(provider) ==
  IF Credentials(provider) = <<>>
    THEN UNCHANGED rotation
    ELSE /\ next' = [next EXCEPT ![provider] =
                      IF Own(provider) = <<>> THEN @ ELSE (@ + 1) % Len(Credentials(provider))]
         /\ used' = [used EXCEPT ![provider] = Count(@, Place(provider))]

\* atomic.AddUint64; the pair of APP_ID and APP_SECRET, taken as it is when
\* there is no list, needs no counting.
Advance(provider) ==
  IF Credentials(provider) = <<>>
    THEN UNCHANGED rotation
    ELSE /\ next' = [next EXCEPT ![provider] = (@ + 1) % Len(Credentials(provider))]
         /\ used' = [used EXCEPT ![provider] = Count(@, Place(provider))]

\* However calls of both clients interleave, no credential of the list is ever
\* used twice more often than another one by either of them.
EvenRotation ==
  \A provider \in Providers : \A place \in Places : used[provider][place] \in {0, 1}
=============================================================================
