------------------------ MODULE CrossOriginProperties ------------------------
(***************************************************************************)
(* What makes the CORS middleware correct, stated over CrossOrigin.        *)
(***************************************************************************)
EXTENDS CrossOrigin

\* The first n labels of an origin stand where an item has its star.
IsBelow(origin, item, n) ==
  /\ item[1] = "*" /\ Len(item) > 1
  /\ SubSeq(origin, n + 1, Len(origin)) = Tail(item)

\* The origins that the settings are meant to allow: every one if they list
\* none or a star, and otherwise those they list and those with at least one
\* label before the host of a wildcard.
Allowed(origin) ==
  \/ Items = {} \/ Star \in Items \/ origin \in Items
  \/ \E item \in Items, n \in 1 .. Len(origin) : IsBelow(origin, item, n)

Concludes(c) == pc[c] # "done" /\ pc'[c] = "done"

\* Its origin is allowed, and its cookies if it sends them.
IsAllowed(c) == Allowed(Origin[c]) /\ (c \in Credentialed => config.AllowCredentials)

\* Its header is the very value that the middleware answers to those it does
\* not allow; its cookies are not among what that answer accepts.
IsOpaque(c) == Origin[c] = Null /\ c \notin Credentialed

\* Each page reads the answers exactly if the settings of the process allow its
\* origin, and its cookies if it sends them, or if its origin is opaque and it
\* sends none, however many other origins and programs without one asked for
\* the same URL before, through a cache that replays what it may keep. Every
\* other page is refused, with and without a preflight.
ReadByAllowedAndOpaque ==
  [][\A c \in Clients :
       Concludes(c) =>
         (verdict'[c] <=> Origin[c] = NoOrigin \/ IsAllowed(c) \/ IsOpaque(c))]_vars

\* The same without the second kind: to an origin that is not allowed the
\* middleware answers "null", "which does not match its own Origin", so that the
\* browser blocks it (utils/cors.go:43-44).
OnlyTheAllowedRead ==
  [][\A c \in Clients :
       Concludes(c) /\ verdict'[c] => Origin[c] = NoOrigin \/ IsAllowed(c)]_vars
=============================================================================
