----------------------- MODULE CachedRoutesProperties -----------------------
(***************************************************************************)
(* What makes the cached routes correct, stated over CachedRoutes.         *)
(***************************************************************************)
EXTENDS CachedRoutes

LiveEntries ==
  [body : Bodies \cup {Damaged}, left : IF Duration > 0 THEN 1 .. Duration ELSE {Forever}]

\* Every variable has the type of its Go counterpart, an entry outlives no
\* configured duration, and a request past its upstream call has an answer.
TypeOK ==
  /\ upstream \in [Keys -> Versions]
  /\ redis \in [CacheKeys -> LiveEntries \cup {None}]
  /\ pc \in [Requests -> {"idle", "cacheGet", "sign", "call", "cacheSet", "done"}]
  /\ key \in [Requests -> Keys \cup {None}]
  /\ body \in [Requests -> Bodies \cup {None}]
  /\ \A r \in Requests : /\ pc[r] # "idle" => key[r] # None
                         /\ pc[r] = "cacheSet" => body[r] # None
  /\ \A provider \in Providers :
       Credentials(provider) # <<>> => Place(provider) \in Places

\* What a client is answered is what the upstream answered to the same
\* question, also when the other route asked for the same text and its entry
\* was found, or several requests filled the entry at the same time.
AnswerIsToTheQuestion ==
  \A r \in Requests : body[r] # None => body[r].about = key[r]

\* When the upstream has settled on an answer, the clients come to get it: an
\* error page that was cached, or an older answer that a slow request wrote
\* over a newer one, is not served for ever.
Settles ==
  \A k \in Keys, version \in Versions :
    <>[](upstream[k] = version) =>
      <>[](\A r \in Requests : key[r] = k /\ body[r] # None => body[r].version = version)
=============================================================================
