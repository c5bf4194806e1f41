-------------------------- MODULE UpstreamContract --------------------------
(***************************************************************************)
(* What the service owes the upstream API (README, danmaku snapshot        *)
(* policy): for a key it already has, the upstream is called only when     *)
(* next_refresh_at has passed; for one it does not have, once; and never   *)
(* twice at a time for the same key.  What a call brings is stored once,   *)
(* and no stored time goes backwards.                                      *)
(*                                                                         *)
(* due[k] is the time from which k may be fetched again, None as long as   *)
(* nothing is stored; fetched[k] when what is stored was fetched; calling  *)
(* the keys for which a call has started and is not settled.               *)
(***************************************************************************)
EXTENDS Integers

CONSTANTS Keys, None

VARIABLES now, due, fetched, calling

vars == <<now, due, fetched, calling>>

Init ==
  /\ now = 1
  /\ due \in [Keys -> Int \cup {None}]
  /\ fetched \in [Keys -> {0, None}]
  /\ \A k \in Keys : due[k] = None <=> fetched[k] = None
  /\ calling = {}

Tick == now' = now + 1 /\ UNCHANGED <<due, fetched, calling>>

Call(k) ==
  /\ k \notin calling
  /\ due[k] = None \/ due[k] <= now
  /\ calling' = calling \cup {k}
  /\ UNCHANGED <<now, due, fetched>>

\* The call brought a payload, fetched since the last one and not due at the
\* time of its fetch.
Store(k) ==
  /\ k \in calling
  /\ fetched'[k] \in Nat /\ fetched'[k] <= now
  /\ fetched[k] # None => fetched[k] < fetched'[k]
  /\ due'[k] \in Int /\ fetched'[k] < due'[k]
  /\ fetched' = [fetched EXCEPT ![k] = fetched'[k]]
  /\ due' = [due EXCEPT ![k] = due'[k]]
  /\ calling' = calling \ {k}
  /\ UNCHANGED now

\* The call failed: what is stored stays, to be fetched again at another time.
Postpone(k) ==
  /\ k \in calling
  /\ due[k] # None /\ due'[k] \in Int
  /\ due' = [due EXCEPT ![k] = due'[k]]
  /\ calling' = calling \ {k}
  /\ UNCHANGED <<now, fetched>>

\* The call, or the process with all its calls, came to nothing.
GiveUp ==
  /\ calling' \subseteq calling
  /\ UNCHANGED <<now, due, fetched>>

Next ==
  \/ Tick
  \/ \E k \in Keys : Call(k) \/ Store(k) \/ Postpone(k)
  \/ GiveUp

Spec == Init /\ [][Next]_vars
=============================================================================
