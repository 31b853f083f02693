---------------------------- MODULE OneShotTimers ---------------------------
(* What the reducer may rely on when it arms a timer: the newest request of  *)
(* a timer is answered at most once, an older one never again, and a reset   *)
(* forgets all of them.                                                      *)
EXTENDS Naturals

CONSTANT Timers

VARIABLES
  requests,  \* how many requests were ever made
  promised,  \* per timer, the request in force, or 0
  answered   \* the requests whose timer fired

vars == <<requests, promised, answered>>

Init ==
  /\ requests = 0
  /\ promised = [t \in Timers |-> 0]
  /\ answered = {}

Request(t) ==
  /\ requests' = requests + 1
  /\ promised' = [promised EXCEPT ![t] = requests + 1]
  /\ UNCHANGED answered

Answer(t) ==
  /\ promised[t] # 0
  /\ answered' = answered \cup {promised[t]}
  /\ promised' = [promised EXCEPT ![t] = 0]
  /\ UNCHANGED requests

Withdraw(t) ==
  /\ promised' = [promised EXCEPT ![t] = 0]
  /\ UNCHANGED <<requests, answered>>

Reset ==
  /\ promised' = [t \in Timers |-> 0]
  /\ UNCHANGED <<requests, answered>>

Next ==
  \/ \E t \in Timers : Request(t) \/ Answer(t) \/ Withdraw(t)
  \/ Reset

Spec == Init /\ [][Next]_vars
=============================================================================
