---------------------------- MODULE DeferredWork ----------------------------
(* What the scheduled queue of smear-cursor promises to those who put work   *)
(* into it.  Work is numbered as it is deferred.  It is performed in that    *)
(* order; neighbouring pieces may be performed as one.  Only a failure and   *)
(* the reset of the plugin drop work, and a failure leaves its report as the *)
(* only piece to do.                                                         *)
EXTENDS Naturals

VARIABLES seen,   \* the number of the newest piece of work
          todo    \* the pieces not yet begun

vars == <<seen, todo>>

Init == seen = 0 /\ todo = {}

Defer ==
  /\ seen' \in Nat /\ seen' > seen
  /\ todo' = todo \cup ((seen + 1) .. seen')

Perform ==
  /\ \E first \in SUBSET todo :
       /\ first # {}
       /\ \A n \in first, m \in todo \ first : n < m
       /\ todo' = todo \ first
  /\ UNCHANGED seen

Fail == seen' = seen + 1 /\ todo' = {seen'}

Reset == todo' = {} /\ UNCHANGED seen

Next == Defer \/ Perform \/ Fail \/ Reset

Safety == Init /\ [][Next]_vars

Spec == Safety /\ WF_vars(Perform)
=============================================================================
