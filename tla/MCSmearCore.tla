----------------------------- MODULE MCSmearCore -----------------------------
(***************************************************************************)
(* SmearCore on small instances.                                           *)
(***************************************************************************)
EXTENDS SmearCore

Decision(exec, cleanup, animate, running) ==
    [exec |-> exec, cleanup |-> cleanup, animate |-> animate, running |-> running]

\* The decisions of the runtime reducer that differ for the protocol: a frame
\* of a running animation, the clear that ends a trail, a wait for the target
\* to settle (a noop that schedules a tick), a frame that decides no cleanup.
Frame   == Decision("Draw", "Invalidate", TRUE, TRUE)
End     == Decision("Clear", "Schedule", FALSE, FALSE)
Settle  == Decision("Noop", "Invalidate", TRUE, FALSE)
Still   == Decision("Draw", "NoAction", FALSE, FALSE)

MotionDecisions == {Frame, End}
SettleDecisions == {Frame, Settle, End}
StillDecisions  == {Frame, Still, End}

=============================================================================
