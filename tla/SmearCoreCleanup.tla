-------------------------- MODULE SmearCoreCleanup --------------------------
(***************************************************************************)
(* Render cleanup that is owed is never forgotten, for every value of the  *)
(* constants of SmearCore: its timer is live, still to be started, or its  *)
(* loss is still to be reported - or the work itself is queued, or its     *)
(* report is.                                                              *)
(*                                                                         *)
(* The code arms the cleanup timer in the transition that owes the cleanup *)
(* and from then on one hand passes it to the next: timer to work, work to *)
(* report, report to timer.  The drain breaks the chain when it fails,     *)
(* because its reset takes the queued work and the queued report with it   *)
(* and stages a failure that owes no cleanup.  The theorem is stated for   *)
(* runs without that failure; the run core_cleanup_lost shows what happens *)
(* with it.                                                                *)
(***************************************************************************)
EXTENDS SmearCoreTimers

CleanupOwed(c) == c.cleanup.thermal # "Cold" /\ ~c.cleanup.quiesced

\* Before the core is initialized nothing is drawn and nothing owed.
IdleIsCold(c) == c.phase = "Idle" => c.cleanup.thermal = "Cold"

WorkPending   == \E f \in PendingEffects : f.type = "ApplyRenderCleanup"
ReportPending == \E r \in PendingEvents : r.type = "RenderCleanupApplied"

\* An armed token is on its way to the reducer, whatever it is for.
CleanupInv ==
    /\ OrderInv
    /\ IdleIsCold(core)
    /\ \A x \in TimerIds : core.timers[x].armed => TimerPending(x)
    /\ CleanupOwed(core) =>
          core.timers["Cleanup"].armed \/ WorkPending \/ ReportPending

-----------------------------------------------------------------------------
(* What a handler does to the cleanup. *)

\* The transition hands the cleanup on, to a timer or to the shell.
Busy(t) ==
    \/ t.next.timers["Cleanup"].armed
    \/ \E f \in Range(t.effects) : f.type = "ApplyRenderCleanup"

\* From c to n cleanup, its timer and the ledger are left alone.
Spares(c, n) ==
    /\ n.cleanup = c.cleanup /\ n.timers["Cleanup"] = c.timers["Cleanup"]
    /\ n.ledger = c.ledger
    /\ n.phase = "Idle" => c.phase = "Idle"

\* The timer is armed, or cleanup and its timer are left alone.
Readies(c, n) ==
    \/ n.timers["Cleanup"].armed
    \/ n.cleanup = c.cleanup /\ n.timers["Cleanup"] = c.timers["Cleanup"]

\* What the handling t of e in c must do: what is owed then is handed on, unless
\* the work or the report that c relied on is left alone.
Tidy(c, e, t) ==
    /\ CleanupOwed(t.next) =>
          \/ Busy(t)
          \/ /\ CleanupOwed(c) /\ ~c.timers["Cleanup"].armed
             /\ e.type # "RenderCleanupApplied"
    /\ IdleIsCold(t.next)

\* A transition that leaves cleanup alone is tidy,
LEMMA SparesTidy ==
    ASSUME NEW c, IdleIsCold(c), NEW e, e.type # "RenderCleanupApplied", NEW t,
           Spares(c, t.next)
    PROVE  Tidy(c, e, t)
<1>1. CleanupOwed(t.next) => CleanupOwed(c)
  BY DEF Spares, CleanupOwed
<1>2. IdleIsCold(t.next)
  BY DEF Spares, IdleIsCold
<1>3. c.timers["Cleanup"].armed => Busy(t)
  BY DEF Spares, Busy
<1> QED BY <1>1, <1>2, <1>3 DEF Tidy

\* ... and so is one that owes nothing or hands it on.
LEMMA BusyTidy ==
    ASSUME NEW c, NEW e, NEW t, CleanupOwed(t.next) => Busy(t), IdleIsCold(t.next)
    PROVE  Tidy(c, e, t)
  BY DEF Tidy

\* Nothing is done, or one thing after another.
LEMMA SparesThen ==
    ASSUME NEW c
    PROVE  /\ Stay(c).next = c /\ Spares(c, c)
           /\ \A n, m : Spares(c, n) /\ Spares(n, m) => Spares(c, m)
  BY DEF Spares, Stay

-----------------------------------------------------------------------------
(* Observations, plans and recovery leave cleanup alone. *)

\* Another timer is armed,
LEMMA ScheduleSpares ==
    ASSUME NEW c \in CoreStates, NEW x \in TimerIds, x # "Cleanup"
    PROVE  Spares(c, ScheduleTimerWithDelay(c, x).next)
<1> DEFINE y      == [gen |-> c.timers[x].gen + 1, armed |-> TRUE]
           timers == [c.timers EXCEPT ![x] = y]
           n      == [c EXCEPT !.timers = timers]
<1>1. ScheduleTimerWithDelay(c, x).next = n
  BY DEF ScheduleTimerWithDelay
<1>2. timers["Cleanup"] = c.timers["Cleanup"]
  BY FieldTypes DEF Timers, TimerIds
<1> HIDE DEF timers
<1>3. n.cleanup = c.cleanup /\ n.timers = timers /\ n.ledger = c.ledger /\ n.phase = c.phase
  BY DEF CoreStates
<1> HIDE DEF n
<1> QED BY <1>1, <1>2, <1>3 DEF Spares

\* ... or disarmed,
LEMMA DisarmSpares ==
    ASSUME NEW c \in CoreStates, NEW x \in TimerIds, x # "Cleanup"
    PROVE  Spares(c, Disarm(c, x))
<1> DEFINE timers == [c.timers EXCEPT ![x].armed = FALSE]
           n      == [c EXCEPT !.timers = timers]
<1>1. Disarm(c, x) = n
  BY DEF Disarm
<1>2. timers["Cleanup"] = c.timers["Cleanup"]
  BY FieldTypes DEF Timers, TimerIds
<1> HIDE DEF timers
<1>3. n.cleanup = c.cleanup /\ n.timers = timers /\ n.ledger = c.ledger /\ n.phase = c.phase
  BY DEF CoreStates
<1> HIDE DEF n
<1> QED BY <1>1, <1>2, <1>3 DEF Spares

\* ... an observation is entered,
LEMMA EnterObservingSpares ==
    ASSUME NEW c \in CoreStates, AcceptsObservation(c), NEW d
    PROVE  Spares(c, EnterObservingRequest(c, d).next)
<1> DEFINE n == [c EXCEPT !.phase = "Collecting", !.demand = d,
                          !.refresh = NoRefreshes]
<1>1. EnterObservingRequest(c, d).next = n
  BY DEF EnterObservingRequest
<1>2. /\ n.cleanup = c.cleanup /\ n.timers = c.timers /\ n.ledger = c.ledger
      /\ n.phase = "Collecting"
  BY DEF CoreStates
<1> HIDE DEF n
<1> QED BY <1>1, <1>2 DEF Spares

\* ... the oldest queued demand's,
LEMMA StartNextSpares ==
    ASSUME NEW c \in CoreStates, AcceptsObservation(c)
    PROVE  Spares(c, StartNextObservation(c).next)
<1>1. CASE QueuedKinds(c) = {}
  BY <1>1, SparesThen DEF StartNextObservation
<1>2. CASE QueuedKinds(c) # {}
  <2> DEFINE k == CHOOSE k \in QueuedKinds(c) :
                     \A j \in QueuedKinds(c) : c.queue[k] <= c.queue[j]
             queue == [c.queue EXCEPT ![k] = 0]
             n == [c EXCEPT !.queue = queue, !.delay = "none"]
             d == [kind |-> k, seq |-> c.queue[k]]
  <2>1. queue \in Queues
    BY FieldTypes DEF Queues
  <2>2. /\ n \in CoreStates /\ AcceptsObservation(n) /\ n.timers = c.timers
        /\ n.cleanup = c.cleanup /\ n.ledger = c.ledger /\ n.phase = c.phase
    BY <2>1 DEF CoreStates, AcceptsObservation, Delays
  <2>3. StartNextObservation(c) = EnterObservingRequest(n, d)
    BY <1>2 DEF StartNextObservation
  <2> HIDE DEF n, d
  <2>4. Spares(c, n)
    BY <2>2 DEF Spares
  <2> QED BY <2>2, <2>3, <2>4, EnterObservingSpares, SparesThen
<1> QED BY <1>1, <1>2

\* ... or the boundary refresh's,
LEMMA BoundarySpares ==
    ASSUME NEW c \in CoreStates, AcceptsObservation(c)
    PROVE  Spares(c, StartBoundaryRefreshObservation(c).next)
<1> DEFINE n == [c EXCEPT !.seq = c.seq + 1]
           d == [kind |-> "BoundaryRefresh", seq |-> c.seq + 1]
<1>1. /\ n \in CoreStates /\ AcceptsObservation(n) /\ n.timers = c.timers
      /\ n.cleanup = c.cleanup /\ n.ledger = c.ledger /\ n.phase = c.phase
  BY FieldTypes DEF CoreStates, AcceptsObservation
<1>2. StartBoundaryRefreshObservation(c) = EnterObservingRequest(n, d)
  BY DEF StartBoundaryRefreshObservation
<1> HIDE DEF n, d
<1>3. Spares(c, n)
  BY <1>1 DEF Spares
<1> QED BY <1>1, <1>2, <1>3, EnterObservingSpares, SparesThen

\* ... a plan is asked for,
LEMMA PlanReadySpares ==
    ASSUME NEW c \in CoreStates, NEW d
    PROVE  Spares(c, PlanReadyState(c, d).next)
<1>1. CASE c.phase # "Ready"
  BY <1>1, SparesThen DEF PlanReadyState
<1>2. CASE c.phase = "Ready"
  <2> DEFINE id == c.proposals + 1
             n  == [c EXCEPT !.phase = "Planning", !.proposals = id,
                             !.proposal = [id |-> id], !.animating = d.running]
  <2>1. PlanReadyState(c, d).next = n
    BY <1>2 DEF PlanReadyState
  <2>2. /\ n.cleanup = c.cleanup /\ n.timers = c.timers /\ n.ledger = c.ledger
        /\ n.phase = "Planning"
    BY DEF CoreStates
  <2> HIDE DEF n
  <2> QED BY <2>1, <2>2 DEF Spares
<1> QED BY <1>1, <1>2

\* ... either of the two is,
LEMMA ObserveOrPlanSpares ==
    ASSUME NEW c \in CoreStates, NEW d
    PROVE  Spares(c, ObserveOrPlan(c, d).next)
  BY StartNextSpares, PlanReadySpares, SparesThen DEF ObserveOrPlan

\* ... or recovery is entered.
LEMMA EnterRecoveringSpares ==
    ASSUME NEW c \in CoreStates
    PROVE  Spares(c, EnterRecovering(c).next)
<1> DEFINE n == [c EXCEPT !.phase = "Recovering", !.demand = NoDemand,
                          !.refresh = NoRefreshes, !.proposal = NoProposal]
<1>1. /\ n \in CoreStates /\ n.phase = "Recovering" /\ n.timers = c.timers
      /\ n.cleanup = c.cleanup /\ n.ledger = c.ledger
  BY EmptyValues, Phases DEF CoreStates
<1>2. EnterRecovering(c) = ScheduleTimerWithDelay(n, "Recovery")
  BY DEF EnterRecovering
<1> HIDE DEF n
<1>3. Spares(n, ScheduleTimerWithDelay(n, "Recovery").next)
  BY <1>1, ScheduleSpares DEF TimerIds
<1> QED BY <1>1, <1>2, <1>3 DEF Spares

-----------------------------------------------------------------------------
(* Cleanup is handed on. *)

\* An armed timer, which is what scheduling leaves.
LEMMA ScheduleArmed ==
    ASSUME NEW c \in CoreStates, NEW x \in TimerIds
    PROVE  LET n == ScheduleTimerWithDelay(c, x).next
           IN n.timers[x].armed /\ n.cleanup = c.cleanup /\ n.phase = c.phase
<1> DEFINE y      == [gen |-> c.timers[x].gen + 1, armed |-> TRUE]
           timers == [c.timers EXCEPT ![x] = y]
           n      == [c EXCEPT !.timers = timers]
<1>1. ScheduleTimerWithDelay(c, x).next = n
  BY DEF ScheduleTimerWithDelay
<1>2. timers[x] = y /\ y.armed
  BY FieldTypes DEF Timers
<1> HIDE DEF timers
<1>3. n.cleanup = c.cleanup /\ n.timers = timers /\ n.phase = c.phase
  BY DEF CoreStates
<1> HIDE DEF n, y
<1> QED BY <1>1, <1>2, <1>3

\* What is owed has its timer armed, and nothing else is changed.
LEMMA ArmHands ==
    ASSUME NEW c \in CoreStates
    PROVE  LET t == ArmRenderCleanupTimer(c)
           IN /\ CleanupOwed(c) => t.next.timers["Cleanup"].armed
              /\ ~CleanupOwed(c) => t.next = c
              /\ t.next.phase = c.phase
              /\ t.next.cleanup.thermal = c.cleanup.thermal
<1> DEFINE k == [c.cleanup EXCEPT !.pushed = FALSE]
           n == [c EXCEPT !.cleanup = k]
           t == ArmRenderCleanupTimer(c)
<1>1. k \in Cleanups /\ k.thermal = c.cleanup.thermal
  <2>1. c.cleanup \in Cleanups
    BY FieldTypes
  <2> QED BY <2>1, CleanupValues DEF Cleanups
<1>2. /\ n \in CoreStates /\ n.cleanup = k /\ n.phase = c.phase
  BY <1>1, CleanupUpdated DEF SameProtocol
<1>3. t = IF CleanupOwed(c) THEN ScheduleTimerWithDelay(n, "Cleanup") ELSE Stay(c)
  BY DEF ArmRenderCleanupTimer, CleanupOwed
<1> HIDE DEF n, k, t
<1>4. /\ ScheduleTimerWithDelay(n, "Cleanup").next.timers["Cleanup"].armed
      /\ ScheduleTimerWithDelay(n, "Cleanup").next.cleanup = k
      /\ ScheduleTimerWithDelay(n, "Cleanup").next.phase = c.phase
  BY <1>2, ScheduleArmed DEF TimerIds
<1>5. /\ CleanupOwed(c) => t.next.timers["Cleanup"].armed
      /\ ~CleanupOwed(c) => t.next = c
      /\ t.next.phase = c.phase
      /\ t.next.cleanup.thermal = c.cleanup.thermal
  BY <1>1, <1>3, <1>4, SparesThen
<1> QED BY <1>5 DEF t

\* A callback or a report hands it to the shell or to the timer.
LEMMA EmitHands ==
    ASSUME NEW c \in CoreStates, NEW due \in BOOLEAN
    PROVE  LET t == EmitCleanupOrArm(c, due)
           IN /\ CleanupOwed(t.next) => Busy(t)
              /\ IdleIsCold(c) => IdleIsCold(t.next)
<1> DEFINE k == CleanupEffects(c, due)
           t == EmitCleanupOrArm(c, due)
<1>1. CASE k # <<>>
  <2> DEFINE f == [type |-> "ApplyRenderCleanup",
                   execution |-> IF c.cleanup.thermal = "Hot" THEN "SoftClear"
                                                              ELSE "Compact"]
  <2>1. t = [next |-> c, effects |-> k] /\ k = <<f>> /\ f.type = "ApplyRenderCleanup"
    BY <1>1 DEF EmitCleanupOrArm, CleanupEffects
  <2> HIDE DEF f, t, k
  <2>2. t.next = c /\ f \in Range(t.effects)
    BY <2>1, FewEffects
  <2>3. Busy(t) /\ (IdleIsCold(c) => IdleIsCold(t.next))
    BY <2>1, <2>2 DEF Busy
  <2> QED BY <2>3 DEF t
<1>2. CASE k = <<>>
  <2>1. t = ArmRenderCleanupTimer(c)
    BY <1>2 DEF EmitCleanupOrArm
  <2> HIDE DEF t, k
  <2>2. /\ CleanupOwed(c) => t.next.timers["Cleanup"].armed
        /\ ~CleanupOwed(c) => t.next = c
        /\ t.next.phase = c.phase
        /\ t.next.cleanup.thermal = c.cleanup.thermal
    BY <2>1, ArmHands
  <2>3. /\ CleanupOwed(t.next) => Busy(t)
        /\ IdleIsCold(c) => IdleIsCold(t.next)
    BY <2>2 DEF Busy, IdleIsCold
  <2> QED BY <2>3 DEF t
<1> QED BY <1>1, <1>2

\* Entering Hot leaves the timer armed, whether it was or not.
LEMMA EnterHotArmed ==
    ASSUME NEW c \in CoreStates
    PROVE  /\ EnterHotCleanup(c).next.timers["Cleanup"].armed
           /\ EnterHotCleanup(c).next.phase = c.phase
<1> DEFINE hot == [thermal |-> "Hot", quiesced |-> FALSE, pushed |-> FALSE]
           n   == [c EXCEPT !.cleanup = hot]
           k   == [n.cleanup EXCEPT !.pushed = TRUE]
           m   == [n EXCEPT !.cleanup = k]
<1>1. hot \in Cleanups
  BY FieldTypes, CleanupValues
<1>2. /\ n \in CoreStates /\ n.timers = c.timers /\ n.phase = c.phase
      /\ n.cleanup = hot /\ CleanupOwed(n)
  <2>1. hot.thermal # "Cold" /\ ~hot.quiesced
    OBVIOUS
  <2> HIDE DEF hot
  <2> QED BY <1>1, <2>1, CleanupUpdated DEF SameProtocol, CleanupOwed
<1>3. EnterHotCleanup(c) = IF n.timers["Cleanup"].armed THEN Stay(m)
                           ELSE ArmRenderCleanupTimer(n)
  BY DEF EnterHotCleanup, ArmUnlessActive
<1> HIDE DEF hot, n
<1>4. k \in Cleanups
  BY <1>2, FieldTypes, CleanupValues
<1> HIDE DEF k
<1>5. m.timers = n.timers /\ m.phase = n.phase
  BY <1>2, <1>4, CleanupUpdated DEF SameProtocol
<1> HIDE DEF m
<1>6. Stay(m).next = m
  BY SparesThen
<1> QED BY <1>2, <1>3, <1>5, <1>6, ArmHands

\* A proposal's intent arms the timer or leaves cleanup alone.
LEMMA AdvanceReadies ==
    ASSUME NEW c \in CoreStates, NEW action \in {"NoAction", "Invalidate", "Schedule"}
    PROVE  /\ Readies(c, AdvanceCleanupForProposal(c, action).next)
           /\ AdvanceCleanupForProposal(c, action).next.phase = c.phase
<1> DEFINE k == [c.cleanup EXCEPT !.quiesced = FALSE]
           n == [c EXCEPT !.cleanup = k]
           t == AdvanceCleanupForProposal(c, action)
<1>1. k \in Cleanups /\ k.thermal = c.cleanup.thermal /\ ~k.quiesced
  <2>1. c.cleanup \in Cleanups
    BY FieldTypes
  <2> QED BY <2>1, CleanupValues DEF Cleanups
<1> HIDE DEF k
<1>2. n \in CoreStates /\ n.timers = c.timers /\ n.phase = c.phase /\ n.cleanup = k
  BY <1>1, CleanupUpdated DEF SameProtocol
<1>3. t = CASE action = "NoAction" -> Stay(c)
            [] action = "Invalidate" -> EnterHotCleanup(c)
            [] action = "Schedule" ->
                  IF c.cleanup.thermal = "Cold" THEN EnterHotCleanup(c)
                  ELSE IF c.timers["Cleanup"].armed THEN Stay(n)
                  ELSE ArmRenderCleanupTimer(n)
  BY DEF AdvanceCleanupForProposal, k
<1> HIDE DEF n, t
<1>4. CASE t = Stay(c)
  BY <1>4, SparesThen DEF Readies, t
<1>5. CASE t = EnterHotCleanup(c)
  BY <1>5, EnterHotArmed DEF Readies, t
<1>6. CASE t = Stay(n) /\ c.timers["Cleanup"].armed
  BY <1>2, <1>6, SparesThen DEF Readies, t
<1>7. CASE t = ArmRenderCleanupTimer(n) /\ c.cleanup.thermal # "Cold"
  <2>1. CleanupOwed(n)
    BY <1>1, <1>2, <1>7 DEF CleanupOwed
  <2> QED BY <1>2, <1>7, <2>1, ArmHands DEF Readies, t
<1> QED BY <1>3, <1>4, <1>5, <1>6, <1>7

-----------------------------------------------------------------------------
(* The handlers. *)

\* Initialize.
LEMMA InitializeTidy ==
    ASSUME NEW c, CoreInv(c), IdleIsCold(c), NEW e, e.type = "Initialize"
    PROVE  Tidy(c, e, ReduceInitialize(c))
<1> DEFINE n == [c EXCEPT !.phase = "Primed"]
<1>1. /\ n.cleanup = c.cleanup /\ n.timers = c.timers /\ n.ledger = c.ledger
      /\ n.phase = "Primed"
  BY DEF CoreInv, CoreStates
<1>2. ReduceInitialize(c).next \in {n, c}
  BY DEF ReduceInitialize, Stay
<1> HIDE DEF n
<1>3. Spares(c, ReduceInitialize(c).next)
  BY <1>1, <1>2, SparesThen DEF Spares
<1> QED BY <1>3, SparesTidy

\* A demand that is held back leaves cleanup alone.
LEMMA DelayedSpares ==
    ASSUME NEW c \in CoreStates
    PROVE  Spares(c, DelayedCursorIngress(c).next)
<1> DEFINE longer == [c EXCEPT !.delay = "extended"]
           armed  == [c EXCEPT !.delay = "armed"]
<1>1. armed \in CoreStates /\ Spares(c, armed) /\ Spares(c, longer)
  BY DEF CoreStates, Delays, Spares
<1>2. DelayedCursorIngress(c) \in {Stay(longer), ScheduleTimerWithDelay(armed, "Ingress")}
  BY DEF DelayedCursorIngress
<1> HIDE DEF longer, armed
<1>3. Spares(armed, ScheduleTimerWithDelay(armed, "Ingress").next)
  BY <1>1, ScheduleSpares DEF TimerIds
<1> QED BY <1>1, <1>2, <1>3, SparesThen

\* Ingress owes cleanup and has its timer armed.
LEMMA ExternalDemandQueuedTidy ==
    ASSUME NEW c, CoreInv(c), IdleIsCold(c), NEW e \in Events,
           e.type = "ExternalDemandQueued"
    PROVE  Tidy(c, e, ReduceExternalDemandQueued(c, e))
<1> DEFINE queue  == [c.queue EXCEPT ![e.kind] = c.seq + 1]
           queued == [c EXCEPT !.seq = c.seq + 1, !.queue = queue]
           b      == EnterHotCleanup(queued).next
           t      == ReduceExternalDemandQueued(c, e)
<1>1. CASE c.phase = "Idle"
  <2>1. Spares(c, t.next)
    BY <1>1, SparesThen DEF ReduceExternalDemandQueued
  <2> HIDE DEF t
  <2>2. Tidy(c, e, t)
    BY <2>1, SparesTidy
  <2> QED BY <2>2 DEF t
<1>2. CASE c.phase # "Idle"
  <2>1. e.kind \in DemandKinds /\ c.seq + 1 \in Nat
    BY EventFields, FieldTypes DEF CoreInv, DemandKinds
  <2>2. queue \in Queues
    BY <2>1, FieldTypes DEF CoreInv, Queues
  <2> HIDE DEF queue
  <2>3. queued \in CoreStates /\ queued.phase = c.phase
    BY <2>1, <2>2 DEF CoreInv, CoreStates
  <2> HIDE DEF queued
  <2>4. b \in CoreStates /\ b.timers["Cleanup"].armed /\ b.phase = c.phase
    BY <2>3, EnterHotArmed, EnterHotTyped DEF TimersOnly
  <2>5. t.next = IF ~AcceptsObservation(c) THEN b
                 ELSE IF e.kind = CursorKind /\ DelaysCursor
                 THEN DelayedCursorIngress(b).next ELSE StartNextObservation(b).next
    BY <1>2 DEF ReduceExternalDemandQueued, QueueExternalDemand, Stay, queued, queue
  <2> HIDE DEF b
  <2>6. Spares(b, t.next)
    BY <2>4, <2>5, SparesThen, DelayedSpares, StartNextSpares DEF AcceptsObservation
  <2> HIDE DEF t
  <2>7. Busy(t) /\ IdleIsCold(t.next)
    BY <1>2, <2>4, <2>6 DEF Busy, Spares, IdleIsCold
  <2>8. Tidy(c, e, t)
    BY <2>7, BusyTidy
  <2> QED BY <2>8 DEF t
<1> QED BY <1>1, <1>2

\* Observations and plans leave cleanup alone: a base,
LEMMA ObservationBaseCollectedTidy ==
    ASSUME NEW c, CoreInv(c), IdleIsCold(c), NEW e \in Events, NEW d \in Decisions,
           e.type = "ObservationBaseCollected"
    PROVE  Tidy(c, e, ReduceObservationBaseCollected(c, e, d))
<1> DEFINE obs   == [kind |-> c.demand.kind, seq |-> c.demand.seq,
                     color |-> IF SamplesCursorColor /\ e.samples
                               THEN "pending" ELSE "done",
                     chunks |-> e.chunks, inexact |-> e.inexact]
           base  == [c EXCEPT !.obs = obs, !.demand = NoDemand]
           look  == [base EXCEPT !.phase = "Observing"]
           ready == [base EXCEPT !.phase = "Ready", !.refresh = NoRefreshes]
           t     == ReduceObservationBaseCollected(c, e, d)
<1>1. obs \in Observations
  BY EventFields, FieldTypes DEF Observations, Demands, CoreInv
<1>2. t.next \in {c, look, PlanReadyState(ready, d).next}
  BY SparesThen DEF ReduceObservationBaseCollected
<1> HIDE DEF obs
<1>3. /\ look.phase = "Observing" /\ look.timers = c.timers
      /\ look.cleanup = c.cleanup /\ look.ledger = c.ledger
      /\ ready \in CoreStates /\ ready.phase = "Ready" /\ ready.timers = c.timers
      /\ ready.cleanup = c.cleanup /\ ready.ledger = c.ledger
  BY <1>1, EmptyValues, Phases DEF CoreInv, CoreStates
<1> HIDE DEF look, ready, t
<1>4. Spares(c, look) /\ Spares(c, ready)
  BY <1>3 DEF Spares
<1>5. Spares(c, t.next)
  BY <1>2, <1>3, <1>4, PlanReadySpares, SparesThen
<1>6. Tidy(c, e, t)
  BY <1>5, SparesTidy
<1> QED BY <1>6 DEF t

\* ... an outdated basis,
LEMMA RefreshRequiredSpares ==
    ASSUME NEW c, CoreInv(c), NEW p \in ProbeKinds, NEW d \in Decisions
    PROVE  Spares(c, ReduceRefreshRequired(c, p, d).next)
<1> DEFINE primed == [c EXCEPT !.phase = "Primed", !.obs = NoObservation,
                               !.refresh = NoRefreshes]
           demand == ActiveDemand(c)
           tried  == [c.refresh EXCEPT ![p] = c.refresh[p] + 1]
           again  == [c EXCEPT !.phase = "Collecting", !.demand = demand,
                               !.refresh = tried]
           t      == ReduceRefreshRequired(c, p, d)
<1>1. t.next \in {c, ObserveOrPlan(primed, d).next, again}
  BY SparesThen DEF ReduceRefreshRequired
<1> HIDE DEF demand, tried
<1>2. /\ primed \in CoreStates /\ primed.phase = "Primed" /\ primed.timers = c.timers
      /\ primed.cleanup = c.cleanup /\ primed.ledger = c.ledger
      /\ again.phase = "Collecting" /\ again.timers = c.timers
      /\ again.cleanup = c.cleanup /\ again.ledger = c.ledger
  BY EmptyValues, Phases DEF CoreInv, CoreStates
<1> HIDE DEF primed, again, t
<1>3. Spares(c, primed) /\ Spares(c, again)
  BY <1>2 DEF Spares
<1>4. Spares(c, t.next)
  BY <1>1, <1>2, <1>3, ObserveOrPlanSpares, SparesThen
<1> QED BY <1>4 DEF t

\* ... the report of a probe,
LEMMA ProbeReportedTidy ==
    ASSUME NEW c, CoreInv(c), IdleIsCold(c), NEW e \in Events, NEW d \in Decisions,
           e.type = "ProbeReported"
    PROVE  Tidy(c, e, ReduceProbeReported(c, e, d))
<1> DEFINE obs     == ApplyProbeReport(c.obs, e)
           updated == [c EXCEPT !.obs = obs]
           ready   == [updated EXCEPT !.phase = "Ready", !.refresh = NoRefreshes]
           t       == ReduceProbeReported(c, e, d)
           fits    == /\ c.phase \in {"Observing", "Ready", "Planning", "Applying"}
                      /\ AcceptsProbeReport(c.obs, e)
<1>1. CASE ~fits
  <2>1. t.next = c
    BY <1>1, SparesThen DEF ReduceProbeReported
  <2> HIDE DEF t
  <2>2. Tidy(c, e, t)
    BY <2>1, SparesThen, SparesTidy
  <2> QED BY <2>2 DEF t
<1>2. CASE fits /\ e.outcome = "refresh"
  <2>1. e.probe \in ProbeKinds
    BY EventFields
  <2>2. t = ReduceRefreshRequired(c, e.probe, d)
    BY <1>2 DEF ReduceProbeReported
  <2> HIDE DEF t
  <2>3. Spares(c, t.next)
    BY <2>1, <2>2, RefreshRequiredSpares
  <2>4. Tidy(c, e, t)
    BY <2>3, SparesTidy
  <2> QED BY <2>4 DEF t
<1>3. CASE fits /\ e.outcome # "refresh"
  <2>1. obs \in Observations
    BY <1>3, FieldTypes, ApplyProbeReportTyped DEF CoreInv
  <2>2. t.next \in {updated, PlanReadyState(ready, d).next}
    BY <1>3, SparesThen DEF ReduceProbeReported
  <2> HIDE DEF obs
  <2>3. /\ updated.phase = c.phase /\ updated.timers = c.timers
        /\ updated.cleanup = c.cleanup /\ updated.ledger = c.ledger
        /\ ready \in CoreStates /\ ready.phase = "Ready" /\ ready.timers = c.timers
        /\ ready.cleanup = c.cleanup /\ ready.ledger = c.ledger
    BY <2>1, EmptyValues, Phases DEF CoreInv, CoreStates
  <2> HIDE DEF updated, ready, t
  <2>4. Spares(c, updated) /\ Spares(c, ready)
    BY <2>3 DEF Spares
  <2>5. Spares(c, t.next)
    BY <2>2, <2>3, <2>4, PlanReadySpares, SparesThen
  <2>6. Tidy(c, e, t)
    BY <2>5, SparesTidy
  <2> QED BY <2>6 DEF t
<1> QED BY <1>1, <1>2, <1>3

\* ... and a plan, computed or failed.
LEMMA RenderPlanTidy ==
    ASSUME NEW c, CoreInv(c), IdleIsCold(c), NEW e \in Events
    PROVE  /\ e.type = "RenderPlanComputed" =>
                 Tidy(c, e, ReduceRenderPlanComputed(c, e))
           /\ e.type = "RenderPlanFailed" =>
                 Tidy(c, e, ReduceRenderPlanFailed(c, e))
<1> DEFINE n == [c EXCEPT !.phase = "Applying", !.proposal = e.proposal]
<1>1. Spares(c, n)
  BY DEF CoreInv, CoreStates, Spares
<1>2. ReduceRenderPlanComputed(c, e).next \in {c, n}
  BY DEF ReduceRenderPlanComputed, Stay
<1> HIDE DEF n
<1>3. Spares(c, ReduceRenderPlanComputed(c, e).next)
  BY <1>1, <1>2, SparesThen
<1>4. Spares(c, ReduceRenderPlanFailed(c, e).next)
  BY SparesThen, EnterRecoveringSpares DEF ReduceRenderPlanFailed, CoreInv
<1> QED BY <1>3, <1>4, SparesTidy

\* An apply, completed,
LEMMA ApplyCompletedTidy ==
    ASSUME NEW c, CoreInv(c), c.phase = "Applying", NEW e, e.type = "ApplyReported"
    PROVE  Tidy(c, e, ReduceApplyCompleted(c, e))
<1> DEFINE p       == c.proposal
           ready   == [c EXCEPT !.phase = "Ready", !.proposal = NoProposal,
                                !.ledger = Acknowledge(p.target)]
           c1      == AdvanceCleanupForProposal(ready, p.cleanup).next
           observe == IF /\ QueuedKinds(c1) = {}
                         /\ ~p.animate
                         /\ ExactBoundaryRefreshRequired(c1)
                      THEN StartBoundaryRefreshObservation(c1)
                      ELSE StartNextObservation(c1)
           o       == observe.next
           animate == IF p.animate THEN ScheduleTimerWithDelay(o, "Animation")
                                   ELSE Stay(o)
           t       == ReduceApplyCompleted(c, e)
<1>1. p \in Proposals
  BY DEF CoreInv
<1>2. /\ ready \in CoreStates /\ ready.phase = "Ready" /\ ready.timers = c.timers
      /\ ready.cleanup = c.cleanup
  BY <1>1, ProposalFields, EmptyValues, Phases DEF CoreInv, CoreStates
<1>3. t.next = animate.next
  BY DEF ReduceApplyCompleted
<1> HIDE DEF ready, t
<1>4. /\ c1 \in CoreStates /\ c1.phase = "Ready" /\ Readies(ready, c1)
  BY <1>1, <1>2, ProposalFields, AdvanceReadies, AdvanceCleanupTyped DEF TimersOnly
<1> HIDE DEF c1, p
<1>5. Spares(c1, o) /\ o \in CoreStates
  <2>1. CoreInv(c1) /\ AcceptsObservation(c1)
    BY <1>4 DEF CoreInv, AcceptsObservation
  <2> QED BY <1>4, <2>1, StartNextSpares, BoundarySpares, StartNextTyped,
             StartBoundaryRefreshTyped DEF IsTransition, CoreInv
<1> HIDE DEF observe
<1>6. Spares(c1, animate.next)
  <2> HIDE DEF o
  <2>1. Spares(o, animate.next)
    BY <1>5, ScheduleSpares, SparesThen DEF TimerIds
  <2> HIDE DEF animate
  <2> QED BY <1>5, <2>1, SparesThen
<1> HIDE DEF animate
<1>7. /\ IdleIsCold(t.next)
      /\ \/ t.next.timers["Cleanup"].armed
         \/ t.next.cleanup = c.cleanup /\ t.next.timers["Cleanup"] = c.timers["Cleanup"]
  BY <1>2, <1>3, <1>4, <1>6 DEF Spares, Readies, IdleIsCold
<1>8. Tidy(c, e, t)
  BY <1>7 DEF Tidy, Busy, CleanupOwed
<1> QED BY <1>8 DEF t

\* ... failed or degraded,
LEMMA ApplyNonSuccessTidy ==
    ASSUME NEW c, CoreInv(c), c.phase = "Applying", NEW e, e.type # "RenderCleanupApplied"
    PROVE  Tidy(c, e, ReduceApplyNonSuccess(c, e))
<1> DEFINE diverged == [c EXCEPT !.ledger = Diverged]
           b        == AdvanceCleanupForProposal(diverged, c.proposal.cleanup).next
           t        == ReduceApplyNonSuccess(c, e)
<1>1. /\ diverged \in CoreStates /\ diverged.timers = c.timers
      /\ diverged.cleanup = c.cleanup /\ diverged.phase = "Applying"
  BY EmptyValues DEF CoreInv, CoreStates
<1>2. t.next = EnterRecovering(b).next
  BY DEF ReduceApplyNonSuccess
<1> HIDE DEF diverged, t
<1>3. b \in CoreStates /\ b.phase = "Applying" /\ Readies(diverged, b)
  BY <1>1, ProposalFields, AdvanceReadies, AdvanceCleanupTyped DEF CoreInv, TimersOnly
<1> HIDE DEF b
<1>4. Spares(b, t.next)
  BY <1>2, <1>3, EnterRecoveringSpares
<1>5. /\ IdleIsCold(t.next)
      /\ \/ t.next.timers["Cleanup"].armed
         \/ t.next.cleanup = c.cleanup /\ t.next.timers["Cleanup"] = c.timers["Cleanup"]
  BY <1>1, <1>3, <1>4 DEF Spares, Readies, IdleIsCold
<1>6. Tidy(c, e, t)
  BY <1>5 DEF Tidy, Busy, CleanupOwed
<1> QED BY <1>6 DEF t

\* ... and any other failure.
LEMMA EffectFailedTidy ==
    ASSUME NEW c, CoreInv(c), IdleIsCold(c), NEW e, e.type = "EffectFailed"
    PROVE  Tidy(c, e, ReduceEffectFailed(c, e))
<1> DEFINE requeued == RequeueActiveDemand(c)
           cleared  == [requeued EXCEPT !.obs = NoObservation]
           t        == ReduceEffectFailed(c, e)
<1>1. CASE c.phase = "Applying" /\ e.id # 0 /\ c.proposal.id = e.id
  <2>1. t = ReduceApplyNonSuccess(c, e)
    BY <1>1 DEF ReduceEffectFailed
  <2> QED BY <1>1, <2>1, ApplyNonSuccessTidy
<1>2. CASE ~(c.phase = "Applying" /\ e.id # 0 /\ c.proposal.id = e.id)
  <2>1. t.next \in {c, EnterRecovering(requeued).next, EnterRecovering(cleared).next}
    BY <1>2, SparesThen DEF ReduceEffectFailed
  <2>2. requeued \in CoreStates /\ Spares(c, requeued)
    <3> DEFINE demand == ActiveDemand(c)
               queue  == [c.queue EXCEPT ![demand.kind] = demand.seq]
               n      == [c EXCEPT !.queue = queue]
    <3>1. requeued \in {c, n}
      BY DEF RequeueActiveDemand
    <3> HIDE DEF queue
    <3>2. Spares(c, n)
      BY DEF CoreInv, CoreStates, Spares
    <3> HIDE DEF n
    <3> QED BY <3>1, <3>2, SparesThen, RequeueTyped DEF CoreInv
  <2> HIDE DEF requeued, t
  <2>3. cleared \in CoreStates /\ Spares(requeued, cleared)
    BY <2>2, EmptyValues DEF CoreStates, Spares
  <2> HIDE DEF cleared
  <2>4. Spares(c, t.next)
    BY <2>1, <2>2, <2>3, EnterRecoveringSpares, SparesThen
  <2>5. Tidy(c, e, t)
    BY <2>4, SparesTidy
  <2> QED BY <2>5 DEF t
<1> QED BY <1>1, <1>2

\* An apply report.
LEMMA ApplyReportedTidy ==
    ASSUME NEW c, CoreInv(c), IdleIsCold(c), NEW e, e.type = "ApplyReported"
    PROVE  Tidy(c, e, ReduceApplyReported(c, e))
<1>1. Tidy(c, e, Stay(c))
  BY SparesThen, SparesTidy
<1> QED BY <1>1, ApplyCompletedTidy, ApplyNonSuccessTidy DEF ReduceApplyReported

\* What was hidden or torn down: more is to do, or the timer is armed for it.
LEMMA RenderCleanupAppliedTidy ==
    ASSUME NEW c, CoreInv(c), IdleIsCold(c), NEW e \in Events,
           e.type = "RenderCleanupApplied"
    PROVE  Tidy(c, e, ReduceRenderCleanupApplied(c, e))
<1> DEFINE k       == CleanupStateAfterApplied(c.cleanup, e.action)
           l       == LedgerAfterCleanup(c.ledger)
           applied == [c EXCEPT !.cleanup = k, !.ledger = l]
           dueNow  == \/ e.action = "SoftClearedNone"
                      \/ e.action = "NoProgress" /\ e.due
           t       == ReduceRenderCleanupApplied(c, e)
<1>1. k \in Cleanups /\ l \in Ledgers /\ dueNow \in BOOLEAN
  BY FieldTypes, EventFields, CleanupAppliedTyped, LedgerAfterCleanupTyped DEF CoreInv
<1>2. t = IF c.phase = "Idle" THEN Stay(c)
          ELSE IF applied.cleanup.quiesced THEN Stay(applied)
          ELSE EmitCleanupOrArm(applied, dueNow)
  BY DEF ReduceRenderCleanupApplied
<1> HIDE DEF k, l, dueNow
<1>3. applied \in CoreStates /\ applied.phase = c.phase
  BY <1>1 DEF CoreInv, CoreStates
<1> SUFFICES Tidy(c, e, t)
  OBVIOUS
<1> HIDE DEF applied, t
<1>4. CASE c.phase = "Idle"
  <2>1. t.next = c /\ ~CleanupOwed(c)
    BY <1>2, <1>4, SparesThen DEF IdleIsCold, CleanupOwed
  <2> QED BY <2>1, BusyTidy
<1>5. CASE c.phase # "Idle" /\ applied.cleanup.quiesced
  <2>1. t.next = applied /\ ~CleanupOwed(applied) /\ IdleIsCold(applied)
    BY <1>2, <1>3, <1>5, SparesThen DEF IdleIsCold, CleanupOwed
  <2> QED BY <2>1, BusyTidy
<1>6. CASE c.phase # "Idle" /\ ~applied.cleanup.quiesced
  <2>1. t = EmitCleanupOrArm(applied, dueNow) /\ IdleIsCold(applied)
    BY <1>2, <1>3, <1>6 DEF IdleIsCold
  <2> QED BY <1>1, <1>3, <2>1, EmitHands, BusyTidy
<1> QED BY <1>4, <1>5, <1>6

\* Resources that were retained are owed a cleanup, and it has its timer.
LEMMA RetainedResourcesTidy ==
    ASSUME NEW c, CoreInv(c), IdleIsCold(c), NEW e \in Events,
           e.type = "RetainedResourcesObserved"
    PROVE  Tidy(c, e, ReduceRetainedResourcesObserved(c, e))
<1> DEFINE hot   == c.cleanup.thermal = "Hot"
           k     == IF hot THEN c.cleanup
                    ELSE [c.cleanup EXCEPT !.thermal = "Cooling", !.pushed = FALSE]
           l     == LedgerAfterCleanup(c.ledger)
           next  == [c EXCEPT !.cleanup = k, !.ledger = l]
           due   == hot /\ e.due
           t     == ReduceRetainedResourcesObserved(c, e)
<1>1. k \in Cleanups /\ l \in Ledgers /\ due \in BOOLEAN
  BY FieldTypes, EventFields, CleanupValues, LedgerAfterCleanupTyped DEF CoreInv
<1>2. t = IF c.phase = "Idle" THEN Stay(c)
          ELSE IF k.quiesced \/ (hot /\ c.timers["Cleanup"].armed) THEN Stay(next)
          ELSE EmitCleanupOrArm(next, due)
  BY DEF ReduceRetainedResourcesObserved
<1> HIDE DEF k, l, due
<1>3. /\ next \in CoreStates /\ next.phase = c.phase /\ next.cleanup = k
      /\ next.timers = c.timers
  BY <1>1 DEF CoreInv, CoreStates
<1> SUFFICES Tidy(c, e, t)
  OBVIOUS
<1> HIDE DEF next, t, hot
<1>4. CASE c.phase = "Idle"
  <2>1. t.next = c
    BY <1>2, <1>4, SparesThen
  <2> QED BY <2>1, SparesThen, SparesTidy
<1>5. CASE c.phase # "Idle" /\ (k.quiesced \/ c.timers["Cleanup"].armed) /\ t = Stay(next)
  <2>1. t.next = next /\ IdleIsCold(next)
    BY <1>3, <1>5, SparesThen DEF IdleIsCold
  <2>2. CleanupOwed(next) => Busy(t)
    BY <1>3, <1>5, <2>1 DEF CleanupOwed, Busy
  <2> QED BY <2>1, <2>2, BusyTidy
<1>6. CASE c.phase # "Idle" /\ t = EmitCleanupOrArm(next, due)
  <2>1. IdleIsCold(next)
    BY <1>3, <1>6 DEF IdleIsCold
  <2> QED BY <1>1, <1>3, <1>6, <2>1, EmitHands, BusyTidy
<1> QED BY <1>2, <1>4, <1>5, <1>6

\* The ingress delay ends, or its timer is armed again.
LEMMA IngressSpares ==
    ASSUME NEW c, CoreInv(c)
    PROVE  /\ Spares(c, IngressDelayOver(c).next)
           /\ \A due \in BOOLEAN : Spares(c, IngressTimerSignal(c, due).next)
<1> DEFINE over  == [c EXCEPT !.delay = "none"]
           armed == [c EXCEPT !.delay = "armed"]
<1>1. /\ over \in CoreStates /\ Spares(c, over) /\ over.phase = c.phase
      /\ armed \in CoreStates /\ Spares(c, armed)
  BY DEF CoreInv, CoreStates, Delays, Spares
<1>2. IngressDelayOver(c) = IF AcceptsObservation(c) THEN StartNextObservation(over)
                            ELSE Stay(over)
  BY DEF IngressDelayOver
<1>3. ASSUME NEW due \in BOOLEAN
      PROVE  IngressTimerSignal(c, due)
               \in {Stay(c), ScheduleTimerWithDelay(armed, "Ingress"), IngressDelayOver(c)}
  BY DEF IngressTimerSignal
<1> HIDE DEF over, armed
<1>4. Spares(c, IngressDelayOver(c).next)
  BY <1>1, <1>2, StartNextSpares, SparesThen DEF AcceptsObservation
<1>5. Spares(c, ScheduleTimerWithDelay(armed, "Ingress").next)
  BY <1>1, ScheduleSpares, SparesThen DEF TimerIds
<1> QED BY <1>3, <1>4, <1>5, SparesThen

\* An animation tick and the end of a recovery.
LEMMA TickSpares ==
    ASSUME NEW c, CoreInv(c), NEW d \in Decisions
    PROVE  /\ Spares(c, AnimationTick(c, d).next)
           /\ Spares(c, SettleRecovery(c)) /\ SettleRecovery(c) \in CoreStates
<1>1. c \in CoreStates
  BY DEF CoreInv
<1>2. Spares(c, SettleRecovery(c))
  BY <1>1 DEF SettleRecovery, CoreStates, Spares
<1>3. SettleRecovery(c) \in CoreStates
  BY SettleRecoveryTyped DEF CoreInv
<1> QED BY <1>1, <1>2, <1>3, ObserveOrPlanSpares, BoundarySpares, SparesThen DEF AnimationTick

\* A timer that fires: cleanup's hands the cleanup on, the others leave it alone.
LEMMA TimerFiredTidy ==
    ASSUME NEW c, CoreInv(c), IdleIsCold(c), NEW e \in Events, NEW d \in Decisions,
           e.type = "TimerFired"
    PROVE  Tidy(c, e, ReduceTimerFired(c, e, d))
<1> DEFINE b == Disarm(c, e.timer)
           t == ReduceTimerFired(c, e, d)
<1>1. /\ e.timer \in TimerIds /\ e.due \in BOOLEAN
      /\ CoreInv(b) /\ b.cleanup = c.cleanup /\ b.phase = c.phase
  <2>1. e.timer \in TimerIds /\ e.due \in BOOLEAN
    BY EventFields
  <2>2. CoreInv(b)
    BY <2>1, DisarmTyped DEF CoreInv, SameProtocol
  <2>3. b.cleanup = c.cleanup /\ b.phase = c.phase
    BY DEF Disarm, CoreInv, CoreStates
  <2> QED BY <2>1, <2>2, <2>3
<1>2. t = IF ~IsActive(c, e) THEN Stay(c)
          ELSE CASE e.timer = "Animation" -> AnimationTick(b, d)
                 [] e.timer = "Ingress"   -> IngressTimerSignal(b, e.due)
                 [] e.timer = "Recovery"  ->
                       IF c.phase = "Recovering"
                       THEN ObserveOrPlan(SettleRecovery(b), d)
                       ELSE Stay(b)
                 [] e.timer = "Cleanup"   -> EmitCleanupOrArm(b, e.due)
  BY DEF ReduceTimerFired
<1>3. e.timer # "Cleanup" => Spares(c, b)
  BY <1>1, DisarmSpares DEF CoreInv
<1> SUFFICES Tidy(c, e, t)
  OBVIOUS
<1> HIDE DEF b, t
<1>4. CASE IsActive(c, e) /\ e.timer = "Cleanup"
  <2>1. t = EmitCleanupOrArm(b, e.due) /\ IdleIsCold(b)
    BY <1>1, <1>2, <1>4 DEF IdleIsCold
  <2> QED BY <1>1, <2>1, EmitHands, BusyTidy DEF CoreInv
<1>5. CASE ~(IsActive(c, e) /\ e.timer = "Cleanup")
  <2>1. CASE ~IsActive(c, e)
    BY <1>2, <2>1, SparesThen, SparesTidy
  <2>2. CASE IsActive(c, e) /\ e.timer # "Cleanup"
    <3>1. Spares(b, t.next)
      <4>1. CASE e.timer = "Animation"
        BY <1>1, <1>2, <2>2, <4>1, TickSpares
      <4>2. CASE e.timer = "Ingress"
        BY <1>1, <1>2, <2>2, <4>2, IngressSpares
      <4>3. CASE e.timer = "Recovery"
        BY <1>1, <1>2, <2>2, <4>3, TickSpares, ObserveOrPlanSpares, SparesThen
      <4> QED BY <1>1, <2>2, <4>1, <4>2, <4>3 DEF TimerIds
    <3>2. Spares(c, t.next)
      BY <1>3, <2>2, <3>1, SparesThen
    <3> QED BY <3>2, SparesTidy
  <2> QED BY <1>5, <2>1, <2>2
<1> QED BY <1>4, <1>5

\* A timer that is lost: cleanup stops, and is owed no longer.
LEMMA TimerLostTidy ==
    ASSUME NEW c, CoreInv(c), IdleIsCold(c), NEW e \in Events, e.type = "TimerLost"
    PROVE  Tidy(c, e, ReduceTimerLost(c, e))
<1> DEFINE b     == Disarm(c, e.timer)
           still == [b EXCEPT !.animating = FALSE]
           owed  == b.cleanup.thermal # "Cold"
           k     == [b.cleanup EXCEPT !.quiesced = owed]
           quiet == [b EXCEPT !.cleanup = k]
           f     == [type |-> "ApplyRenderCleanup", execution |-> "SoftClear"]
           t     == ReduceTimerLost(c, e)
<1>1. /\ e.timer \in TimerIds
      /\ CoreInv(b) /\ b.cleanup = c.cleanup /\ b.phase = c.phase
  <2>1. e.timer \in TimerIds /\ e.due \in BOOLEAN
    BY EventFields
  <2>2. CoreInv(b)
    BY <2>1, DisarmTyped DEF CoreInv, SameProtocol
  <2>3. b.cleanup = c.cleanup /\ b.phase = c.phase
    BY DEF Disarm, CoreInv, CoreStates
  <2> QED BY <2>1, <2>2, <2>3
<1>2. t = IF ~IsActive(c, e) THEN Stay(c)
          ELSE CASE e.timer = "Animation" ->
                       IF ~AcceptsObservation(c) THEN Stay(b)
                       ELSE [next |-> still, effects |-> <<f>>]
                 [] e.timer = "Ingress"   -> IngressDelayOver(b)
                 [] e.timer = "Recovery"  ->
                       Stay(IF c.phase = "Recovering" THEN SettleRecovery(b) ELSE b)
                 [] e.timer = "Cleanup"   ->
                       [next |-> quiet, effects |-> CleanupEffects(b, e.due)]
  BY DEF ReduceTimerLost
<1>3. e.timer # "Cleanup" => Spares(c, b)
  BY <1>1, DisarmSpares DEF CoreInv
<1> SUFFICES Tidy(c, e, t)
  OBVIOUS
<1> HIDE DEF b, t
<1>4. Spares(b, still) /\ Spares(b, SettleRecovery(b))
  <2>1. Spares(b, still)
    BY <1>1 DEF CoreInv, CoreStates, Spares
  <2>2. Spares(b, SettleRecovery(b))
    BY <1>1 DEF CoreInv, SettleRecovery, CoreStates, Spares
  <2> QED BY <2>1, <2>2
<1>5. quiet.cleanup = k /\ quiet.phase = b.phase
      /\ k.quiesced = owed /\ k.thermal = b.cleanup.thermal
  <2>1. b.cleanup \in Cleanups
    BY <1>1, FieldTypes DEF CoreInv
  <2>2. k.quiesced = owed /\ k.thermal = b.cleanup.thermal
    BY <2>1 DEF Cleanups
  <2> HIDE DEF k
  <2>3. quiet.cleanup = k /\ quiet.phase = b.phase
    BY <1>1 DEF CoreInv, CoreStates
  <2> QED BY <2>2, <2>3
<1> HIDE DEF still, quiet, k, f
<1>6. CASE IsActive(c, e) /\ e.timer = "Cleanup"
  <2>1. t.next = quiet
    BY <1>2, <1>6
  <2>2. ~CleanupOwed(t.next) /\ IdleIsCold(t.next)
    BY <1>1, <1>5, <2>1 DEF CleanupOwed, IdleIsCold
  <2> QED BY <2>2, BusyTidy
<1>7. CASE ~IsActive(c, e)
  BY <1>2, <1>7, SparesThen, SparesTidy
<1>8. CASE IsActive(c, e) /\ e.timer # "Cleanup"
  <2>1. t.next \in {b, still, IngressDelayOver(b).next, SettleRecovery(b)}
    BY <1>1, <1>2, <1>8, SparesThen DEF TimerIds
  <2>2. Spares(b, t.next)
    BY <1>1, <1>4, <2>1, IngressSpares, SparesThen
  <2>3. Spares(c, t.next)
    BY <1>3, <1>8, <2>2, SparesThen
  <2> QED BY <2>3, SparesTidy
<1> QED BY <1>6, <1>7, <1>8

\* Whatever is handled, cleanup that is owed is handed on or left alone.
THEOREM ReduceTidy ==
    ASSUME NEW c, CoreInv(c), IdleIsCold(c), NEW e \in Events, NEW d \in Decisions
    PROVE  Tidy(c, e, Reduce(c, e, d))
<1>1. e.type \in {"Initialize", "ExternalDemandQueued",
                  "ObservationBaseCollected", "ProbeReported",
                  "RenderPlanComputed", "RenderPlanFailed", "ApplyReported",
                  "RenderCleanupApplied", "RetainedResourcesObserved",
                  "EffectFailed", "TimerFired", "TimerLost"}
  BY DEF Events, EditorEvents, ShellEvents
<1> QED BY <1>1, InitializeTidy, ExternalDemandQueuedTidy,
           ObservationBaseCollectedTidy, ProbeReportedTidy, RenderPlanTidy,
           ApplyReportedTidy, RenderCleanupAppliedTidy, RetainedResourcesTidy,
           EffectFailedTidy, TimerFiredTidy, TimerLostTidy
        DEF Reduce

-----------------------------------------------------------------------------
(* The steps. *)

\* Handling an event keeps cleanup going,
LEMMA HandledCleanup ==
    ASSUME CleanupInv, TypeInv', NEW e, NEW d, Handled(e, d)
    PROVE  CleanupInv'
<1> DEFINE t == Reduce(core, e, d)
<1>1. CoreInv(core) /\ e \in Events /\ OrderInv /\ OrderInv'
  BY HandledNoneAhead DEF CleanupInv, OrderInv, TypeInv, Handled
<1>2. Tidy(core, e, t) /\ core' = t.next
  <2>1. d \in Decisions
    BY BoundsAssumption DEF Handled, PlanChoices
  <2> QED BY <1>1, <2>1, ReduceTidy DEF CleanupInv, Handled, Reduced
<1>3. /\ \A f \in Range(t.effects) : f.type = "ApplyRenderCleanup" => f \in PendingEffects'
      /\ PendingEffects \subseteq PendingEffects'
      /\ PendingEvents \subseteq {e} \cup PendingEvents'
  BY DEF Handled, Hands, IsStaged, ShellOnlyEffects
<1> HIDE DEF t
<1>4. ASSUME NEW x \in TimerIds, core'.timers[x].armed
      PROVE  TimerPending(x)'
  <2>1. CASE core'.timers[x] # Base(core, e).timers[x]
    BY <1>1, <2>1, HandledPending
  <2>2. CASE core'.timers[x] = Base(core, e).timers[x]
    <3>1. core'.timers[x] = core.timers[x]
      BY <1>1, <1>4, <2>2, BaseIs
    <3> QED BY <1>1, <1>4, <3>1, HandledPending DEF CleanupInv
  <2> QED BY <2>1, <2>2
<1>5. CleanupOwed(core') =>
         core'.timers["Cleanup"].armed \/ WorkPending' \/ ReportPending'
  <2>1. Busy(t) => core'.timers["Cleanup"].armed \/ WorkPending'
    BY <1>2, <1>3 DEF Busy, WorkPending
  <2>2. CleanupOwed(core) /\ ~core.timers["Cleanup"].armed /\ e.type # "RenderCleanupApplied"
           => WorkPending' \/ ReportPending'
    BY <1>3 DEF CleanupInv, WorkPending, ReportPending
  <2> QED BY <1>2, <2>1, <2>2 DEF Tidy
<1>6. IdleIsCold(core')
  BY <1>2 DEF Tidy
<1> QED BY <1>1, <1>4, <1>5, <1>6
        DEF CleanupInv, IdleIsCold, CleanupOwed, WorkPending, ReportPending

\* ... as do the steps of the shell.
LEMMA MovedCleanup ==
    ASSUME CleanupInv, TypeInv', Moves
    PROVE  CleanupInv'
<1>1. core' = core /\ OrderInv /\ OrderInv'
  BY DEF CleanupInv, OrderInv, Moves
<1>2. \A x \in TimerIds : core'.timers[x].armed => TimerPending(x)'
  BY <1>1, MovedPending DEF CleanupInv
<1>3. WorkPending => WorkPending' \/ ReportPending'
  BY DEF WorkPending, ReportPending, Moves
<1>4. ReportPending => ReportPending'
  BY DEF ReportPending, Moves
<1> QED BY <1>1, <1>2, <1>3, <1>4
        DEF CleanupInv, IdleIsCold, CleanupOwed, WorkPending, ReportPending

\* CleanupIsTimed: cleanup that is owed and not quiesced has a timer that is on
\* its way, or its work or its report is queued, where the drain does not fail.
THEOREM CleanupIsNeverForgotten ==
    ASSUME "observe" \notin FaultKinds
    PROVE  Spec => []CleanupIsTimed
<1>1. CleanupInv => CleanupIsTimed
  BY DEF CleanupInv, CleanupOwed, CleanupIsTimed, WorkPending, ReportPending, TimerIds
<1>2. CleanupInv /\ [Next]_vars => CleanupInv'
  <2> SUFFICES ASSUME CleanupInv, [Next]_vars PROVE CleanupInv'
    OBVIOUS
  <2>1. OrderInv /\ TypeInv'
    BY NextTyped DEF CleanupInv, OrderInv
  <2> QED BY <2>1, StepKinds, HandledCleanup, MovedCleanup
<1>3. Init => CleanupInv
  <2>1. Init => OrderInv
    BY InitTimers DEF RecoveryInv
  <2>2. Init => /\ core.phase = "Idle" /\ core.cleanup.thermal = "Cold"
                /\ \A x \in TimerIds : ~core.timers[x].armed
    BY DEF Init, InitialCore
  <2> QED BY <2>1, <2>2 DEF CleanupInv, IdleIsCold, CleanupOwed
<1> QED BY <1>1, <1>2, <1>3, PTL DEF Spec

=============================================================================
