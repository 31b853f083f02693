---------------------------- MODULE SmearCoreTypes ----------------------------
(***************************************************************************)
(* Type correctness of SmearCore, for every value of its constants: the    *)
(* core is always in a state the code declares reachable, and what the     *)
(* shell holds are effects and events of the declared shapes.              *)
(*                                                                         *)
(* The lemmas follow the reducer: one per helper, one per handler.  Those  *)
(* about timers and cleanup also say that the protocol fields are left     *)
(* alone (SameProtocol), which the proofs about demands build on.          *)
(***************************************************************************)
EXTENDS SmearCore, TLAPS, SequenceTheorems, WellFoundedInduction

\* A state of the reducer: typed, and applying a complete proposal.
CoreInv(c) ==
    /\ c \in CoreStates
    /\ c.phase = "Applying" => c.proposal \in Proposals

IsTransition(t) ==
    /\ CoreInv(t.next)
    /\ t.effects \in Seq(Effects)

SameProtocol(c, n) ==
    /\ n.phase = c.phase
    /\ n.demand = c.demand
    /\ n.obs = c.obs
    /\ n.proposal = c.proposal
    /\ n.queue = c.queue
    /\ n.seq = c.seq

\* A transition that touches timers and cleanup at most.
TimersOnly(c, t) ==
    /\ t.next \in CoreStates
    /\ SameProtocol(c, t.next)
    /\ t.effects \in Seq(Effects)

-----------------------------------------------------------------------------
(* States, effects and events. *)

\* The fields of a core state are typed one by one.
LEMMA FieldTypes ==
    ASSUME NEW c \in CoreStates
    PROVE  /\ c.phase \in PhaseKinds
           /\ c.demand \in Demands
           /\ c.obs \in Observations
           /\ c.refresh \in Refreshes
           /\ c.animating \in BOOLEAN
           /\ c.queue \in Queues
           /\ c.delay \in Delays
           /\ c.seq \in Nat
           /\ c.proposals \in Nat
           /\ c.timers \in Timers
           /\ c.cleanup \in Cleanups
           /\ c.ledger \in Ledgers
  BY DEF CoreStates

\* The phases the reducer enters are among those declared.
LEMMA Phases ==
    /\ "Primed" \in PhaseKinds /\ "Collecting" \in PhaseKinds
    /\ "Observing" \in PhaseKinds /\ "Ready" \in PhaseKinds
    /\ "Planning" \in PhaseKinds /\ "Applying" \in PhaseKinds
    /\ "Recovering" \in PhaseKinds /\ "Idle" \in PhaseKinds
  BY DEF PhaseKinds

\* The empty values of the core state are typed.
LEMMA EmptyValues ==
    /\ NoRefreshes \in Refreshes
    /\ NoDemand \in Demands
    /\ NoObservation \in Observations
    /\ NoProposal \in Proposals \cup [id : Nat]
    /\ Diverged \in Ledgers
<1>1. NoRefreshes \in Refreshes
  BY DEF NoRefreshes, Refreshes, MaxProbeRefreshRetries
<1>2. NoObservation \in Observations
  BY ConfigAssumption DEF NoObservation, Observations
<1> QED BY <1>1, <1>2 DEF NoDemand, Demands, NoProposal, Diverged, Ledgers, NoFrame

\* Sequences of effects are closed under the ways the handlers build them.
LEMMA EffectSequences ==
    /\ <<>> \in Seq(Effects)
    /\ \A f \in Effects : <<f>> \in Seq(Effects)
    /\ \A s, t \in Seq(Effects) : s \o t \in Seq(Effects)
  OBVIOUS

\* What an event of each type carries.
LEMMA EventFields ==
    ASSUME NEW e \in Events
    PROVE  /\ e.type = "ExternalDemandQueued" =>
                 e.kind \in ExternalKinds /\ e.presents \in BOOLEAN
           /\ e.type = "ObservationBaseCollected" =>
                 /\ e.id \in Nat /\ e.chunks \in 0 .. MaxChunks
                 /\ e.samples \in BOOLEAN /\ e.inexact \in BOOLEAN
           /\ e.type = "ProbeReported" =>
                 /\ e.id \in Nat /\ e.probe \in ProbeKinds
                 /\ e.outcome \in {"exact", "compatible", "failed", "refresh"}
           /\ e.type = "RenderPlanComputed" => e.proposal \in Proposals
           /\ e.type = "RenderPlanFailed" => e.id \in Nat
           /\ e.type = "ApplyReported" =>
                 e.id \in Nat /\ e.redraw \in BOOLEAN
           /\ e.type = "RenderCleanupApplied" =>
                 /\ e.due \in BOOLEAN
                 /\ e.action \in {"SoftClearedNone", "SoftClearedRetained",
                                  "Converged", "Progress", "NoProgress",
                                  "CleanupStalled"}
           /\ e.type = "RetainedResourcesObserved" => e.due \in BOOLEAN
           /\ e.type = "EffectFailed" => e.id \in Nat /\ e.redraw \in BOOLEAN
           /\ e.type \in {"TimerFired", "TimerLost"} =>
                 e.timer \in TimerIds /\ e.gen \in Nat /\ e.due \in BOOLEAN
  BY DEF Events, EditorEvents, ShellEvents

\* Whatever the shell reports, the reducer has a handler for.
LEMMA ShellEventsAreEvents == ShellEvents \subseteq Events
  BY DEF Events

-----------------------------------------------------------------------------
(* Timers and cleanup. *)

\* Arming a timer allocates a typed token and leaves the protocol alone.
LEMMA ScheduleTimerTyped ==
    ASSUME NEW c \in CoreStates, NEW t \in TimerIds
    PROVE  TimersOnly(c, ScheduleTimerWithDelay(c, t))
<1> DEFINE gen    == c.timers[t].gen + 1
           timers == [c.timers EXCEPT ![t] = [gen |-> gen, armed |-> TRUE]]
           f      == [type |-> "ScheduleTimer", timer |-> t, gen |-> gen]
<1>1. gen \in Nat /\ timers \in Timers
  BY FieldTypes DEF Timers
<1>2. ScheduleTimerWithDelay(c, t).next = [c EXCEPT !.timers = timers]
  BY DEF ScheduleTimerWithDelay
<1>3. [c EXCEPT !.timers = timers] \in CoreStates
  BY <1>1 DEF CoreStates
<1>4. SameProtocol(c, [c EXCEPT !.timers = timers])
  BY DEF CoreStates, SameProtocol
<1>5. f \in Effects
  BY <1>1 DEF Effects
<1>6. ScheduleTimerWithDelay(c, t).effects = <<f>>
  BY DEF ScheduleTimerWithDelay
<1> QED BY <1>2, <1>3, <1>4, <1>5, <1>6, EffectSequences DEF TimersOnly

\* ... and so does disarming one.
LEMMA DisarmTyped ==
    ASSUME NEW c \in CoreStates, NEW t \in TimerIds
    PROVE  Disarm(c, t) \in CoreStates /\ SameProtocol(c, Disarm(c, t))
<1> DEFINE timers == [c.timers EXCEPT ![t].armed = FALSE]
<1>1. timers \in Timers
  BY FieldTypes DEF Timers
<1>2. Disarm(c, t) = [c EXCEPT !.timers = timers]
  BY DEF Disarm
<1> QED BY <1>1, <1>2 DEF CoreStates, SameProtocol

\* A handler that ignores its event is a transition.
LEMMA StayTyped ==
    ASSUME NEW c \in CoreStates
    PROVE  TimersOnly(c, Stay(c))
  BY EffectSequences DEF TimersOnly, Stay, SameProtocol

\* Replacing the cleanup state disturbs no other field.
LEMMA CleanupUpdated ==
    ASSUME NEW c \in CoreStates, NEW k \in Cleanups
    PROVE  /\ [c EXCEPT !.cleanup = k] \in CoreStates
           /\ SameProtocol(c, [c EXCEPT !.cleanup = k])
           /\ [c EXCEPT !.cleanup = k].cleanup = k
           /\ [c EXCEPT !.cleanup = k].timers = c.timers
  BY DEF CoreStates, SameProtocol

\* The cleanup states the handlers build are typed.
LEMMA CleanupValues ==
    ASSUME NEW k \in Cleanups
    PROVE  /\ [k EXCEPT !.pushed = FALSE] \in Cleanups
           /\ [k EXCEPT !.pushed = TRUE] \in Cleanups
           /\ [k EXCEPT !.quiesced = FALSE] \in Cleanups
           /\ [k EXCEPT !.thermal = "Cooling", !.pushed = FALSE] \in Cleanups
           /\ \A q \in BOOLEAN : [k EXCEPT !.quiesced = q] \in Cleanups
           /\ [thermal |-> "Hot", quiesced |-> FALSE, pushed |-> FALSE] \in Cleanups
           /\ [thermal |-> "Cold", quiesced |-> FALSE, pushed |-> FALSE] \in Cleanups
  BY DEF Cleanups

\* Arming the cleanup timer leaves the protocol alone.
LEMMA ArmTyped ==
    ASSUME NEW c \in CoreStates
    PROVE  TimersOnly(c, ArmRenderCleanupTimer(c))
<1> DEFINE d == [c EXCEPT !.cleanup = [c.cleanup EXCEPT !.pushed = FALSE]]
<1>1. d \in CoreStates /\ SameProtocol(c, d)
  BY FieldTypes, CleanupValues, CleanupUpdated
<1>2. TimersOnly(d, ScheduleTimerWithDelay(d, "Cleanup"))
  BY <1>1, ScheduleTimerTyped DEF TimerIds
<1>3. CASE c.cleanup.quiesced \/ c.cleanup.thermal = "Cold"
  BY <1>3, StayTyped DEF ArmRenderCleanupTimer
<1>4. CASE ~(c.cleanup.quiesced \/ c.cleanup.thermal = "Cold")
  BY <1>1, <1>2, <1>4 DEF ArmRenderCleanupTimer, TimersOnly, SameProtocol
<1> QED BY <1>3, <1>4

\* ... whether or not one is armed already.
LEMMA ArmUnlessActiveTyped ==
    ASSUME NEW c \in CoreStates
    PROVE  TimersOnly(c, ArmUnlessActive(c))
<1> DEFINE d == [c EXCEPT !.cleanup = [c.cleanup EXCEPT !.pushed = TRUE]]
<1>1. d \in CoreStates /\ SameProtocol(c, d)
  BY FieldTypes, CleanupValues, CleanupUpdated
<1>2. CASE c.timers["Cleanup"].armed
  BY <1>1, <1>2, StayTyped DEF ArmUnlessActive, TimersOnly, SameProtocol
<1>3. CASE ~c.timers["Cleanup"].armed
  BY <1>3, ArmTyped DEF ArmUnlessActive
<1> QED BY <1>2, <1>3

\* Entering Hot leaves the protocol alone.
LEMMA EnterHotTyped ==
    ASSUME NEW c \in CoreStates
    PROVE  TimersOnly(c, EnterHotCleanup(c))
<1> DEFINE d == [c EXCEPT !.cleanup = [thermal |-> "Hot", quiesced |-> FALSE,
                                       pushed |-> FALSE]]
<1>1. d \in CoreStates /\ SameProtocol(c, d)
  BY FieldTypes, CleanupValues, CleanupUpdated
<1>2. TimersOnly(d, ArmUnlessActive(d))
  BY <1>1, ArmUnlessActiveTyped
<1> QED BY <1>1, <1>2 DEF EnterHotCleanup, TimersOnly, SameProtocol

\* A proposal's cleanup intent leaves the protocol alone.
LEMMA AdvanceCleanupTyped ==
    ASSUME NEW c \in CoreStates, NEW action \in {"NoAction", "Invalidate", "Schedule"}
    PROVE  TimersOnly(c, AdvanceCleanupForProposal(c, action))
<1> DEFINE d == [c EXCEPT !.cleanup = [c.cleanup EXCEPT !.quiesced = FALSE]]
<1>1. d \in CoreStates /\ SameProtocol(c, d)
  BY FieldTypes, CleanupValues, CleanupUpdated
<1>2. TimersOnly(d, Stay(d)) /\ TimersOnly(d, ArmRenderCleanupTimer(d))
  BY <1>1, StayTyped, ArmTyped
<1>3. TimersOnly(c, Stay(d)) /\ TimersOnly(c, ArmRenderCleanupTimer(d))
  BY <1>1, <1>2 DEF TimersOnly, SameProtocol
<1>4. TimersOnly(c, Stay(c)) /\ TimersOnly(c, EnterHotCleanup(c))
  BY StayTyped, EnterHotTyped
<1> QED BY <1>3, <1>4 DEF AdvanceCleanupForProposal

\* A cleanup callback leaves the protocol alone.
LEMMA EmitCleanupOrArmTyped ==
    ASSUME NEW c \in CoreStates, NEW due \in BOOLEAN
    PROVE  /\ CleanupEffects(c, due) \in Seq(Effects)
           /\ TimersOnly(c, EmitCleanupOrArm(c, due))
<1> DEFINE f == [type |-> "ApplyRenderCleanup",
                 execution |-> IF c.cleanup.thermal = "Hot" THEN "SoftClear"
                                                            ELSE "Compact"]
<1>1. f \in Effects
  BY DEF Effects
<1>2. CleanupEffects(c, due) \in Seq(Effects)
  BY <1>1, EffectSequences DEF CleanupEffects
<1>3. TimersOnly(c, ArmRenderCleanupTimer(c))
  BY ArmTyped
<1> QED BY <1>2, <1>3 DEF EmitCleanupOrArm, TimersOnly, SameProtocol

\* The cleanup state after a report is typed.
LEMMA CleanupAppliedTyped ==
    ASSUME NEW k \in Cleanups, NEW action
    PROVE  CleanupStateAfterApplied(k, action) \in Cleanups
  BY CleanupValues DEF CleanupStateAfterApplied

\* A transition of timers and cleanup alone keeps the core's invariant.
LEMMA TimersOnlyIsTransition ==
    ASSUME NEW c, NEW t, CoreInv(c), TimersOnly(c, t)
    PROVE  IsTransition(t)
  BY DEF CoreInv, TimersOnly, SameProtocol, IsTransition

-----------------------------------------------------------------------------
(* Observation requests. *)

\* The oldest queued kind exists whenever anything is queued.
LEMMA OldestKindExists ==
    ASSUME NEW c \in CoreStates, QueuedKinds(c) # {}
    PROVE  \E k \in QueuedKinds(c) :
              \A j \in QueuedKinds(c) : c.queue[k] <= c.queue[j]
<1> DEFINE Seqs == {c.queue[k] : k \in QueuedKinds(c)}
<1>1. \A k \in QueuedKinds(c) : k \in DemandKinds /\ c.queue[k] \in Nat
  BY FieldTypes DEF QueuedKinds, Queues
<1>2. Seqs \in SUBSET Nat /\ Seqs # {}
  BY <1>1
<1>3. PICK n \in Seqs : \A m \in Seqs : n <= m
  <2> DEFINE Less == OpToRel(<, Nat)
  <2>1. \A m, n \in Nat : m < n => <<m, n>> \in Less
    BY DEF OpToRel
  <2>2. IsWellFoundedOn(Less, Nat)
    BY NatLessThanWellFounded
  <2> HIDE DEF Seqs, Less
  <2>3. PICK n \in Seqs : \A m \in Seqs : <<m, n>> \notin Less
    BY <1>2, <2>2, WFMin
  <2>4. \A m \in Seqs : ~(m < n)
    BY <1>2, <2>1, <2>3
  <2>5. \A m \in Seqs : n <= m
    BY <1>2, <2>4
  <2> QED BY <2>5
<1> QED BY <1>3

\* Starting an observation never reaches `unreachable!` from an accepting phase.
LEMMA EnterObservingRequestTyped ==
    ASSUME NEW c \in CoreStates, AcceptsObservation(c), NEW d \in Demands
    PROVE  /\ IsTransition(EnterObservingRequest(c, d))
           /\ EnterObservingRequest(c, d).next.phase = "Collecting"
           /\ EnterObservingRequest(c, d).next.demand = d
           /\ EnterObservingRequest(c, d).next.queue = c.queue
           /\ EnterObservingRequest(c, d).next.seq = c.seq
<1> DEFINE n == [c EXCEPT !.phase = "Collecting", !.demand = d,
                          !.refresh = NoRefreshes]
           f == RequestObservationBase(d)
<1>1. /\ n \in CoreStates
      /\ n.phase = "Collecting" /\ n.demand = d
      /\ n.queue = c.queue /\ n.seq = c.seq
  BY EmptyValues, Phases DEF CoreStates
<1>2. f \in Effects
  BY DEF RequestObservationBase, Effects, Demands
<1>3. /\ EnterObservingRequest(c, d).next = n
      /\ EnterObservingRequest(c, d).effects = <<f>>
  BY DEF EnterObservingRequest
<1> QED BY <1>1, <1>2, <1>3, EffectSequences DEF IsTransition, CoreInv

\* ... in particular when the oldest queued demand starts,
LEMMA StartNextTyped ==
    ASSUME NEW c, CoreInv(c), AcceptsObservation(c)
    PROVE  IsTransition(StartNextObservation(c))
<1>1. CASE QueuedKinds(c) = {}
  BY <1>1, StayTyped, TimersOnlyIsTransition DEF StartNextObservation, CoreInv
<1>2. CASE QueuedKinds(c) # {}
  <2> DEFINE k == CHOOSE k \in QueuedKinds(c) :
                     \A j \in QueuedKinds(c) : c.queue[k] <= c.queue[j]
             queue == [c.queue EXCEPT ![k] = 0]
             n == [c EXCEPT !.queue = queue, !.delay = "none"]
             d == [kind |-> k, seq |-> c.queue[k]]
  <2>1. k \in DemandKinds
    BY <1>2, OldestKindExists DEF QueuedKinds, CoreInv
  <2>2. queue \in Queues /\ c.queue[k] \in Nat
    BY <2>1, FieldTypes DEF Queues, CoreInv
  <2>3. n \in CoreStates /\ AcceptsObservation(n)
    BY <2>2 DEF CoreInv, CoreStates, AcceptsObservation, Delays
  <2>4. d \in Demands
    BY <2>1, <2>2 DEF Demands
  <2>5. StartNextObservation(c) = EnterObservingRequest(n, d)
    BY <1>2 DEF StartNextObservation
  <2> QED BY <2>3, <2>4, <2>5, EnterObservingRequestTyped
<1> QED BY <1>1, <1>2

\* ... when a boundary refresh starts,
LEMMA StartBoundaryRefreshTyped ==
    ASSUME NEW c \in CoreStates, AcceptsObservation(c)
    PROVE  IsTransition(StartBoundaryRefreshObservation(c))
<1> DEFINE n == [c EXCEPT !.seq = c.seq + 1]
           d == [kind |-> "BoundaryRefresh", seq |-> c.seq + 1]
<1>1. n \in CoreStates /\ AcceptsObservation(n) /\ d \in Demands
  BY FieldTypes DEF CoreStates, AcceptsObservation, Demands, DemandKinds
<1>2. StartBoundaryRefreshObservation(c) = EnterObservingRequest(n, d)
  BY DEF StartBoundaryRefreshObservation
<1> QED BY <1>1, <1>2, EnterObservingRequestTyped

\* ... and planning is entered from Ready only.
LEMMA PlanReadyTyped ==
    ASSUME NEW c, CoreInv(c), NEW d \in Decisions
    PROVE  IsTransition(PlanReadyState(c, d))
<1> DEFINE id == c.proposals + 1
           n  == [c EXCEPT !.phase = "Planning", !.proposals = id,
                           !.proposal = [id |-> id], !.animating = d.running]
           f  == [type |-> "RequestRenderPlan", id |-> id,
                  basis |-> TrustedAcknowledged(c.ledger), decision |-> d]
<1>1. id \in Nat /\ d.running \in BOOLEAN
  BY FieldTypes DEF CoreInv, Decisions
<1>2. n \in CoreStates /\ n.phase = "Planning"
  BY <1>1, Phases DEF CoreInv, CoreStates
<1>3. TrustedAcknowledged(c.ledger) \in Nat
  BY FieldTypes DEF CoreInv, TrustedAcknowledged, Ledgers, NoFrame
<1>4. f \in Effects
  BY <1>1, <1>3 DEF Effects
<1>5. CASE c.phase # "Ready"
  BY <1>5, StayTyped, TimersOnlyIsTransition DEF PlanReadyState, CoreInv
<1>6. CASE c.phase = "Ready"
  <2>1. PlanReadyState(c, d).next = n /\ PlanReadyState(c, d).effects = <<f>>
    BY <1>6 DEF PlanReadyState
  <2> QED BY <2>1, <1>2, <1>4, EffectSequences DEF IsTransition, CoreInv
<1> QED BY <1>5, <1>6

\* Observing or planning next is a transition in every phase.
LEMMA ObserveOrPlanTyped ==
    ASSUME NEW c, CoreInv(c), NEW d \in Decisions
    PROVE  IsTransition(ObserveOrPlan(c, d))
  BY StayTyped, TimersOnlyIsTransition, StartNextTyped, PlanReadyTyped
  DEF ObserveOrPlan, CoreInv

\* The probes of an observation are typed requests.
LEMMA NextPendingProbeTyped ==
    ASSUME NEW obs \in Observations
    PROVE  NextPendingProbeEffects(obs) \in Seq(Effects)
<1> DEFINE f(p) == [type |-> "RequestProbe", id |-> obs.seq, probe |-> p]
<1>1. f("CursorColor") \in Effects /\ f("Background") \in Effects
  BY DEF Effects, Observations, ProbeKinds
<1> QED BY <1>1, EffectSequences DEF NextPendingProbeEffects

-----------------------------------------------------------------------------
(* Handlers: ingress and observation. *)

\* Initialize.
LEMMA InitializeTyped ==
    ASSUME NEW c, CoreInv(c)
    PROVE  IsTransition(ReduceInitialize(c))
<1>1. CoreInv([c EXCEPT !.phase = "Primed"])
  BY Phases DEF CoreInv, CoreStates
<1> QED BY <1>1, EffectSequences DEF ReduceInitialize, Stay, IsTransition

\* Holding a cursor demand back.
LEMMA DelayedCursorIngressTyped ==
    ASSUME NEW c, CoreInv(c)
    PROVE  IsTransition(DelayedCursorIngress(c))
<1>1. \A x \in Delays : CoreInv([c EXCEPT !.delay = x])
  BY DEF CoreInv, CoreStates
<1>2. "extended" \in Delays /\ "armed" \in Delays /\ "Ingress" \in TimerIds
  BY DEF Delays, TimerIds
<1> DEFINE armed    == [c EXCEPT !.delay = "armed"]
           extended == [c EXCEPT !.delay = "extended"]
<1>3. IsTransition(ScheduleTimerWithDelay(armed, "Ingress"))
  BY <1>1, <1>2, ScheduleTimerTyped, TimersOnlyIsTransition DEF CoreInv
<1>4. IsTransition(Stay(extended))
  BY <1>1, <1>2, StayTyped, TimersOnlyIsTransition DEF CoreInv
<1> QED BY <1>3, <1>4 DEF DelayedCursorIngress

\* Queueing a demand, with its cleanup and its start.
LEMMA QueueExternalDemandTyped ==
    ASSUME NEW c, CoreInv(c), NEW kind \in ExternalKinds
    PROVE  IsTransition(QueueExternalDemand(c, kind))
<1> DEFINE queue  == [c.queue EXCEPT ![kind] = c.seq + 1]
           queued == [c EXCEPT !.seq = c.seq + 1, !.queue = queue]
           hot    == EnterHotCleanup(queued)
           start  == IF ~AcceptsObservation(c) THEN Stay(hot.next)
                     ELSE IF kind = CursorKind /\ DelaysCursor
                          THEN DelayedCursorIngress(hot.next)
                          ELSE StartNextObservation(hot.next)
<1>1. queue \in Queues /\ c.seq + 1 \in Nat
  BY FieldTypes DEF CoreInv, Queues, DemandKinds
<1>2. CoreInv(queued) /\ queued.phase = c.phase
  <2> HIDE DEF queue
  <2> QED BY <1>1 DEF CoreInv, CoreStates
<1> HIDE DEF queued
<1>3. TimersOnly(queued, hot)
  BY <1>2, EnterHotTyped DEF CoreInv
<1>4. CoreInv(hot.next) /\ (AcceptsObservation(c) => AcceptsObservation(hot.next))
  BY <1>2, <1>3, TimersOnlyIsTransition
  DEF IsTransition, TimersOnly, SameProtocol, AcceptsObservation
<1> HIDE DEF hot
<1>5. IsTransition(start)
  BY <1>4, StayTyped, TimersOnlyIsTransition, DelayedCursorIngressTyped,
     StartNextTyped DEF CoreInv
<1>6. hot.effects \in Seq(Effects)
  BY <1>3 DEF TimersOnly
<1>7. start.effects \o hot.effects \in Seq(Effects)
  BY <1>5, <1>6, EffectSequences DEF IsTransition
<1>8. QueueExternalDemand(c, kind)
        = [next |-> start.next, effects |-> start.effects \o hot.effects]
  BY DEF QueueExternalDemand, hot, queued, queue
<1> HIDE DEF start
<1> QED BY <1>5, <1>7, <1>8 DEF IsTransition

\* The ingress handler.
LEMMA ExternalDemandQueuedTyped ==
    ASSUME NEW c, CoreInv(c), NEW e \in Events, e.type = "ExternalDemandQueued"
    PROVE  IsTransition(ReduceExternalDemandQueued(c, e))
<1> DEFINE t == QueueExternalDemand(c, e.kind)
           p == PresentationEffects(c, e)
<1>1. IsTransition(t)
  BY EventFields, QueueExternalDemandTyped
<1>2. p \in Seq(Effects)
  <2>1. /\ [type |-> "ApplyIngressCursorPresentation"] \in Effects
        /\ [type |-> "RecordMetric"] \in Effects
    BY DEF Effects
  <2> QED BY <2>1 DEF PresentationEffects
<1> HIDE DEF p
<1>3. p \o t.effects \in Seq(Effects)
  BY <1>1, <1>2, EffectSequences DEF IsTransition
<1>4. CASE c.phase = "Idle"
  BY <1>4, StayTyped, TimersOnlyIsTransition DEF ReduceExternalDemandQueued, CoreInv
<1>5. CASE c.phase # "Idle"
  <2>1. ReduceExternalDemandQueued(c, e) = [next |-> t.next, effects |-> p \o t.effects]
    BY <1>5 DEF ReduceExternalDemandQueued, p
  <2> HIDE DEF t
  <2> QED BY <2>1, <1>1, <1>3 DEF IsTransition
<1> QED BY <1>4, <1>5

\* The handler of an observation base.
LEMMA ObservationBaseCollectedTyped ==
    ASSUME NEW c, CoreInv(c), NEW d \in Decisions,
           NEW e \in Events, e.type = "ObservationBaseCollected"
    PROVE  IsTransition(ReduceObservationBaseCollected(c, e, d))
<1> DEFINE obs  == [kind |-> c.demand.kind, seq |-> c.demand.seq,
                    color |-> IF SamplesCursorColor /\ e.samples
                              THEN "pending" ELSE "done",
                    chunks |-> e.chunks, inexact |-> e.inexact]
           base      == [c EXCEPT !.obs = obs, !.demand = NoDemand]
           observing == [base EXCEPT !.phase = "Observing"]
           ready     == [base EXCEPT !.phase = "Ready", !.refresh = NoRefreshes]
           probes    == NextPendingProbeEffects(obs)
<1>1. obs \in Observations
  BY FieldTypes, EventFields DEF CoreInv, Observations, Demands
<1> HIDE DEF obs
<1>2. CoreInv(observing) /\ CoreInv(ready)
  BY <1>1, EmptyValues, Phases DEF CoreInv, CoreStates
<1>3. probes \in Seq(Effects)
  BY <1>1, NextPendingProbeTyped
<1>4. IsTransition(Stay(c)) /\ IsTransition(PlanReadyState(ready, d))
  BY <1>2, StayTyped, TimersOnlyIsTransition, PlanReadyTyped DEF CoreInv
<1>5. ReduceObservationBaseCollected(c, e, d)
        \in {Stay(c), [next |-> observing, effects |-> probes],
             PlanReadyState(ready, d)}
  BY DEF ReduceObservationBaseCollected, obs
<1> HIDE DEF base, observing, ready, probes
<1> QED BY <1>2, <1>3, <1>4, <1>5 DEF IsTransition

\* The retry of an outdated observation.
LEMMA RefreshRequiredTyped ==
    ASSUME NEW c, CoreInv(c), NEW p \in ProbeKinds, NEW d \in Decisions
    PROVE  IsTransition(ReduceRefreshRequired(c, p, d))
<1> DEFINE primed == [c EXCEPT !.phase = "Primed", !.obs = NoObservation,
                               !.refresh = NoRefreshes]
           demand  == ActiveDemand(c)
           refresh == [c.refresh EXCEPT ![p] = c.refresh[p] + 1]
           again   == [c EXCEPT !.phase = "Collecting", !.demand = demand,
                                !.refresh = refresh]
           f       == RequestObservationBase(demand)
<1>1. CoreInv(primed)
  BY EmptyValues, Phases DEF CoreInv, CoreStates
<1>2. demand \in Demands /\ f \in Effects
  <2>1. demand \in Demands
    BY FieldTypes, EmptyValues DEF CoreInv, ActiveDemand, Demands, Observations
  <2> HIDE DEF demand
  <2> QED BY <2>1 DEF Demands, RequestObservationBase, Effects
<1>3. c.refresh[p] # MaxProbeRefreshRetries => refresh \in Refreshes
  BY FieldTypes DEF CoreInv, Refreshes, MaxProbeRefreshRetries
<1> HIDE DEF demand, refresh
<1>4. refresh \in Refreshes => CoreInv(again)
  BY <1>2, Phases DEF CoreInv, CoreStates
<1>5. CASE c.phase # "Observing"
  BY <1>5, StayTyped, TimersOnlyIsTransition DEF ReduceRefreshRequired, CoreInv
<1>6. CASE c.phase = "Observing" /\ c.refresh[p] = MaxProbeRefreshRetries
  BY <1>1, <1>6, ObserveOrPlanTyped DEF ReduceRefreshRequired
<1>7. CASE c.phase = "Observing" /\ c.refresh[p] # MaxProbeRefreshRetries
  <2>1. /\ ReduceRefreshRequired(c, p, d).next = again
        /\ ReduceRefreshRequired(c, p, d).effects = <<f>>
    BY <1>7 DEF ReduceRefreshRequired, demand, refresh
  <2> QED BY <2>1, <1>2, <1>3, <1>4, <1>7, EffectSequences DEF IsTransition
<1> QED BY <1>5, <1>6, <1>7

\* A report only ever shrinks the work an observation waits for.
LEMMA ApplyProbeReportTyped ==
    ASSUME NEW obs \in Observations, NEW e \in Events, e.type = "ProbeReported",
           AcceptsProbeReport(obs, e), e.outcome # "refresh"
    PROVE  /\ ApplyProbeReport(obs, e) \in Observations
           /\ ApplyProbeReport(obs, e).kind = obs.kind
           /\ ApplyProbeReport(obs, e).seq = obs.seq
<1>1. CASE e.probe = "CursorColor"
  <2> DEFINE x == obs.inexact \/ e.outcome = "compatible"
  <2>1. x \in BOOLEAN /\ ApplyProbeReport(obs, e)
                           = [obs EXCEPT !.color = "done", !.inexact = x]
    BY <1>1 DEF ApplyProbeReport, Observations
  <2> HIDE DEF x
  <2> QED BY <2>1 DEF Observations
<1>2. CASE e.probe # "CursorColor"
  <2> DEFINE n == IF e.outcome = "failed" THEN 0 ELSE obs.chunks - 1
  <2>1. obs.chunks > 0
    BY <1>2 DEF AcceptsProbeReport
  <2>2. n \in 0 .. MaxChunks
    BY <2>1, ConfigAssumption DEF Observations
  <2>3. ApplyProbeReport(obs, e) = [obs EXCEPT !.chunks = n]
    BY <1>2 DEF ApplyProbeReport
  <2> HIDE DEF n
  <2> QED BY <2>2, <2>3 DEF Observations
<1> QED BY <1>1, <1>2

\* The handler of a probe report.
LEMMA ProbeReportedTyped ==
    ASSUME NEW c, CoreInv(c), NEW d \in Decisions,
           NEW e \in Events, e.type = "ProbeReported"
    PROVE  IsTransition(ReduceProbeReported(c, e, d))
<1> DEFINE obs     == ApplyProbeReport(c.obs, e)
           updated == [c EXCEPT !.obs = obs]
           ready   == [updated EXCEPT !.phase = "Ready", !.refresh = NoRefreshes]
           probes  == NextPendingProbeEffects(updated.obs)
<1>1. IsTransition(Stay(c)) /\ IsTransition(ReduceRefreshRequired(c, e.probe, d))
  BY StayTyped, TimersOnlyIsTransition, RefreshRequiredTyped, EventFields
  DEF CoreInv
<1>2. CASE ~AcceptsProbeReport(c.obs, e) \/ e.outcome = "refresh"
  BY <1>1, <1>2 DEF ReduceProbeReported
<1>3. CASE AcceptsProbeReport(c.obs, e) /\ e.outcome # "refresh"
  <2>1. obs \in Observations
    BY <1>3, FieldTypes, ApplyProbeReportTyped DEF CoreInv
  <2> HIDE DEF obs
  <2>2. CoreInv(updated) /\ CoreInv(ready) /\ updated.obs = obs
    BY <2>1, EmptyValues, Phases DEF CoreInv, CoreStates
  <2>3. probes \in Seq(Effects)
    BY <2>1, <2>2, NextPendingProbeTyped
  <2>4. IsTransition(Stay(updated)) /\ IsTransition(PlanReadyState(ready, d))
    BY <2>2, StayTyped, TimersOnlyIsTransition, PlanReadyTyped DEF CoreInv
  <2>5. ReduceProbeReported(c, e, d)
          \in {Stay(c), [next |-> updated, effects |-> probes],
               PlanReadyState(ready, d), Stay(updated)}
    BY <1>3 DEF ReduceProbeReported, obs
  <2> HIDE DEF updated, ready, probes
  <2> QED BY <1>1, <2>2, <2>3, <2>4, <2>5 DEF IsTransition
<1> QED BY <1>2, <1>3

-----------------------------------------------------------------------------
(* Handlers: render plan, apply, cleanup reports and failures. *)

\* Recovery is entered from any phase.
LEMMA EnterRecoveringTyped ==
    ASSUME NEW c, CoreInv(c)
    PROVE  /\ IsTransition(EnterRecovering(c))
           /\ EnterRecovering(c).next.phase = "Recovering"
           /\ EnterRecovering(c).next.demand = NoDemand
           /\ EnterRecovering(c).next.obs = c.obs
           /\ EnterRecovering(c).next.queue = c.queue
           /\ EnterRecovering(c).next.seq = c.seq
<1> DEFINE n == [c EXCEPT !.phase = "Recovering", !.demand = NoDemand,
                          !.refresh = NoRefreshes, !.proposal = NoProposal]
<1>1. /\ CoreInv(n)
      /\ n.phase = "Recovering" /\ n.demand = NoDemand /\ n.obs = c.obs
      /\ n.queue = c.queue /\ n.seq = c.seq
  BY EmptyValues, Phases DEF CoreInv, CoreStates
<1>2. EnterRecovering(c) = ScheduleTimerWithDelay(n, "Recovery")
  BY DEF EnterRecovering
<1> HIDE DEF n
<1>3. TimersOnly(n, ScheduleTimerWithDelay(n, "Recovery"))
  BY <1>1, ScheduleTimerTyped DEF CoreInv, TimerIds
<1> QED BY <1>1, <1>2, <1>3, TimersOnlyIsTransition DEF TimersOnly, SameProtocol

\* The handlers of a plan, computed or failed.
LEMMA RenderPlanTyped ==
    ASSUME NEW c, CoreInv(c), NEW e \in Events
    PROVE  /\ e.type = "RenderPlanComputed" =>
                 IsTransition(ReduceRenderPlanComputed(c, e))
           /\ e.type = "RenderPlanFailed" =>
                 IsTransition(ReduceRenderPlanFailed(c, e))
<1>1. ASSUME e.type = "RenderPlanComputed"
      PROVE  IsTransition(ReduceRenderPlanComputed(c, e))
  <2> DEFINE n == [c EXCEPT !.phase = "Applying", !.proposal = e.proposal]
             f == [type |-> "ApplyProposal", proposal |-> e.proposal]
  <2>1. e.proposal \in Proposals
    BY <1>1, EventFields
  <2>2. CoreInv(n)
    BY <2>1, Phases DEF CoreInv, CoreStates
  <2>3. f \in Effects
    BY <2>1 DEF Effects
  <2>4. IsTransition(Stay(c))
    BY StayTyped, TimersOnlyIsTransition DEF CoreInv
  <2>5. ReduceRenderPlanComputed(c, e)
          \in {Stay(c), [next |-> n, effects |-> <<f>>]}
    BY DEF ReduceRenderPlanComputed
  <2> HIDE DEF n, f
  <2>6. <<f>> \in Seq(Effects)
    BY <2>3, EffectSequences
  <2>7. IsTransition([next |-> n, effects |-> <<f>>])
    BY <2>2, <2>6 DEF IsTransition
  <2> QED BY <2>4, <2>5, <2>7
<1>2. IsTransition(ReduceRenderPlanFailed(c, e))
  BY StayTyped, TimersOnlyIsTransition, EnterRecoveringTyped
  DEF ReduceRenderPlanFailed, CoreInv
<1> QED BY <1>1, <1>2

\* The redraw an apply may ask for is an effect.
LEMMA RedrawTyped ==
    ASSUME NEW e
    PROVE  RedrawEffects(e) \in Seq(Effects)
<1>1. [type |-> "RedrawCmdline"] \in Effects
  BY DEF Effects
<1> QED BY <1>1, EffectSequences DEF RedrawEffects

\* What a proposal carries.
LEMMA ProposalFields ==
    ASSUME NEW p \in Proposals
    PROVE  /\ p.cleanup \in {"NoAction", "Invalidate", "Schedule"}
           /\ p.target \in Nat
           /\ Acknowledge(p.target) \in Ledgers
  BY DEF Proposals, Acknowledge, Ledgers

\* The handler of a completed apply.
LEMMA ApplyCompletedTyped ==
    ASSUME NEW c, CoreInv(c), c.phase = "Applying", NEW e
    PROVE  IsTransition(ReduceApplyCompleted(c, e))
<1> DEFINE p       == c.proposal
           ready   == [c EXCEPT !.phase = "Ready", !.proposal = NoProposal,
                                !.ledger = Acknowledge(p.target)]
           cleanup == AdvanceCleanupForProposal(ready, p.cleanup)
           c1      == cleanup.next
           observe == IF /\ QueuedKinds(c1) = {}
                         /\ ~p.animate
                         /\ ExactBoundaryRefreshRequired(c1)
                      THEN StartBoundaryRefreshObservation(c1)
                      ELSE StartNextObservation(c1)
           animate == IF p.animate
                      THEN ScheduleTimerWithDelay(observe.next, "Animation")
                      ELSE Stay(observe.next)
<1>1. p \in Proposals
  BY DEF CoreInv
<1>2. CoreInv(ready) /\ ready.phase = "Ready"
  BY <1>1, ProposalFields, EmptyValues, Phases DEF CoreInv, CoreStates
<1>9. ReduceApplyCompleted(c, e)
        = [next    |-> animate.next,
           effects |-> cleanup.effects \o RedrawEffects(e) \o observe.effects
                       \o animate.effects]
  BY DEF ReduceApplyCompleted
<1> HIDE DEF p, ready
<1>3. TimersOnly(ready, cleanup)
  BY <1>1, <1>2, ProposalFields, AdvanceCleanupTyped DEF CoreInv
<1>4. CoreInv(c1) /\ AcceptsObservation(c1)
  BY <1>2, <1>3, TimersOnlyIsTransition
  DEF IsTransition, TimersOnly, SameProtocol, AcceptsObservation
<1>5. cleanup.effects \in Seq(Effects)
  BY <1>3 DEF TimersOnly
<1> HIDE DEF cleanup, c1
<1>6. IsTransition(observe)
  BY <1>4, StartNextTyped, StartBoundaryRefreshTyped DEF CoreInv
<1> HIDE DEF observe
<1>7. IsTransition(animate)
  BY <1>6, StayTyped, ScheduleTimerTyped, TimersOnlyIsTransition
  DEF IsTransition, CoreInv, TimerIds
<1> HIDE DEF animate
<1>8. cleanup.effects \o RedrawEffects(e) \o observe.effects \o animate.effects
        \in Seq(Effects)
  BY <1>5, <1>6, <1>7, RedrawTyped, EffectSequences DEF IsTransition
<1> QED BY <1>7, <1>8, <1>9 DEF IsTransition

\* The handler of a degraded or failed apply.
LEMMA ApplyNonSuccessTyped ==
    ASSUME NEW c, CoreInv(c), c.phase = "Applying", NEW e
    PROVE  IsTransition(ReduceApplyNonSuccess(c, e))
<1> DEFINE diverged == [c EXCEPT !.ledger = Diverged]
           cleanup  == AdvanceCleanupForProposal(diverged, c.proposal.cleanup)
           recover  == EnterRecovering(cleanup.next)
<1>1. CoreInv(diverged)
  BY EmptyValues DEF CoreInv, CoreStates
<1>2. ReduceApplyNonSuccess(c, e)
        = [next    |-> recover.next,
           effects |-> cleanup.effects \o RedrawEffects(e) \o recover.effects]
  BY DEF ReduceApplyNonSuccess
<1> HIDE DEF diverged
<1>3. TimersOnly(diverged, cleanup)
  BY <1>1, ProposalFields, AdvanceCleanupTyped DEF CoreInv
<1>4. CoreInv(cleanup.next) /\ cleanup.effects \in Seq(Effects)
  BY <1>1, <1>3, TimersOnlyIsTransition DEF IsTransition
<1> HIDE DEF cleanup
<1>5. IsTransition(recover)
  BY <1>4, EnterRecoveringTyped
<1> HIDE DEF recover
<1>6. cleanup.effects \o RedrawEffects(e) \o recover.effects \in Seq(Effects)
  BY <1>4, <1>5, RedrawTyped, EffectSequences DEF IsTransition
<1> QED BY <1>2, <1>5, <1>6 DEF IsTransition

\* The handler of every apply report.
LEMMA ApplyReportedTyped ==
    ASSUME NEW c, CoreInv(c), NEW e
    PROVE  IsTransition(ReduceApplyReported(c, e))
  BY StayTyped, TimersOnlyIsTransition, ApplyCompletedTyped, ApplyNonSuccessTyped
  DEF ReduceApplyReported, CoreInv

\* The ledger after a cleanup is typed.
LEMMA LedgerAfterCleanupTyped ==
    ASSUME NEW l \in Ledgers
    PROVE  LedgerAfterCleanup(l) \in Ledgers
  BY EmptyValues DEF LedgerAfterCleanup

\* What the two cleanup reports have in common.
LEMMA CleanupReportTyped ==
    ASSUME NEW c, CoreInv(c), NEW k \in Cleanups, NEW l \in Ledgers
    PROVE  /\ CoreInv([c EXCEPT !.cleanup = k, !.ledger = l])
           /\ \A due \in BOOLEAN :
                 IsTransition(EmitCleanupOrArm([c EXCEPT !.cleanup = k,
                                                         !.ledger = l], due))
<1> DEFINE n == [c EXCEPT !.cleanup = k, !.ledger = l]
<1>1. CoreInv(n)
  BY DEF CoreInv, CoreStates
<1> HIDE DEF n
<1>2. \A due \in BOOLEAN : IsTransition(EmitCleanupOrArm(n, due))
  BY <1>1, EmitCleanupOrArmTyped, TimersOnlyIsTransition DEF CoreInv
<1> QED BY <1>1, <1>2 DEF n

\* The handler of an executed cleanup.
LEMMA RenderCleanupAppliedTyped ==
    ASSUME NEW c, CoreInv(c), NEW e \in Events, e.type = "RenderCleanupApplied"
    PROVE  IsTransition(ReduceRenderCleanupApplied(c, e))
<1> DEFINE k       == CleanupStateAfterApplied(c.cleanup, e.action)
           l       == LedgerAfterCleanup(c.ledger)
           applied == [c EXCEPT !.cleanup = k, !.ledger = l]
           dueNow  == \/ e.action = "SoftClearedNone"
                      \/ e.action = "NoProgress" /\ e.due
<1>1. k \in Cleanups /\ l \in Ledgers /\ dueNow \in BOOLEAN
  BY FieldTypes, EventFields, CleanupAppliedTyped, LedgerAfterCleanupTyped
  DEF CoreInv
<1> HIDE DEF k, l
<1>2. CoreInv(applied) /\ IsTransition(EmitCleanupOrArm(applied, dueNow))
  BY <1>1, CleanupReportTyped
<1>3. IsTransition(Stay(c)) /\ IsTransition(Stay(applied))
  BY <1>2, StayTyped, TimersOnlyIsTransition DEF CoreInv
<1>4. ReduceRenderCleanupApplied(c, e)
        \in {Stay(c), Stay(applied), EmitCleanupOrArm(applied, dueNow)}
  BY DEF ReduceRenderCleanupApplied, k, l
<1> QED BY <1>2, <1>3, <1>4

\* The handler of retained resources.
LEMMA RetainedResourcesTyped ==
    ASSUME NEW c, CoreInv(c), NEW e \in Events, e.type = "RetainedResourcesObserved"
    PROVE  IsTransition(ReduceRetainedResourcesObserved(c, e))
<1> DEFINE k    == IF c.cleanup.thermal = "Hot" THEN c.cleanup
                   ELSE [c.cleanup EXCEPT !.thermal = "Cooling", !.pushed = FALSE]
           l    == LedgerAfterCleanup(c.ledger)
           next == [c EXCEPT !.cleanup = k, !.ledger = l]
           due  == c.cleanup.thermal = "Hot" /\ e.due
<1>1. k \in Cleanups /\ l \in Ledgers /\ due \in BOOLEAN
  BY FieldTypes, EventFields, CleanupValues, LedgerAfterCleanupTyped DEF CoreInv
<1> HIDE DEF k, l
<1>2. CoreInv(next) /\ IsTransition(EmitCleanupOrArm(next, due))
  BY <1>1, CleanupReportTyped
<1>3. IsTransition(Stay(c)) /\ IsTransition(Stay(next))
  BY <1>2, StayTyped, TimersOnlyIsTransition DEF CoreInv
<1>4. ReduceRetainedResourcesObserved(c, e)
        \in {Stay(c), Stay(next), EmitCleanupOrArm(next, due)}
  BY DEF ReduceRetainedResourcesObserved, k, l
<1> QED BY <1>2, <1>3, <1>4

\* The active demand goes back to its queue slot.
LEMMA RequeueTyped ==
    ASSUME NEW c, CoreInv(c)
    PROVE  /\ CoreInv(RequeueActiveDemand(c))
           /\ RequeueActiveDemand(c).phase = c.phase
           /\ RequeueActiveDemand(c).obs = c.obs
           /\ RequeueActiveDemand(c).seq = c.seq
<1> DEFINE demand == ActiveDemand(c)
           queue  == [c.queue EXCEPT ![demand.kind] = demand.seq]
           n      == [c EXCEPT !.queue = queue]
<1>1. demand.seq \in Nat
  BY FieldTypes DEF CoreInv, ActiveDemand, Demands, Observations, NoDemand
<1> HIDE DEF demand
<1>2. queue \in Queues
  BY <1>1, FieldTypes DEF CoreInv, Queues
<1> HIDE DEF queue
<1>3. CoreInv(n) /\ n.phase = c.phase /\ n.obs = c.obs /\ n.seq = c.seq
  BY <1>2 DEF CoreInv, CoreStates
<1>4. RequeueActiveDemand(c) \in {c, n}
  BY DEF RequeueActiveDemand, demand, queue
<1> QED BY <1>3, <1>4

\* The handler of a failed effect.
LEMMA EffectFailedTyped ==
    ASSUME NEW c, CoreInv(c), NEW e
    PROVE  IsTransition(ReduceEffectFailed(c, e))
<1> DEFINE requeued == RequeueActiveDemand(c)
           cleared  == [requeued EXCEPT !.obs = NoObservation]
<1>1. CoreInv(requeued)
  BY RequeueTyped
<1> HIDE DEF requeued
<1>2. CoreInv(cleared)
  BY <1>1, EmptyValues DEF CoreInv, CoreStates
<1>3. /\ IsTransition(EnterRecovering(requeued))
      /\ IsTransition(EnterRecovering(cleared))
      /\ IsTransition(Stay(c))
      /\ c.phase = "Applying" => IsTransition(ReduceApplyNonSuccess(c, e))
  BY <1>1, <1>2, EnterRecoveringTyped, ApplyNonSuccessTyped, StayTyped,
     TimersOnlyIsTransition DEF CoreInv
<1> QED BY <1>3 DEF ReduceEffectFailed, requeued

-----------------------------------------------------------------------------
(* Handlers: timers. *)

\* Recovery settles in Ready or Primed.
LEMMA SettleRecoveryTyped ==
    ASSUME NEW c, CoreInv(c)
    PROVE  CoreInv(SettleRecovery(c))
  BY Phases DEF SettleRecovery, CoreInv, CoreStates

\* The animation tick, in every phase.
LEMMA AnimationTickTyped ==
    ASSUME NEW c, CoreInv(c), NEW d \in Decisions
    PROVE  IsTransition(AnimationTick(c, d))
  BY StayTyped, TimersOnlyIsTransition, StartBoundaryRefreshTyped,
     ObserveOrPlanTyped DEF AnimationTick, CoreInv

\* The end of the ingress delay, timely, early or by loss.
LEMMA IngressTimerTyped ==
    ASSUME NEW c, CoreInv(c)
    PROVE  /\ IsTransition(IngressDelayOver(c))
           /\ \A due \in BOOLEAN : IsTransition(IngressTimerSignal(c, due))
<1> DEFINE over  == [c EXCEPT !.delay = "none"]
           armed == [c EXCEPT !.delay = "armed"]
<1>1. /\ CoreInv(over) /\ CoreInv(armed)
      /\ AcceptsObservation(c) => AcceptsObservation(over)
  BY DEF CoreInv, CoreStates, Delays, AcceptsObservation
<1>2. /\ IsTransition(Stay(c)) /\ IsTransition(Stay(over))
      /\ AcceptsObservation(c) => IsTransition(StartNextObservation(over))
      /\ IsTransition(ScheduleTimerWithDelay(armed, "Ingress"))
  BY <1>1, StayTyped, StartNextTyped, ScheduleTimerTyped, TimersOnlyIsTransition
  DEF CoreInv, TimerIds
<1> QED BY <1>2 DEF IngressDelayOver, IngressTimerSignal

\* The handler of a fired timer.
LEMMA TimerFiredTyped ==
    ASSUME NEW c, CoreInv(c), NEW d \in Decisions,
           NEW e \in Events, e.type \in {"TimerFired", "TimerLost"}
    PROVE  IsTransition(ReduceTimerFired(c, e, d))
<1> DEFINE fired == Disarm(c, e.timer)
<1>1. e.timer \in TimerIds /\ e.due \in BOOLEAN
  BY EventFields
<1>2. CoreInv(fired)
  BY <1>1, DisarmTyped DEF CoreInv, SameProtocol
<1> HIDE DEF fired
<1>3. /\ IsTransition(Stay(c)) /\ IsTransition(Stay(fired))
      /\ IsTransition(AnimationTick(fired, d))
      /\ IsTransition(IngressTimerSignal(fired, e.due))
      /\ IsTransition(ObserveOrPlan(SettleRecovery(fired), d))
      /\ IsTransition(EmitCleanupOrArm(fired, e.due))
  BY <1>1, <1>2, StayTyped, TimersOnlyIsTransition, AnimationTickTyped,
     IngressTimerTyped, SettleRecoveryTyped, ObserveOrPlanTyped,
     EmitCleanupOrArmTyped DEF CoreInv
<1> QED BY <1>1, <1>3 DEF ReduceTimerFired, TimerIds, fired

\* The handler of a lost timer.
LEMMA TimerLostTyped ==
    ASSUME NEW c, CoreInv(c), NEW e \in Events, e.type \in {"TimerFired", "TimerLost"}
    PROVE  IsTransition(ReduceTimerLost(c, e))
<1> DEFINE lost   == Disarm(c, e.timer)
           still  == [lost EXCEPT !.animating = FALSE]
           owed   == lost.cleanup.thermal # "Cold"
           quiet  == [lost EXCEPT !.cleanup.quiesced = owed]
           f      == [type |-> "ApplyRenderCleanup", execution |-> "SoftClear"]
<1>1. e.timer \in TimerIds /\ e.due \in BOOLEAN
  BY EventFields
<1>2. CoreInv(lost)
  BY <1>1, DisarmTyped DEF CoreInv, SameProtocol
<1> HIDE DEF lost
<1>3. CoreInv(still)
  BY <1>2 DEF CoreInv, CoreStates
<1>4. CoreInv(quiet)
  <2>1. [lost.cleanup EXCEPT !.quiesced = owed] \in Cleanups
    BY <1>2, FieldTypes, CleanupValues DEF CoreInv
  <2>2. CoreInv([lost EXCEPT !.cleanup = [lost.cleanup EXCEPT !.quiesced = owed]])
    BY <1>2, <2>1, CleanupUpdated DEF CoreInv, SameProtocol
  <2> QED BY <2>2
<1>5. <<f>> \in Seq(Effects) /\ CleanupEffects(lost, e.due) \in Seq(Effects)
  BY <1>1, <1>2, EffectSequences, EmitCleanupOrArmTyped DEF CoreInv, Effects
<1>6. /\ IsTransition([next |-> still, effects |-> <<f>>])
      /\ IsTransition([next |-> quiet, effects |-> CleanupEffects(lost, e.due)])
  BY <1>3, <1>4, <1>5 DEF IsTransition
<1>7. /\ IsTransition(Stay(c)) /\ IsTransition(Stay(lost))
      /\ IsTransition(IngressDelayOver(lost))
      /\ IsTransition(Stay(SettleRecovery(lost)))
  BY <1>2, StayTyped, TimersOnlyIsTransition, IngressTimerTyped,
     SettleRecoveryTyped DEF CoreInv
<1>8. ReduceTimerLost(c, e)
        \in {Stay(c), Stay(lost), [next |-> still, effects |-> <<f>>],
             IngressDelayOver(lost), Stay(SettleRecovery(lost)),
             [next |-> quiet, effects |-> CleanupEffects(lost, e.due)]}
  BY <1>1 DEF ReduceTimerLost, TimerIds, lost
<1> HIDE DEF still, quiet, f
<1> QED BY <1>6, <1>7, <1>8

\* Every event takes a state of the reducer to a state of the reducer.
THEOREM ReduceTyped ==
    ASSUME NEW c, CoreInv(c), NEW e \in Events, NEW d \in Decisions
    PROVE  IsTransition(Reduce(c, e, d))
<1>1. e.type \in {"Initialize", "ExternalDemandQueued",
                  "ObservationBaseCollected", "ProbeReported",
                  "RenderPlanComputed", "RenderPlanFailed", "ApplyReported",
                  "RenderCleanupApplied", "RetainedResourcesObserved",
                  "EffectFailed", "TimerFired", "TimerLost"}
  BY DEF Events, EditorEvents, ShellEvents
<1> QED BY <1>1, InitializeTyped, ExternalDemandQueuedTyped,
           ObservationBaseCollectedTyped, ProbeReportedTyped, RenderPlanTyped,
           ApplyReportedTyped, RenderCleanupAppliedTyped,
           RetainedResourcesTyped, EffectFailedTyped, TimerFiredTyped,
           TimerLostTyped
        DEF Reduce

-----------------------------------------------------------------------------
(* The shell. *)

\* The inductive invariant.
TypeInv == TypeOK /\ CoreInv(core)

\* Splitting effects at shell-only work yields batches.
LEMMA SplitTyped ==
    ASSUME NEW s \in Seq(Effects)
    PROVE  SplitEffectBatch(s) \in Seq(WorkItems)
<1> DEFINE shellOnly  == {i \in DOMAIN s : s[i].type \in ShellOnlyEffects}
           cut        == CHOOSE i \in shellOnly : TRUE
           Part(m, n) == IF m > n THEN <<>> ELSE <<Batch(SubSeq(s, m, n))>>
<1>1. ASSUME NEW m \in 1 .. Len(s) + 1, NEW n \in 0 .. Len(s)
      PROVE  Part(m, n) \in Seq(WorkItems)
  <2>1. SubSeq(s, m, n) \in Seq(Effects)
    BY SubSeqProperties, ElementOfSeq, LenProperties
  <2>2. Batch(SubSeq(s, m, n)) \in WorkItems
    BY <2>1 DEF Batch, WorkItems
  <2> QED BY <2>2
<1>2. Len(s) \in Nat /\ DOMAIN s = 1 .. Len(s)
  BY LenProperties
<1>3. CASE shellOnly = {}
  BY <1>1, <1>2, <1>3 DEF SplitEffectBatch
<1>4. CASE shellOnly # {}
  <2>1. cut \in 1 .. Len(s)
    BY <1>2, <1>4
  <2>2. Part(1, cut - 1) \in Seq(WorkItems) /\ Part(cut + 1, Len(s)) \in Seq(WorkItems)
    <3> HIDE DEF cut, Part
    <3>1. /\ 1 \in 1 .. Len(s) + 1 /\ cut - 1 \in 0 .. Len(s)
          /\ cut + 1 \in 1 .. Len(s) + 1 /\ Len(s) \in 0 .. Len(s)
      BY <1>2, <2>1
    <3> QED BY <1>1, <3>1
  <2>3. SplitEffectBatch(s) = Part(1, cut - 1) \o Part(cut + 1, Len(s))
    BY <1>4 DEF SplitEffectBatch
  <2> HIDE DEF cut, Part
  <2> QED BY <2>2, <2>3, ConcatProperties
<1> QED BY <1>3, <1>4

\* Staging effects keeps the queue typed.
LEMMA StageBatchTyped ==
    ASSUME work \in Seq(WorkItems), NEW s \in Seq(Effects)
    PROVE  StageBatch(s) \in Seq(WorkItems)
  BY SplitTyped, ConcatProperties DEF StageBatch

\* Reducing an event keeps the core, the demands settled and the effects typed.
LEMMA ReducedTyped ==
    ASSUME TypeInv, NEW e \in Events, NEW d \in PlanChoices,
           Reduced(e, Reduce(core, e, d))
    PROVE  /\ CoreInv(core')
           /\ settled' \in [DemandKinds -> Nat]
           /\ Reduce(core, e, d).effects \in Seq(Effects)
<1> DEFINE t == Reduce(core, e, d)
<1>1. IsTransition(t)
  BY ReduceTyped, BoundsAssumption DEF TypeInv, PlanChoices
<1>2. ActiveDemand(core).seq \in Nat
  BY FieldTypes DEF TypeInv, CoreInv, ActiveDemand, Demands, Observations, NoDemand
<1>3. core' = t.next /\ settled' = SettledAfter(e, t.next)
  BY DEF Reduced
<1> HIDE DEF t
<1>4. SettledAfter(e, t.next) \in [DemandKinds -> Nat]
  BY <1>2 DEF SettledAfter, TypeInv, TypeOK
<1> QED BY <1>1, <1>3, <1>4 DEF IsTransition, t

\* Dispatching an event keeps core and queue typed.
LEMMA DispatchTyped ==
    ASSUME TypeInv, NEW e \in Events, Dispatch(e)
    PROVE  /\ CoreInv(core')
           /\ settled' \in [DemandKinds -> Nat]
           /\ work' \in Seq(WorkItems)
<1>1. PICK d \in PlanChoices : /\ Reduced(e, Reduce(core, e, d))
                               /\ work' = StageBatch(Reduce(core, e, d).effects)
  BY DEF Dispatch
<1>2. Reduce(core, e, d).effects \in Seq(Effects)
  BY <1>1, ReducedTyped
<1>3. work' \in Seq(WorkItems)
  BY <1>1, <1>2, StageBatchTyped DEF TypeInv, TypeOK
<1> QED BY <1>1, <1>3, ReducedTyped

\* The initial state.
LEMMA InitTyped ==
    ASSUME Init
    PROVE  TypeInv
<1>1. InitialCore \in CoreStates
  <2>1. [k \in DemandKinds |-> 0] \in Queues
    BY DEF Queues
  <2>2. [t \in TimerIds |-> [gen |-> 0, armed |-> FALSE]] \in Timers
    BY DEF Timers
  <2>3. [kind |-> "Cleared", frame |-> NoFrame] \in Ledgers
    BY DEF Ledgers, NoFrame
  <2>4. "none" \in Delays
    BY DEF Delays
  <2> QED BY <2>1, <2>2, <2>3, <2>4, EmptyValues, Phases, CleanupValues
          DEF InitialCore, CoreStates, Cleanups
<1>2. InitialCore.phase = "Idle"
  BY DEF InitialCore
<1>3. CoreInv(core)
  BY <1>1, <1>2 DEF Init, CoreInv
<1>4. TypeOK
  BY <1>3 DEF Init, TypeOK, CoreInv, NoFrame
<1> QED BY <1>3, <1>4 DEF TypeInv

\* The batch's first effect and the staged event are typed; what remains too.
LEMMA HeadsTyped ==
    ASSUME TypeInv
    PROVE  /\ batch # <<>> => Head(batch) \in Effects /\ Tail(batch) \in Seq(Effects)
           /\ followUps # <<>> =>
                 Head(followUps) \in ShellEvents /\ Tail(followUps) \in Seq(ShellEvents)
           /\ work # <<>> =>
                 /\ Head(work) \in WorkItems
                 /\ Tail(work) \in Seq(WorkItems)
                 /\ Head(work).item = "batch" => Head(work).effects \in Seq(Effects)
                 /\ Head(work).item = "event" => Head(work).event \in ShellEvents
<1>1. work # <<>> => Head(work) \in WorkItems /\ Tail(work) \in Seq(WorkItems)
  BY HeadTailProperties DEF TypeInv, TypeOK
<1>2. \A w \in WorkItems : /\ w.item = "batch" => w.effects \in Seq(Effects)
                           /\ w.item = "event" => w.event \in ShellEvents
  BY DEF WorkItems
<1> QED BY <1>1, <1>2, HeadTailProperties DEF TypeInv, TypeOK

\* A staged event is a unit of work.
LEMMA StagedTyped ==
    ASSUME NEW e \in ShellEvents
    PROVE  Staged(e) \in WorkItems
  BY DEF Staged, WorkItems

\* A failure is an event.
LEMMA EffectFailedIsEvent == \A id \in Nat : EffectFailed(id) \in ShellEvents
  BY DEF EffectFailed, ShellEvents

\* The editor's actions and the timers dispatch events of the declared shapes.
LEMMA EditorTyped ==
    ASSUME TypeInv,
           \/ Initialize
           \/ \E kind \in ExternalKinds : Ingress(kind)
           \/ PluginCallbackPanics
           \/ \E t \in TimerIds : TimerFires(t)
    PROVE  TypeInv'
<1>1. CASE Initialize
  <2>1. [type |-> "Initialize"] \in Events
    BY DEF Events, EditorEvents
  <2>2. CoreInv(core') /\ settled' \in [DemandKinds -> Nat] /\ work' \in Seq(WorkItems)
    BY <1>1, <2>1, DispatchTyped DEF Initialize
  <2> QED BY <1>1, <2>2 DEF Initialize, TypeInv, TypeOK, CoreInv, counts
<1>2. ASSUME NEW kind \in ExternalKinds, Ingress(kind)
      PROVE  TypeInv'
  <2>1. PICK presents \in BOOLEAN :
           Dispatch([type |-> "ExternalDemandQueued", kind |-> kind,
                     presents |-> presents])
    BY <1>2 DEF Ingress
  <2>2. [type |-> "ExternalDemandQueued", kind |-> kind, presents |-> presents]
           \in Events
    BY DEF Events, EditorEvents
  <2>3. CoreInv(core') /\ settled' \in [DemandKinds -> Nat] /\ work' \in Seq(WorkItems)
    BY <2>1, <2>2, DispatchTyped
  <2>4. latest' \in [DemandKinds -> Nat]
    BY <1>2, <2>3, FieldTypes DEF Ingress, TypeInv, TypeOK, CoreInv
  <2>5. demands' \in Nat
    BY <1>2 DEF Ingress, TypeInv, TypeOK
  <2> QED BY <1>2, <2>3, <2>4, <2>5 DEF Ingress, TypeInv, TypeOK, CoreInv
<1>3. CASE PluginCallbackPanics
  <2>1. work' \in Seq(WorkItems)
    BY <1>3, EffectFailedIsEvent, StagedTyped, AppendProperties
    DEF PluginCallbackPanics, TypeInv, TypeOK
  <2>2. faults' \in Nat
    BY <1>3 DEF PluginCallbackPanics, Fault, TypeInv, TypeOK
  <2> QED BY <1>3, <2>1, <2>2
          DEF PluginCallbackPanics, TypeInv, TypeOK, CoreInv, ghosts
<1>4. ASSUME NEW t \in TimerIds, TimerFires(t)
      PROVE  TypeInv'
  <2>1. PICK due \in BOOLEAN :
           Dispatch([type |-> "TimerFired", timer |-> t, gen |-> host[t],
                     due |-> due])
    BY <1>4 DEF TimerFires
  <2>2. [type |-> "TimerFired", timer |-> t, gen |-> host[t], due |-> due] \in Events
    BY ShellEventsAreEvents DEF ShellEvents, TypeInv, TypeOK
  <2>3. CoreInv(core') /\ settled' \in [DemandKinds -> Nat] /\ work' \in Seq(WorkItems)
    BY <2>1, <2>2, DispatchTyped
  <2>4. host' \in [TimerIds -> Nat] /\ cleanups' \in Nat
    BY <1>4 DEF TimerFires, TypeInv, TypeOK
  <2> QED BY <1>4, <2>3, <2>4 DEF TimerFires, TypeInv, TypeOK, CoreInv
<1> QED BY <1>1, <1>2, <1>3, <1>4

\* What the effects of a running batch leave typed.
ShellTyped ==
    /\ work' \in Seq(WorkItems)
    /\ batch' \in Seq(Effects)
    /\ followUps' \in Seq(ShellEvents)
    /\ faults' \in Nat

\* The count of failures is a number.
LEMMA FaultTyped ==
    ASSUME TypeInv, NEW k, Fault(k) \/ UNCHANGED faults
    PROVE  faults' \in Nat
  BY DEF TypeInv, TypeOK, Fault

\* Executing an effect leaves typed follow-ups,
LEMMA FollowedByTyped ==
    ASSUME TypeInv, batch # <<>>, NEW s \in Seq(ShellEvents)
    PROVE  /\ FollowedBy(s) /\ faults' \in Nat => ShellTyped
           /\ FollowedByWithRetained(s) => ShellTyped
<1>1. ASSUME NEW r \in Seq(ShellEvents), FollowedBy(r), faults' \in Nat
      PROVE  ShellTyped
  BY <1>1, HeadsTyped, ConcatProperties DEF FollowedBy, ShellTyped, TypeInv, TypeOK
<1>2. ASSUME FollowedByWithRetained(s)
      PROVE  ShellTyped
  <2>1. CASE FollowedBy(s) /\ UNCHANGED faults
    BY <1>1, <2>1 DEF TypeInv, TypeOK
  <2>2. ASSUME NEW due \in BOOLEAN, Fault("retained"),
               FollowedBy(Append(s, RetainedObserved(due)))
        PROVE  ShellTyped
    <3>1. RetainedObserved(due) \in ShellEvents
      BY DEF RetainedObserved, ShellEvents
    <3>2. Append(s, RetainedObserved(due)) \in Seq(ShellEvents)
      BY <3>1, AppendProperties
    <3> QED BY <1>1, <2>2, <3>2, FaultTyped
  <2> QED BY <1>2, <2>1, <2>2 DEF FollowedByWithRetained
<1> QED BY <1>1, <1>2

\* ... in particular one,
LEMMA FollowedByOneTyped ==
    ASSUME TypeInv, batch # <<>>, faults' \in Nat
    PROVE  /\ FollowedBy(<<>>) => ShellTyped
           /\ \A e \in ShellEvents : FollowedBy(<<e>>) => ShellTyped
<1>1. <<>> \in Seq(ShellEvents) /\ \A e \in ShellEvents : <<e>> \in Seq(ShellEvents)
  OBVIOUS
<1> QED BY <1>1, FollowedByTyped

\* ... and so does the reset of a failed drain.
LEMMA DrainFailsTyped ==
    ASSUME TypeInv, DrainFails, faults' \in Nat
    PROVE  ShellTyped
<1>1. Staged(EffectFailed(0)) \in WorkItems
  BY EffectFailedIsEvent, StagedTyped
<1> QED BY <1>1 DEF DrainFails, ShellTyped

\* A step of the shell that leaves the core alone keeps the invariant.
LEMMA ShellStepTyped ==
    ASSUME TypeInv, ShellTyped, host' \in [TimerIds -> Nat], screen' \in Nat,
           UNCHANGED <<core, demands, cleanups, ghosts>>
    PROVE  TypeInv'
  BY DEF TypeInv, TypeOK, CoreInv, ShellTyped, ghosts

\* Every report a probe may make is an event.
LEMMA ProbeReportsTyped ==
    ASSUME NEW f \in Effects, f.type = "RequestProbe", NEW obs,
           NEW r \in ProbeReports(f, obs)
    PROVE  r \in ShellEvents
<1>1. f.id \in Nat /\ f.probe \in ProbeKinds
  BY DEF Effects
<1>2. PICK o \in {"exact", "compatible", "failed", "refresh"} :
         r = [type |-> "ProbeReported", id |-> f.id, probe |-> f.probe, outcome |-> o]
  BY DEF ProbeReports
<1> QED BY <1>1, <1>2 DEF ShellEvents

\* A plan is a proposal.
LEMMA PlannedProposalTyped ==
    ASSUME NEW f \in Effects, f.type = "RequestRenderPlan"
    PROVE  PlannedProposal(f) \in Proposals
<1>1. f.id \in Nat /\ f.basis \in Nat /\ f.decision \in Decisions
  BY DEF Effects
<1> QED BY <1>1 DEF PlannedProposal, Proposals, Decisions, NoFrame

\* Executing RequestObservationBase keeps the invariant.
LEMMA ObservationBaseStepTyped ==
    ASSUME TypeInv, ExecuteRequestObservationBase
    PROVE  TypeInv'
<1>1. batch # <<>> /\ Head(batch) \in Effects
      /\ Head(batch).type = "RequestObservationBase"
  BY HeadsTyped DEF ExecuteRequestObservationBase, Executing
<1>2. Head(batch).id \in Nat
  BY <1>1 DEF Effects
<1>3. ASSUME NEW chunks \in 0 .. MaxChunks, NEW samples \in BOOLEAN,
             NEW inexact \in BOOLEAN
      PROVE  <<[type |-> "ObservationBaseCollected", id |-> Head(batch).id,
                chunks |-> chunks, samples |-> samples, inexact |-> inexact]>>
                \in Seq(ShellEvents)
  <2>1. [type |-> "ObservationBaseCollected", id |-> Head(batch).id,
         chunks |-> chunks, samples |-> samples, inexact |-> inexact] \in ShellEvents
    BY <1>2 DEF ShellEvents
  <2> QED BY <2>1
<1>4. ShellTyped
  <2>1. CASE Fault("observe") /\ DrainFails
    BY <2>1, FaultTyped, DrainFailsTyped
  <2>2. ASSUME NEW chunks \in 0 .. MaxChunks, NEW samples \in BOOLEAN,
               NEW inexact \in BOOLEAN, UNCHANGED faults,
               FollowedBy(<<[type |-> "ObservationBaseCollected",
                             id |-> Head(batch).id, chunks |-> chunks,
                             samples |-> samples, inexact |-> inexact]>>)
        PROVE  ShellTyped
    BY <1>1, <1>3, <2>2, FaultTyped, FollowedByTyped
  <2> QED BY <2>1, <2>2 DEF ExecuteRequestObservationBase
<1> QED BY <1>4, ShellStepTyped
        DEF ExecuteRequestObservationBase, TypeInv, TypeOK

\* Executing RequestProbe keeps the invariant.
LEMMA ProbeStepTyped ==
    ASSUME TypeInv, ExecuteRequestProbe
    PROVE  TypeInv'
<1>1. /\ batch # <<>> /\ Head(batch) \in Effects
      /\ Head(batch).type = "RequestProbe"
  BY HeadsTyped DEF ExecuteRequestProbe, Executing
<1>2. PICK report \in ProbeReports(Head(batch), core.obs) :
         FollowedBy(<<report>>) /\ Reported(report)
  BY DEF ExecuteRequestProbe
<1>3. report \in ShellEvents /\ faults' \in Nat
  BY <1>1, <1>2, ProbeReportsTyped, FaultTyped DEF Reported
<1>4. ShellTyped
  BY <1>1, <1>2, <1>3, FollowedByOneTyped
<1> QED BY <1>4, ShellStepTyped DEF ExecuteRequestProbe, TypeInv, TypeOK

\* Executing RequestRenderPlan keeps the invariant.
LEMMA RenderPlanStepTyped ==
    ASSUME TypeInv, ExecuteRequestRenderPlan
    PROVE  TypeInv'
<1> DEFINE f        == Head(batch)
           computed == [type |-> "RenderPlanComputed", proposal |-> PlannedProposal(f)]
           failed   == [type |-> "RenderPlanFailed", id |-> f.id]
<1>1. batch # <<>> /\ f \in Effects /\ f.type = "RequestRenderPlan"
  BY HeadsTyped DEF ExecuteRequestRenderPlan, Executing
<1>2. computed \in ShellEvents /\ failed \in ShellEvents
  <2>1. f.id \in Nat
    BY <1>1 DEF Effects
  <2> QED BY <1>1, <2>1, PlannedProposalTyped DEF ShellEvents
<1>3. /\ FollowedBy(<<computed>>) \/ FollowedBy(<<failed>>)
      /\ Fault("plan") \/ UNCHANGED faults
  BY DEF ExecuteRequestRenderPlan
<1> HIDE DEF computed, failed
<1>4. ShellTyped
  BY <1>1, <1>2, <1>3, FaultTyped, FollowedByOneTyped
<1> QED BY <1>4, ShellStepTyped DEF ExecuteRequestRenderPlan, TypeInv, TypeOK

\* Executing ApplyProposal keeps the invariant.
LEMMA ApplyStepTyped ==
    ASSUME TypeInv, ExecuteApplyProposal
    PROVE  TypeInv'
<1> DEFINE p == Head(batch).proposal
<1>1. batch # <<>> /\ p \in Proposals
  BY HeadsTyped DEF ExecuteApplyProposal, Executing, Effects
<1>2. p.id \in Nat /\ p.target \in Nat
  BY <1>1 DEF Proposals
<1>3. screen' \in Nat
  BY <1>2 DEF ExecuteApplyProposal, ScreenAfter, TypeInv, TypeOK
<1>4. ASSUME NEW outcome \in {"full", "degraded", "failed"}, NEW redraw \in BOOLEAN
      PROVE  ApplyReport(p, outcome, redraw) \in ShellEvents
  BY <1>2 DEF ApplyReport, ShellEvents
<1>5. ShellTyped
  <2>1. ASSUME NEW redraw \in BOOLEAN,
               FollowedByWithRetained(<<ApplyReport(p, "full", redraw)>>)
        PROVE  ShellTyped
    <3>1. <<ApplyReport(p, "full", redraw)>> \in Seq(ShellEvents)
      BY <1>4
    <3> QED BY <1>1, <2>1, <3>1, FollowedByTyped
  <2>2. ASSUME Fault("apply"),
               NEW report \in {ApplyReport(p, "degraded", FALSE),
                               ApplyReport(p, "failed", FALSE),
                               EffectFailed(p.id)}, FollowedBy(<<report>>)
        PROVE  ShellTyped
    <3>1. report \in ShellEvents
      BY <1>2, <1>4, EffectFailedIsEvent
    <3> QED BY <1>1, <2>2, <3>1, FaultTyped, FollowedByOneTyped
  <2> QED BY <2>1, <2>2 DEF ExecuteApplyProposal
<1> QED BY <1>3, <1>5, ShellStepTyped DEF ExecuteApplyProposal, TypeInv, TypeOK

\* Executing ApplyRenderCleanup keeps the invariant.
LEMMA CleanupStepTyped ==
    ASSUME TypeInv, ExecuteApplyRenderCleanup
    PROVE  TypeInv'
<1> DEFINE Actions == {"SoftClearedNone", "SoftClearedRetained", "Converged",
                       "Progress", "NoProgress", "CleanupStalled"}
<1>1. batch # <<>>
  BY DEF ExecuteApplyRenderCleanup, Executing
<1>2. screen' \in Nat
  BY DEF ExecuteApplyRenderCleanup, NoFrame, TypeInv, TypeOK
<1>3. PICK action \in Actions, due \in BOOLEAN :
         FollowedBy(<<CleanupApplied(action, due)>>)
  BY DEF ExecuteApplyRenderCleanup
<1>4. CleanupApplied(action, due) \in ShellEvents
  BY DEF CleanupApplied, ShellEvents
<1>5. faults' \in Nat
  BY FaultTyped DEF ExecuteApplyRenderCleanup
<1>6. ShellTyped
  BY <1>1, <1>3, <1>4, <1>5, FollowedByOneTyped
<1> QED BY <1>2, <1>6, ShellStepTyped
        DEF ExecuteApplyRenderCleanup, TypeInv, TypeOK

\* Executing ScheduleTimer keeps the invariant.
LEMMA ScheduleStepTyped ==
    ASSUME TypeInv, ExecuteScheduleTimer
    PROVE  TypeInv'
<1> DEFINE f         == Head(batch)
           Lost(due) == [type |-> "TimerLost", timer |-> f.timer, gen |-> f.gen,
                         due |-> due]
<1>1. batch # <<>> /\ f.timer \in TimerIds /\ f.gen \in Nat
  BY HeadsTyped DEF ExecuteScheduleTimer, Executing, Effects
<1>2. host' \in [TimerIds -> Nat]
  BY <1>1 DEF ExecuteScheduleTimer, TypeInv, TypeOK
<1>3. \A due \in BOOLEAN : Lost(due) \in ShellEvents
  BY <1>1 DEF ShellEvents
<1>4. faults' \in Nat
  BY FaultTyped DEF ExecuteScheduleTimer
<1>5. FollowedBy(<<>>) \/ \E due \in BOOLEAN : FollowedBy(<<Lost(due)>>)
  BY DEF ExecuteScheduleTimer
<1> HIDE DEF Lost
<1>6. ShellTyped
  BY <1>1, <1>3, <1>4, <1>5, FollowedByOneTyped
<1> QED BY <1>2, <1>6, ShellStepTyped DEF ExecuteScheduleTimer, TypeInv, TypeOK

\* Executing the ingress presentation keeps the invariant.
LEMMA PresentationStepTyped ==
    ASSUME TypeInv, ExecuteIngressCursorPresentation
    PROVE  TypeInv'
<1>1. batch # <<>> /\ FollowedByWithRetained(<<>>)
  BY DEF ExecuteIngressCursorPresentation, Executing
<1>2. <<>> \in Seq(ShellEvents)
  OBVIOUS
<1>3. ShellTyped
  BY <1>1, <1>2, FollowedByTyped
<1> QED BY <1>3, ShellStepTyped
        DEF ExecuteIngressCursorPresentation, TypeInv, TypeOK

\* Every step of the drain keeps the invariant.
LEMMA DrainTyped ==
    ASSUME TypeInv, Drain
    PROVE  TypeInv'
<1>1. CASE StartBatch
  BY <1>1, HeadsTyped DEF StartBatch, TypeInv, TypeOK, CoreInv, counts, ghosts
<1>2. CASE DispatchStaged
  <2> DEFINE e == Head(work).event
  <2>1. PICK d \in PlanChoices :
           /\ Reduced(e, Reduce(core, e, d))
           /\ work' = Tail(StageBatch(Reduce(core, e, d).effects))
    BY <1>2 DEF DispatchStaged
  <2>2. work # <<>> /\ e \in ShellEvents
    BY <1>2, HeadsTyped DEF DispatchStaged
  <2>3. /\ CoreInv(core') /\ settled' \in [DemandKinds -> Nat]
        /\ Reduce(core, e, d).effects \in Seq(Effects)
    BY <2>1, <2>2, ReducedTyped, ShellEventsAreEvents
  <2>4. SplitEffectBatch(Reduce(core, e, d).effects) \in Seq(WorkItems)
    BY <2>3, SplitTyped
  <2>5. work' \in Seq(WorkItems)
    <3> DEFINE more == SplitEffectBatch(Reduce(core, e, d).effects)
    <3>1. work \in Seq(WorkItems) /\ more \in Seq(WorkItems)
      BY <2>4 DEF TypeInv, TypeOK
    <3>2. work' = Tail(work \o more)
      BY <2>1 DEF StageBatch
    <3> HIDE DEF more
    <3>3. work \o more \in Seq(WorkItems) /\ work \o more # <<>>
      BY <2>2, <3>1, ConcatProperties, ConcatEqualIffEmpty
    <3> QED BY <3>2, <3>3, HeadTailProperties
  <2> QED BY <1>2, <2>3, <2>5 DEF DispatchStaged, TypeInv, TypeOK, CoreInv, counts
<1>3. CASE ExecuteEffect
  BY <1>3, ObservationBaseStepTyped, ProbeStepTyped, RenderPlanStepTyped,
     ApplyStepTyped, CleanupStepTyped, ScheduleStepTyped, PresentationStepTyped
  DEF ExecuteEffect
<1>4. CASE StageRefreshReport
  <2>1. work' \in Seq(WorkItems) /\ followUps' \in Seq(ShellEvents)
    BY <1>4, HeadsTyped, StagedTyped, AppendProperties
    DEF StageRefreshReport, TypeInv, TypeOK
  <2> QED BY <1>4, <2>1
          DEF StageRefreshReport, TypeInv, TypeOK, CoreInv, counts, ghosts
<1>5. CASE DispatchFollowUp
  <2> DEFINE e == Head(followUps)
  <2>1. e \in ShellEvents /\ Tail(followUps) \in Seq(ShellEvents)
    BY <1>5, HeadsTyped DEF DispatchFollowUp
  <2>2. PICK d \in PlanChoices :
           LET t == Reduce(core, e, d)
           IN /\ Reduced(e, t)
              /\ IF IsSameWaveProbe(e, t.effects)
                 THEN \E report \in SameWaveReports(Head(t.effects), t.next.obs) :
                         /\ followUps' = <<report>> \o Tail(followUps)
                         /\ UNCHANGED work
                 ELSE /\ followUps' = Tail(followUps)
                      /\ work' = StageBatch(t.effects)
    BY <1>5 DEF DispatchFollowUp
  <2> DEFINE t == Reduce(core, e, d)
  <2>3. /\ CoreInv(core') /\ settled' \in [DemandKinds -> Nat]
        /\ t.effects \in Seq(Effects)
    BY <2>1, <2>2, ReducedTyped, ShellEventsAreEvents
  <2>4. work' \in Seq(WorkItems) /\ followUps' \in Seq(ShellEvents)
    <3> HIDE DEF t
    <3>1. CASE IsSameWaveProbe(e, t.effects)
      <4>1. PICK report \in SameWaveReports(Head(t.effects), t.next.obs) :
               /\ followUps' = <<report>> \o Tail(followUps)
               /\ UNCHANGED work
        BY <2>2, <3>1 DEF t
      <4>2. Head(t.effects) \in Effects /\ Head(t.effects).type = "RequestProbe"
        BY <2>3, <3>1, HeadTailProperties, EmptySeq DEF IsSameWaveProbe
      <4>3. report \in ShellEvents
        BY <4>1, <4>2, ProbeReportsTyped DEF SameWaveReports
      <4>4. followUps' \in Seq(ShellEvents)
        BY <2>1, <4>1, <4>3, ConcatProperties
      <4> QED BY <4>1, <4>4 DEF TypeInv, TypeOK
    <3>2. CASE ~IsSameWaveProbe(e, t.effects)
      <4>1. /\ followUps' = Tail(followUps)
            /\ work' = StageBatch(t.effects)
        BY <2>2, <3>2 DEF t
      <4> QED BY <2>1, <2>3, <4>1, StageBatchTyped DEF TypeInv, TypeOK
    <3> QED BY <3>1, <3>2
  <2> QED BY <1>5, <2>3, <2>4
          DEF DispatchFollowUp, TypeInv, TypeOK, CoreInv, counts
<1> QED BY <1>1, <1>2, <1>3, <1>4, <1>5 DEF Drain

\* Steps keep the inductive invariant.
LEMMA NextTyped ==
    ASSUME TypeInv, [Next]_vars
    PROVE  TypeInv'
<1>1. CASE UNCHANGED vars
  BY <1>1 DEF vars, shell, counts, ghosts, TypeInv, TypeOK, CoreInv
<1>2. CASE Next
  BY <1>2, EditorTyped, DrainTyped DEF Next
<1> QED BY <1>1, <1>2

\* Types and the shape of the core in each phase hold together in every
\* reachable state; either alone would not be inductive.
THEOREM SpecTypeInv == Spec => []TypeInv
  BY InitTyped, NextTyped, PTL DEF Spec

\* Type correctness: no handler of the reducer ever runs in a phase in which
\* the code declares it unreachable, and no malformed effect or event is queued.
THEOREM TypeCorrect == Spec => []TypeOK
  BY SpecTypeInv, PTL DEF TypeInv

=============================================================================
