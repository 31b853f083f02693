--------------------------- MODULE SmearCoreTimers ---------------------------
(***************************************************************************)
(* No phase waits for ever, for every value of the constants of SmearCore: *)
(* recovery, a delayed cursor demand and an animation at rest have a host  *)
(* timer that is live, is still to be started, or whose loss is still to   *)
(* be reported - or the failure that begins a recovery is staged.          *)
(*                                                                         *)
(* For recovery this holds whatever fails.  The other two are kept by what *)
(* begins after a recovery: when the host cannot start the recovery timer  *)
(* itself, the phase is settled and nothing begins.  They are stated for   *)
(* runs without that failure, and for decisions of the runtime reducer     *)
(* that schedule a next frame whenever the animation runs on.              *)
(*                                                                         *)
(* Host timers are started in the order of the queue.  A slot keeps the    *)
(* newest token because the requests for one timer are executed oldest     *)
(* first; the inductive invariant says so of the queue.                    *)
(***************************************************************************)
EXTENDS SmearCoreWork

IsSchedule(f) == f.type = "ScheduleTimer"

\* What a transition asks for and the queue always takes: no shell-only work,
\* and no probe, which may be answered in the same wave.
IsStaged(f) == f.type \notin ShellOnlyEffects \cup {"RequestProbe"}

\* An animation that runs on schedules its next frame.
GoesOn == \A d \in PlanDecisions : d.running => d.animate

\* A phase that goes on with timer x only.
NeedsTimer(c, x) ==
    \/ x = "Recovery"  /\ c.phase = "Recovering"
    \/ x = "Ingress"   /\ AcceptsObservation(c) /\ c.delay # "none"
    \/ x = "Animation" /\ c.phase = "Ready" /\ c.animating

\* A delay holds back a demand that is queued.
DelayHolds(c) == c.delay # "none" => QueuedKinds(c) # {} /\ c.phase # "Idle"

\* Two requests for one timer: f is not the newer one.
Before(f, g) ==
    IsSchedule(f) /\ IsSchedule(g) /\ f.timer = g.timer => f.gen <= g.gen

AllBefore(F, G) == \A f \in F, g \in G : Before(f, g)

Sorted(s) == \A i, j \in DOMAIN s : i < j => Before(s[i], s[j])

QueueSorted(w) ==
    \A i \in DOMAIN w : w[i].item = "batch" =>
        /\ Sorted(w[i].effects)
        /\ \A j \in DOMAIN w : i < j /\ w[j].item = "batch" =>
              AllBefore(Range(w[i].effects), Range(w[j].effects))

InOrder ==
    /\ Sorted(batch)
    /\ AllBefore(Range(batch), QueuedEffects(work))
    /\ QueueSorted(work)

\* No host timer and no request is ahead of the core, and no host timer ahead
\* of a request.
NoneAhead ==
    /\ \A x \in TimerIds : host[x] <= core.timers[x].gen
    /\ \A f \in PendingEffects : IsSchedule(f) =>
          f.gen <= core.timers[f.timer].gen /\ host[f.timer] <= f.gen

OrderInv == TypeInv /\ InOrder /\ NoneAhead

\* The plan of an animation that runs schedules the next frame, wherever the
\* proposal is on its way.
PlansAnimate(c, effects, events) ==
    /\ \A f \in effects : f.type = "RequestRenderPlan" =>
          /\ f.id <= c.proposals
          /\ c.phase = "Planning" /\ c.animating /\ f.id = c.proposal.id
                => f.decision.animate
    /\ \A e \in events : e.type = "RenderPlanComputed" =>
          /\ e.proposal.id <= c.proposals
          /\ c.phase = "Planning" /\ c.animating /\ e.proposal.id = c.proposal.id
                => e.proposal.animate
    /\ c.phase = "Applying" /\ c.animating => c.proposal.animate

\* The host could not start the timer of a recovery.
LosesRecovery(e) == e.type = "TimerLost" /\ e.timer = "Recovery"

\* Each timer of X that is needed is on its way.
Timed(X) == \A x \in X : NeedsTimer(core, x) => TimerPending(x) \/ FailurePending

RecoveryInv == OrderInv /\ Timed({"Recovery"})

PhaseInv ==
    /\ OrderInv
    /\ DelayHolds(core)
    /\ PlansAnimate(core, PendingEffects, PendingEvents)
    /\ \A e \in PendingEvents : ~LosesRecovery(e)
    /\ Timed(TimerIds)

-----------------------------------------------------------------------------
(* What a handler does to the timers. *)

Request(x, gen) == [type |-> "ScheduleTimer", timer |-> x, gen |-> gen]

\* From c to n only timers of X changed, each armed anew, and the effects F ask
\* for the new tokens and for no others.
Arms(c, n, F, X) ==
    /\ X \subseteq TimerIds
    /\ \A x \in TimerIds : n.timers[x] # c.timers[x] =>
          /\ x \in X /\ n.timers[x].armed
          /\ c.timers[x].gen < n.timers[x].gen
          /\ Request(x, n.timers[x].gen) \in F
    /\ \A f \in F : IsSchedule(f) =>
          f.timer \in X /\ f.gen = n.timers[f.timer].gen

PlanFree(F) == \A f \in F : f.type # "RequestRenderPlan"

\* Nothing that waits or is waited for differs, timers apart.
SameRest(c, n) ==
    /\ SameProtocol(c, n)
    /\ n.animating = c.animating /\ n.delay = c.delay /\ n.proposals = c.proposals

\* The cleanup timer is armed at most.
Cleans(c, t) ==
    /\ t.next \in CoreStates /\ t.effects \in Seq(Effects)
    /\ SameRest(c, t.next)
    /\ Arms(c, t.next, Range(t.effects), {"Cleanup"})
    /\ PlanFree(Range(t.effects))

\* An observation is asked for; a delay is over or holds what it held.
Collects(c, t) ==
    /\ t.next.phase = "Collecting"
    /\ t.next.timers = c.timers /\ t.next.proposals = c.proposals
    /\ \/ t.next.delay = "none"
       \/ t.next.delay = c.delay /\ t.next.queue = c.queue
    /\ \A f \in Range(t.effects) : f.type = "RequestObservationBase"

\* A plan is asked for, with a new proposal.
Plans(c, d, t) ==
    /\ t.next.phase = "Planning" /\ t.next.animating = d.running
    /\ t.next.timers = c.timers
    /\ t.next.delay = c.delay /\ t.next.queue = c.queue
    /\ t.next.proposals = c.proposals + 1 /\ t.next.proposal.id = c.proposals + 1
    /\ \A f \in Range(t.effects) :
          f.type = "RequestRenderPlan" /\ f.id = c.proposals + 1 /\ f.decision = d

\* One effect, or none.
LEMMA FewEffects ==
    /\ Range(<<>>) = {}
    /\ \A f : Range(<<f>>) = {f}
  BY DEF Range

\* Timers that are left alone,
LEMMA UntouchedArms ==
    ASSUME NEW c, NEW n, n.timers = c.timers, NEW F, \A f \in F : ~IsSchedule(f),
           NEW X \in SUBSET TimerIds
    PROVE  Arms(c, n, F, X)
  BY DEF Arms

\* ... timers of two groups, armed one after the other,
LEMMA ArmsThen ==
    ASSUME NEW c, NEW n, NEW m, NEW F, NEW G, NEW X, NEW Y,
           Arms(c, n, F, X), Arms(n, m, G, Y), X \cap Y = {}
    PROVE  Arms(c, m, F \cup G, X \cup Y)
<1>1. \A x \in TimerIds : x \in X => m.timers[x] = n.timers[x]
  BY DEF Arms
<1>2. ASSUME NEW x \in TimerIds, m.timers[x] # c.timers[x]
      PROVE  /\ x \in X \cup Y /\ m.timers[x].armed
             /\ c.timers[x].gen < m.timers[x].gen
             /\ Request(x, m.timers[x].gen) \in F \cup G
  <2>1. CASE x \in X
    BY <1>1, <1>2, <2>1 DEF Arms
  <2>2. CASE x \notin X
    BY <1>2, <2>2 DEF Arms
  <2> QED BY <2>1, <2>2
<1>3. ASSUME NEW f \in F \cup G, IsSchedule(f)
      PROVE  f.timer \in X \cup Y /\ f.gen = m.timers[f.timer].gen
  <2>1. CASE f \in F
    BY <1>1, <1>3, <2>1 DEF Arms
  <2>2. CASE f \in G
    BY <1>3, <2>2 DEF Arms
  <2> QED BY <2>1, <2>2
<1> QED BY <1>2, <1>3 DEF Arms

\* ... among effects that ask for no timer,
LEMMA ArmsAmong ==
    ASSUME NEW c, NEW n, NEW F, NEW G, NEW X, NEW Y, Arms(c, n, F, X),
           \A f \in G : ~IsSchedule(f), X \subseteq Y, Y \subseteq TimerIds
    PROVE  Arms(c, n, F \cup G, Y)
  BY DEF Arms

\* ... and a timer that is armed.
LEMMA ScheduleArms ==
    ASSUME NEW c \in CoreStates, NEW x \in TimerIds
    PROVE  LET t == ScheduleTimerWithDelay(c, x)
           IN /\ Arms(c, t.next, Range(t.effects), {x})
              /\ t.next.timers[x] # c.timers[x]
              /\ SameRest(c, t.next)
              /\ PlanFree(Range(t.effects))
<1> DEFINE gen    == c.timers[x].gen + 1
           timers == [c.timers EXCEPT ![x] = [gen |-> gen, armed |-> TRUE]]
           t      == ScheduleTimerWithDelay(c, x)
<1>1. c.timers \in Timers /\ c.timers[x].gen \in Nat
  BY FieldTypes DEF Timers
<1>2. t.next = [c EXCEPT !.timers = timers] /\ t.effects = <<Request(x, gen)>>
  BY DEF ScheduleTimerWithDelay, Request
<1>3. t.next.timers = timers /\ SameRest(c, t.next)
  BY <1>2 DEF CoreStates, SameRest, SameProtocol
<1>4. Range(t.effects) = {Request(x, gen)}
  BY <1>2, FewEffects
<1> HIDE DEF t
<1>5. /\ timers[x] = [gen |-> gen, armed |-> TRUE]
      /\ \A y \in TimerIds : y # x => timers[y] = c.timers[y]
  BY <1>1 DEF Timers
<1>6. gen > c.timers[x].gen /\ gen # c.timers[x].gen
  BY <1>1
<1> HIDE DEF timers
<1>7. Arms(c, t.next, Range(t.effects), {x})
  BY <1>3, <1>4, <1>5, <1>6 DEF Arms, Request
<1> QED BY <1>3, <1>4, <1>5, <1>6, <1>7 DEF PlanFree, Request, t

-----------------------------------------------------------------------------
(* Cleanup. *)

\* A transition after an update of the cleanup state alone.
LEMMA CleansUpdated ==
    ASSUME NEW c \in CoreStates, NEW k \in Cleanups, NEW t,
           Cleans([c EXCEPT !.cleanup = k], t)
    PROVE  Cleans(c, t)
<1> DEFINE n == [c EXCEPT !.cleanup = k]
<1>1. n.timers = c.timers /\ SameRest(c, n)
  BY DEF CoreStates, SameRest, SameProtocol
<1> HIDE DEF n
<1>2. Cleans(n, t)
  BY DEF n
<1> QED BY <1>1, <1>2 DEF Cleans, Arms, SameRest, SameProtocol

\* Nothing is done,
LEMMA StayCleans ==
    ASSUME NEW c \in CoreStates
    PROVE  Cleans(c, Stay(c))
  BY FewEffects, EffectSequences
  DEF Stay, Cleans, SameRest, SameProtocol, Arms, PlanFree, TimerIds

\* ... the cleanup timer is armed, if cleanup is owed,
LEMMA ArmCleans ==
    ASSUME NEW c \in CoreStates
    PROVE  Cleans(c, ArmRenderCleanupTimer(c))
<1> DEFINE k == [c.cleanup EXCEPT !.pushed = FALSE]
           n == [c EXCEPT !.cleanup = k]
<1>1. k \in Cleanups
  BY FieldTypes, CleanupValues
<1>2. n \in CoreStates
  BY <1>1, CleanupUpdated
<1>3. Cleans(n, ScheduleTimerWithDelay(n, "Cleanup"))
  <2> HIDE DEF n
  <2> QED BY <1>2, ScheduleArms, ScheduleTimerTyped DEF Cleans, TimersOnly, TimerIds
<1>4. Cleans(c, ScheduleTimerWithDelay(n, "Cleanup"))
  BY <1>1, <1>3, CleansUpdated
<1>5. ArmRenderCleanupTimer(c) \in {Stay(c), ScheduleTimerWithDelay(n, "Cleanup")}
  BY DEF ArmRenderCleanupTimer
<1> QED BY <1>4, <1>5, StayCleans

\* ... for a new deadline,
LEMMA EnterHotCleans ==
    ASSUME NEW c \in CoreStates
    PROVE  Cleans(c, EnterHotCleanup(c))
<1> DEFINE hot == [thermal |-> "Hot", quiesced |-> FALSE, pushed |-> FALSE]
           n   == [c EXCEPT !.cleanup = hot]
           k   == [n.cleanup EXCEPT !.pushed = TRUE]
           m   == [n EXCEPT !.cleanup = k]
<1>1. hot \in Cleanups /\ n \in CoreStates
  BY FieldTypes, CleanupValues, CleanupUpdated
<1>2. EnterHotCleanup(c) \in {Stay(m), ArmRenderCleanupTimer(n)}
  BY DEF EnterHotCleanup, ArmUnlessActive
<1> HIDE DEF hot
<1>3. Cleans(n, Stay(m)) /\ Cleans(n, ArmRenderCleanupTimer(n))
  <2> HIDE DEF n
  <2>1. k \in Cleanups
    BY <1>1, FieldTypes, CleanupValues
  <2>2. m \in CoreStates
    BY <1>1, <2>1, CleanupUpdated
  <2> QED BY <1>1, <2>1, <2>2, StayCleans, ArmCleans, CleansUpdated
<1>4. Cleans(c, Stay(m)) /\ Cleans(c, ArmRenderCleanupTimer(n))
  BY <1>1, <1>3, CleansUpdated
<1> QED BY <1>2, <1>4

\* ... for a proposal,
LEMMA AdvanceCleans ==
    ASSUME NEW c \in CoreStates, NEW action \in {"NoAction", "Invalidate", "Schedule"}
    PROVE  Cleans(c, AdvanceCleanupForProposal(c, action))
<1> DEFINE k == [c.cleanup EXCEPT !.quiesced = FALSE]
           n == [c EXCEPT !.cleanup = k]
<1>1. k \in Cleanups
  BY FieldTypes, CleanupValues
<1>2. n \in CoreStates
  BY <1>1, CleanupUpdated
<1>3. Cleans(n, Stay(n)) /\ Cleans(n, ArmRenderCleanupTimer(n))
  BY <1>2, StayCleans, ArmCleans
<1>4. Cleans(c, Stay(n)) /\ Cleans(c, ArmRenderCleanupTimer(n))
  BY <1>1, <1>3, CleansUpdated
<1>5. AdvanceCleanupForProposal(c, action)
        \in {Stay(c), EnterHotCleanup(c), Stay(n), ArmRenderCleanupTimer(n)}
  BY DEF AdvanceCleanupForProposal
<1> QED BY <1>4, <1>5, StayCleans, EnterHotCleans

\* ... and after a callback or a report.
LEMMA EmitCleans ==
    ASSUME NEW c \in CoreStates, NEW due \in BOOLEAN
    PROVE  /\ Cleans(c, EmitCleanupOrArm(c, due))
           /\ \A f \in Range(CleanupEffects(c, due)) : f.type = "ApplyRenderCleanup"
<1>1. \A f \in Range(CleanupEffects(c, due)) : f.type = "ApplyRenderCleanup"
  BY FewEffects DEF CleanupEffects
<1>2. Cleans(c, [next |-> c, effects |-> CleanupEffects(c, due)])
  <2>1. Arms(c, c, Range(CleanupEffects(c, due)), {"Cleanup"})
    BY <1>1 DEF Arms, IsSchedule, TimerIds
  <2> QED BY <1>1, <2>1, EmitCleanupOrArmTyped
          DEF Cleans, SameRest, SameProtocol, PlanFree
<1> QED BY <1>1, <1>2, ArmCleans DEF EmitCleanupOrArm

-----------------------------------------------------------------------------
(* Observations, plans and recovery. *)

\* An observation that is entered,
LEMMA EnterObservingCollects ==
    ASSUME NEW c \in CoreStates, AcceptsObservation(c), NEW d
    PROVE  Collects(c, EnterObservingRequest(c, d))
<1> DEFINE n == [c EXCEPT !.phase = "Collecting", !.demand = d,
                          !.refresh = NoRefreshes]
           f == RequestObservationBase(d)
<1>1. EnterObservingRequest(c, d) = [next |-> n, effects |-> <<f>>]
  BY DEF EnterObservingRequest
<1>2. /\ n.phase = "Collecting" /\ n.timers = c.timers /\ n.delay = c.delay
      /\ n.proposals = c.proposals /\ n.queue = c.queue
  BY DEF CoreStates
<1>3. f.type = "RequestObservationBase"
  BY DEF RequestObservationBase
<1> HIDE DEF n, f
<1> QED BY <1>1, <1>2, <1>3, FewEffects DEF Collects

\* ... the oldest queued demand's, which ends the delay,
LEMMA StartNextCollects ==
    ASSUME NEW c \in CoreStates, AcceptsObservation(c)
    PROVE  IF QueuedKinds(c) = {} THEN StartNextObservation(c) = Stay(c)
           ELSE Collects(c, StartNextObservation(c))
<1>1. CASE QueuedKinds(c) = {}
  BY <1>1 DEF StartNextObservation
<1>2. CASE QueuedKinds(c) # {}
  <2> DEFINE k == CHOOSE k \in QueuedKinds(c) :
                     \A j \in QueuedKinds(c) : c.queue[k] <= c.queue[j]
             queue == [c.queue EXCEPT ![k] = 0]
             n == [c EXCEPT !.queue = queue, !.delay = "none"]
             d == [kind |-> k, seq |-> c.queue[k]]
  <2>1. queue \in Queues
    BY FieldTypes DEF Queues
  <2>2. /\ n \in CoreStates /\ AcceptsObservation(n) /\ n.timers = c.timers
        /\ n.delay = "none" /\ n.proposals = c.proposals
    BY <2>1 DEF CoreStates, AcceptsObservation, Delays
  <2>3. StartNextObservation(c) = EnterObservingRequest(n, d)
    BY <1>2 DEF StartNextObservation
  <2> HIDE DEF n, d
  <2> QED BY <1>2, <2>2, <2>3, EnterObservingCollects DEF Collects
<1> QED BY <1>1, <1>2

\* ... or the boundary refresh's.
LEMMA BoundaryCollects ==
    ASSUME NEW c \in CoreStates, AcceptsObservation(c)
    PROVE  Collects(c, StartBoundaryRefreshObservation(c))
<1> DEFINE n == [c EXCEPT !.seq = c.seq + 1]
           d == [kind |-> "BoundaryRefresh", seq |-> c.seq + 1]
<1>1. /\ n \in CoreStates /\ AcceptsObservation(n) /\ n.timers = c.timers
      /\ n.delay = c.delay /\ n.proposals = c.proposals /\ n.queue = c.queue
  BY FieldTypes DEF CoreStates, AcceptsObservation
<1>2. StartBoundaryRefreshObservation(c) = EnterObservingRequest(n, d)
  BY DEF StartBoundaryRefreshObservation
<1> HIDE DEF n, d
<1> QED BY <1>1, <1>2, EnterObservingCollects DEF Collects

\* Planning starts in Ready.
LEMMA PlanReadyPlans ==
    ASSUME NEW c \in CoreStates, NEW d \in Decisions
    PROVE  IF c.phase # "Ready" THEN PlanReadyState(c, d) = Stay(c)
           ELSE Plans(c, d, PlanReadyState(c, d))
<1>1. CASE c.phase # "Ready"
  BY <1>1 DEF PlanReadyState
<1>2. CASE c.phase = "Ready"
  <2> DEFINE id == c.proposals + 1
             n  == [c EXCEPT !.phase = "Planning", !.proposals = id,
                             !.proposal = [id |-> id], !.animating = d.running]
             f  == [type |-> "RequestRenderPlan", id |-> id,
                    basis |-> TrustedAcknowledged(c.ledger), decision |-> d]
  <2>1. PlanReadyState(c, d) = [next |-> n, effects |-> <<f>>]
    BY <1>2 DEF PlanReadyState
  <2>2. /\ n.phase = "Planning" /\ n.animating = d.running /\ n.timers = c.timers
        /\ n.delay = c.delay /\ n.queue = c.queue /\ n.proposals = id
        /\ n.proposal = [id |-> id]
    BY DEF CoreStates
  <2>3. f.type = "RequestRenderPlan" /\ f.id = id /\ f.decision = d
    OBVIOUS
  <2> HIDE DEF n, f
  <2> QED BY <1>2, <2>1, <2>2, <2>3, FewEffects DEF Plans
<1> QED BY <1>1, <1>2

\* Queued demands go first; without an observation to plan on there is nothing
\* to do.
LEMMA ObserveOrPlanMoves ==
    ASSUME NEW c \in CoreStates, AcceptsObservation(c), NEW d \in Decisions
    PROVE  \/ QueuedKinds(c) # {} /\ Collects(c, ObserveOrPlan(c, d))
           \/ QueuedKinds(c) = {} /\ Plans(c, d, ObserveOrPlan(c, d))
           \/ /\ QueuedKinds(c) = {} /\ c.phase = "Primed"
              /\ ObserveOrPlan(c, d) = Stay(c)
  BY StartNextCollects, PlanReadyPlans DEF ObserveOrPlan, AcceptsObservation

\* Recovery is entered, with a timer of its own.
Recovers(c, t) ==
    /\ t.next.phase = "Recovering"
    /\ t.next.timers["Recovery"] # c.timers["Recovery"]
    /\ Arms(c, t.next, Range(t.effects), {"Recovery"})
    /\ t.next.animating = c.animating /\ t.next.delay = c.delay
    /\ t.next.queue = c.queue /\ t.next.proposals = c.proposals
    /\ PlanFree(Range(t.effects))

\* A new timer is armed for it even when one is armed already.
LEMMA EnterRecoveringRecovers ==
    ASSUME NEW c \in CoreStates
    PROVE  Recovers(c, EnterRecovering(c))
<1> DEFINE n == [c EXCEPT !.phase = "Recovering", !.demand = NoDemand,
                          !.refresh = NoRefreshes, !.proposal = NoProposal]
<1>1. /\ n \in CoreStates /\ n.phase = "Recovering" /\ n.timers = c.timers
      /\ n.animating = c.animating /\ n.delay = c.delay
      /\ n.queue = c.queue /\ n.proposals = c.proposals
  BY EmptyValues, Phases DEF CoreStates
<1>2. EnterRecovering(c) = ScheduleTimerWithDelay(n, "Recovery")
  BY DEF EnterRecovering
<1> HIDE DEF n
<1>3. "Recovery" \in TimerIds
  BY DEF TimerIds
<1> DEFINE t == ScheduleTimerWithDelay(n, "Recovery")
<1>4. /\ Arms(n, t.next, Range(t.effects), {"Recovery"})
      /\ t.next.timers["Recovery"] # n.timers["Recovery"]
      /\ SameRest(n, t.next) /\ PlanFree(Range(t.effects))
  BY <1>1, <1>3, ScheduleArms
<1> HIDE DEF t
<1>5. Recovers(c, t)
  BY <1>1, <1>4 DEF Recovers, Arms, SameRest, SameProtocol
<1> QED BY <1>2, <1>5 DEF t

\* The probes of an observation are no plan and no timer.
LEMMA ProbesAreProbes ==
    ASSUME NEW obs
    PROVE  \A f \in Range(NextPendingProbeEffects(obs)) : f.type = "RequestProbe"
  BY FewEffects DEF NextPendingProbeEffects

\* A failed observation's demand is queued again, and no other is dropped.
LEMMA RequeueKeeps ==
    ASSUME NEW c, CoreInv(c)
    PROVE  LET n == RequeueActiveDemand(c)
           IN /\ QueuedKinds(c) \subseteq QueuedKinds(n)
              /\ n.phase = c.phase /\ n.timers = c.timers
              /\ n.animating = c.animating /\ n.delay = c.delay
              /\ n.proposals = c.proposals
<1> DEFINE demand == ActiveDemand(c)
           queue  == [c.queue EXCEPT ![demand.kind] = demand.seq]
           n      == [c EXCEPT !.queue = queue]
<1>1. demand.seq \in Nat
  BY FieldTypes DEF CoreInv, ActiveDemand, Demands, Observations, NoDemand
<1>2. RequeueActiveDemand(c) = IF demand = NoDemand \/ c.queue[demand.kind] >= demand.seq
                               THEN c ELSE n
  BY DEF RequeueActiveDemand
<1>3. /\ n.queue = queue /\ n.phase = c.phase /\ n.timers = c.timers
      /\ n.animating = c.animating /\ n.delay = c.delay
      /\ n.proposals = c.proposals
  BY DEF CoreInv, CoreStates
<1> HIDE DEF demand, n
<1>4. ASSUME ~(c.queue[demand.kind] >= demand.seq), NEW k \in QueuedKinds(c)
      PROVE  k \in DemandKinds /\ queue[k] # 0
  <2>1. /\ k \in DemandKinds /\ c.queue[k] \in Nat /\ c.queue[k] # 0
        /\ DOMAIN c.queue = DemandKinds
    BY FieldTypes DEF QueuedKinds, CoreInv, Queues
  <2>2. CASE k = demand.kind
    BY <1>1, <1>4, <2>1, <2>2
  <2>3. CASE k # demand.kind
    BY <2>1, <2>3
  <2> QED BY <2>2, <2>3
<1>5. ~(c.queue[demand.kind] >= demand.seq) => QueuedKinds(c) \subseteq QueuedKinds(n)
  BY <1>3, <1>4 DEF QueuedKinds
<1> QED BY <1>2, <1>3, <1>5

-----------------------------------------------------------------------------
(* What a handler leaves to wait for. *)

\* The state in which an event is handled: its timer is disarmed.
Base(c, e) ==
    IF e.type \in {"TimerFired", "TimerLost"} /\ IsActive(c, e)
    THEN Disarm(c, e.timer) ELSE c

\* Delays hold demands, and what is applied goes on if the animation does.
Held(c) ==
    /\ DelayHolds(c)
    /\ c.phase = "Applying" /\ c.animating => c.proposal.animate

\* Where n needs x, x is armed anew, or c needed it and it is left alone.
Carries(c, e, n, x) ==
    NeedsTimer(n, x) =>
        \/ n.timers[x] # Base(c, e).timers[x]
        \/ NeedsTimer(c, x) /\ n.timers[x] = c.timers[x] /\ ~Aborts(e)

\* Plans asked for are new ones and go on with the animation; what is planned
\* or applied is new, was so before, or is the plan just computed.
PlanSound(c, e, n, F) ==
    /\ n.proposals >= c.proposals
    /\ \A f \in F : f.type = "RequestRenderPlan" =>
          f.id <= n.proposals /\ (GoesOn /\ n.animating => f.decision.animate)
    /\ n.phase = "Planning" /\ n.animating =>
          \/ n.proposal.id > c.proposals
          \/ c.phase = "Planning" /\ c.animating /\ n.proposal = c.proposal
    /\ n.phase = "Applying" /\ n.animating =>
          \/ c.phase = "Applying" /\ c.animating /\ n.proposal = c.proposal
          \/ /\ c.phase = "Planning" /\ c.animating
             /\ e.type = "RenderPlanComputed" /\ e.proposal = n.proposal
             /\ e.proposal.id = c.proposal.id

\* What the handling t of e in c must do to the timers.  All but recovery's
\* depend on what recovery starts.
Timely(c, e, t) ==
    /\ Arms(Base(c, e), t.next, Range(t.effects), TimerIds)
    /\ Carries(c, e, t.next, "Recovery")
    /\ Held(c) /\ ~LosesRecovery(e) =>
          /\ DelayHolds(t.next)
          /\ Carries(c, e, t.next, "Ingress")
          /\ Carries(c, e, t.next, "Animation")
          /\ PlanSound(c, e, t.next, Range(t.effects))

\* Only the timer of the event is disarmed.
LEMMA BaseIs ==
    ASSUME NEW c, CoreInv(c), NEW e \in Events
    PROVE  /\ CoreInv(Base(c, e)) /\ SameRest(c, Base(c, e))
           /\ \A x \in TimerIds :
                 /\ Base(c, e).timers[x].gen = c.timers[x].gen
                 /\ Base(c, e).timers[x] # c.timers[x] =>
                       /\ e.type \in {"TimerFired", "TimerLost"} /\ e.timer = x
                       /\ e.gen = c.timers[x].gen
                       /\ c.timers[x].armed /\ ~Base(c, e).timers[x].armed
<1>1. CASE Base(c, e) = c
  BY <1>1 DEF SameRest, SameProtocol
<1>2. CASE Base(c, e) # c
  <2> DEFINE timers == [c.timers EXCEPT ![e.timer].armed = FALSE]
             n      == [c EXCEPT !.timers = timers]
  <2>1. /\ e.type \in {"TimerFired", "TimerLost"} /\ e.timer \in TimerIds
        /\ c.timers[e.timer] = [gen |-> e.gen, armed |-> TRUE]
        /\ Base(c, e) = n
    BY <1>2, EventFields DEF Base, Disarm, IsActive
  <2>2. c.timers \in Timers
    BY FieldTypes DEF CoreInv
  <2>3. /\ timers[e.timer].gen = e.gen /\ ~timers[e.timer].armed
        /\ \A x \in TimerIds : x # e.timer => timers[x] = c.timers[x]
        /\ timers \in Timers
    <3> DEFINE z == c.timers[e.timer]
               y == [z EXCEPT !.armed = FALSE]
    <3>1. z \in [gen : Nat, armed : BOOLEAN] /\ z.gen = e.gen
      BY <2>1, <2>2 DEF Timers
    <3>2. timers = [c.timers EXCEPT ![e.timer] = y]
      OBVIOUS
    <3> HIDE DEF timers, z
    <3>3. y \in [gen : Nat, armed : BOOLEAN] /\ y.gen = e.gen /\ ~y.armed
      BY <3>1
    <3> HIDE DEF y
    <3> QED BY <2>1, <2>2, <3>2, <3>3 DEF Timers
  <2> HIDE DEF timers
  <2>4. CoreInv(n) /\ SameRest(c, n) /\ n.timers = timers
    BY <2>3 DEF CoreInv, CoreStates, SameRest, SameProtocol
  <2> QED BY <2>1, <2>3, <2>4
<1> QED BY <1>1, <1>2

\* Timers armed before an observation starts,
LEMMA CollectsTimely ==
    ASSUME NEW c, NEW e, NEW b, NEW s, NEW t, NEW F, NEW X,
           Arms(Base(c, e), b, F, X), PlanFree(F),
           Held(c) => DelayHolds(b), b.proposals = c.proposals, c.proposals \in Nat,
           Collects(b, s), t.next = s.next, Range(t.effects) = F \cup Range(s.effects)
    PROVE  Timely(c, e, t)
<1>1. Arms(Base(c, e), s.next, F, X)
  BY DEF Arms, Collects
<1>2. Arms(Base(c, e), t.next, Range(t.effects), TimerIds)
  <2>1. \A f \in Range(s.effects) : ~IsSchedule(f)
    BY DEF Collects, IsSchedule
  <2> QED BY <1>1, <2>1, ArmsAmong DEF Arms
<1>3. t.next.phase = "Collecting"
  BY DEF Collects
<1>4. Held(c) => DelayHolds(t.next)
  BY <1>3 DEF Collects, DelayHolds, QueuedKinds
<1>5. PlanSound(c, e, t.next, Range(t.effects))
  BY <1>3 DEF PlanSound, Collects, PlanFree
<1> QED BY <1>2, <1>3, <1>4, <1>5 DEF Timely, Carries, NeedsTimer, AcceptsObservation

\* ... or before recovery does,
LEMMA RecoversTimely ==
    ASSUME NEW c, NEW e, NEW b, NEW s, NEW t, NEW F, NEW X,
           Arms(Base(c, e), b, F, X), "Recovery" \notin X, PlanFree(F),
           Held(c) => DelayHolds(b), b.proposals = c.proposals, c.proposals \in Nat,
           Recovers(b, s), t.next = s.next, Range(t.effects) = F \cup Range(s.effects)
    PROVE  Timely(c, e, t)
<1>1. Arms(Base(c, e), s.next, F \cup Range(s.effects), X \cup {"Recovery"})
  BY ArmsThen DEF Recovers
<1>2. "Recovery" \in TimerIds /\ X \subseteq TimerIds
  BY DEF Arms, TimerIds
<1>3. Arms(Base(c, e), t.next, Range(t.effects), TimerIds)
  BY <1>1, <1>2 DEF Arms
<1>4. t.next.phase = "Recovering" /\ t.next.timers["Recovery"] # Base(c, e).timers["Recovery"]
  BY <1>2 DEF Recovers, Arms
<1>5. Held(c) => DelayHolds(t.next)
  BY <1>4 DEF Recovers, DelayHolds, QueuedKinds
<1>6. PlanSound(c, e, t.next, Range(t.effects))
  BY <1>4 DEF PlanSound, Recovers, PlanFree
<1> QED BY <1>3, <1>4, <1>5, <1>6 DEF Timely, Carries, NeedsTimer, AcceptsObservation

\* ... a plan that goes on with the animation,
LEMMA PlansTimely ==
    ASSUME NEW c, NEW e, NEW b, NEW d, NEW t, Plans(b, d, t),
           b.timers = Base(c, e).timers, Held(c) => DelayHolds(b),
           b.proposals = c.proposals, c.proposals \in Nat,
           GoesOn => (d.running => d.animate)
    PROVE  Timely(c, e, t)
<1>1. Arms(Base(c, e), t.next, Range(t.effects), TimerIds)
  BY UntouchedArms DEF Plans, IsSchedule
<1>2. t.next.phase = "Planning"
  BY DEF Plans
<1>3. Held(c) => DelayHolds(t.next)
  BY <1>2 DEF Plans, DelayHolds, QueuedKinds
<1>4. PlanSound(c, e, t.next, Range(t.effects))
  BY <1>2 DEF PlanSound, Plans
<1> QED BY <1>1, <1>2, <1>3, <1>4 DEF Timely, Carries, NeedsTimer, AcceptsObservation

\* Nothing that a timer is needed for differs.
SameNeeds(c, n) ==
    /\ n.phase = c.phase /\ n.proposal = c.proposal /\ n.proposals = c.proposals
    /\ n.animating = c.animating /\ n.delay = c.delay
    /\ QueuedKinds(c) \subseteq QueuedKinds(n)

\* ... and handling that leaves all of that alone: the event's timer is not
\* needed, and a failure is ignored before the core is initialized only.
LEMMA RestsTimely ==
    ASSUME NEW c, NEW e, NEW t, SameNeeds(c, t.next), c.proposals \in Nat,
           Arms(Base(c, e), t.next, Range(t.effects), TimerIds),
           PlanFree(Range(t.effects)),
           \A x \in TimerIds : NeedsTimer(c, x) =>
              t.next.timers[x] # Base(c, e).timers[x] \/ t.next.timers[x] = c.timers[x],
           Aborts(e) => c.phase = "Idle"
    PROVE  Timely(c, e, t)
<1>1. \A x : NeedsTimer(t.next, x) <=> NeedsTimer(c, x)
  BY DEF NeedsTimer, SameNeeds, AcceptsObservation
<1>2. \A x \in TimerIds : Carries(c, e, t.next, x)
  BY <1>1 DEF Carries, NeedsTimer, AcceptsObservation
<1>3. {"Recovery", "Ingress", "Animation"} \subseteq TimerIds
  BY DEF TimerIds
<1>4. Held(c) => DelayHolds(t.next)
  BY DEF Held, DelayHolds, SameNeeds
<1>5. PlanSound(c, e, t.next, Range(t.effects))
  BY DEF PlanSound, SameNeeds, PlanFree
<1> QED BY <1>2, <1>3, <1>4, <1>5 DEF Timely

\* In particular nothing may be done,
LEMMA StayTimely ==
    ASSUME NEW c, CoreInv(c), NEW e, Base(c, e) = c, Aborts(e) => c.phase = "Idle"
    PROVE  Timely(c, e, Stay(c))
<1>1. /\ Stay(c).next = c /\ Range(Stay(c).effects) = {} /\ c.proposals \in Nat
  BY FieldTypes, FewEffects DEF Stay, CoreInv
<1>2. Arms(Base(c, e), c, {}, TimerIds)
  BY UntouchedArms
<1> QED BY <1>1, <1>2, RestsTimely DEF SameNeeds, PlanFree

\* ... or cleanup's timer armed.
LEMMA CleansTimely ==
    ASSUME NEW c, CoreInv(c), NEW e \in Events, NEW b, SameNeeds(c, b),
           b.timers = Base(c, e).timers, NEW t, Cleans(b, t), ~Aborts(e),
           Base(c, e) = c \/ ~NeedsTimer(c, e.timer)
    PROVE  Timely(c, e, t)
<1>1. /\ c.proposals \in Nat
      /\ \A x \in TimerIds : Base(c, e).timers[x] # c.timers[x] => x = e.timer
  BY BaseIs, FieldTypes DEF CoreInv
<1>2. SameNeeds(c, t.next)
  BY DEF Cleans, SameRest, SameProtocol, SameNeeds, QueuedKinds
<1>3. Arms(Base(c, e), t.next, Range(t.effects), TimerIds)
  BY DEF Cleans, Arms
<1>4. \A x \in TimerIds : NeedsTimer(c, x) => Base(c, e).timers[x] = c.timers[x]
  BY <1>1
<1>5. \A x \in TimerIds : NeedsTimer(c, x) =>
         t.next.timers[x] # Base(c, e).timers[x] \/ t.next.timers[x] = c.timers[x]
  BY <1>4
<1> QED BY <1>1, <1>2, <1>3, <1>5, RestsTimely DEF Cleans

\* What waits for the shell needs no timer.
LEMMA WaitsTimely ==
    ASSUME NEW c, NEW e, NEW t, t.next.phase \in {"Collecting", "Observing"},
           t.next.timers = Base(c, e).timers, t.next.delay = c.delay,
           t.next.queue = c.queue, t.next.proposals = c.proposals, c.proposals \in Nat,
           PlanFree(Range(t.effects)), \A f \in Range(t.effects) : ~IsSchedule(f)
    PROVE  Timely(c, e, t)
<1>1. Arms(Base(c, e), t.next, Range(t.effects), TimerIds)
  BY UntouchedArms
<1>2. Held(c) => DelayHolds(t.next)
  BY DEF Held, DelayHolds, QueuedKinds
<1>3. PlanSound(c, e, t.next, Range(t.effects))
  BY DEF PlanSound, PlanFree
<1> QED BY <1>1, <1>2, <1>3 DEF Timely, Carries, NeedsTimer, AcceptsObservation

\* Observing or planning next needs no timer either, nor does having nothing
\* to observe or plan on.
LEMMA ObserveOrPlanTimely ==
    ASSUME NEW c, NEW e, NEW b, CoreInv(b), AcceptsObservation(b),
           b.timers = Base(c, e).timers, Held(c) => DelayHolds(b),
           b.proposals = c.proposals, NEW d \in Decisions, GoesOn => (d.running => d.animate)
    PROVE  Timely(c, e, ObserveOrPlan(b, d))
<1> DEFINE t == ObserveOrPlan(b, d)
<1>1. b \in CoreStates /\ b.proposals \in Nat
  BY FieldTypes DEF CoreInv
<1>2. \/ QueuedKinds(b) # {} /\ Collects(b, t)
      \/ QueuedKinds(b) = {} /\ Plans(b, d, t)
      \/ QueuedKinds(b) = {} /\ b.phase = "Primed" /\ t = Stay(b)
  BY <1>1, ObserveOrPlanMoves
<1> SUFFICES Timely(c, e, t)
  OBVIOUS
<1> HIDE DEF t
<1>3. Arms(Base(c, e), b, {}, {}) /\ Arms(Base(c, e), b, {}, TimerIds)
  BY UntouchedArms
<1>4. CASE Collects(b, t)
  BY <1>1, <1>3, <1>4, CollectsTimely DEF PlanFree
<1>5. CASE Plans(b, d, t)
  BY <1>1, <1>5, PlansTimely
<1>6. CASE QueuedKinds(b) = {} /\ b.phase = "Primed" /\ t = Stay(b)
  <2>1. t.next = b /\ Range(t.effects) = {}
    BY <1>6, FewEffects DEF Stay
  <2>2. Held(c) => b.delay = "none" /\ DelayHolds(b)
    BY <1>6 DEF DelayHolds
  <2>3. PlanSound(c, e, b, {})
    BY <1>1, <1>6 DEF PlanSound
  <2> QED BY <1>3, <1>6, <2>1, <2>2, <2>3 DEF Timely, Carries, NeedsTimer
<1> QED BY <1>2, <1>4, <1>5, <1>6

-----------------------------------------------------------------------------
(* The handlers. *)

\* Only a timer's own event disarms it.
LEMMA BaseOfOthers ==
    ASSUME NEW c, NEW e, e.type \notin {"TimerFired", "TimerLost"}
    PROVE  Base(c, e) = c /\ ~LosesRecovery(e)
  BY DEF Base, LosesRecovery

\* Initialize.
LEMMA InitializeTimely ==
    ASSUME NEW c, CoreInv(c), NEW e \in Events, e.type = "Initialize"
    PROVE  Timely(c, e, ReduceInitialize(c))
<1>1. Base(c, e) = c /\ ~Aborts(e)
  BY BaseOfOthers DEF Aborts
<1>2. CASE c.phase # "Idle"
  BY <1>1, <1>2, StayTimely DEF ReduceInitialize
<1>3. CASE c.phase = "Idle"
  <2> DEFINE n == [c EXCEPT !.phase = "Primed"]
  <2>1. /\ ReduceInitialize(c).next = n /\ Range(ReduceInitialize(c).effects) = {}
        /\ n.phase = "Primed" /\ n.timers = c.timers /\ n.delay = c.delay
        /\ n.proposals = c.proposals /\ c.proposals \in Nat
    BY <1>3, FewEffects, FieldTypes DEF ReduceInitialize, Stay, CoreInv, CoreStates
  <2> HIDE DEF n
  <2>2. Arms(c, n, {}, TimerIds)
    BY <2>1, UntouchedArms
  <2>3. Held(c) => n.delay = "none"
    BY <1>3, <2>1 DEF Held, DelayHolds
  <2>4. PlanSound(c, e, n, {})
    BY <2>1 DEF PlanSound
  <2> QED BY <1>1, <2>1, <2>2, <2>3, <2>4
          DEF Timely, Carries, NeedsTimer, DelayHolds
<1> QED BY <1>2, <1>3

\* A delayed cursor demand has its timer, armed now or before.
LEMMA DelayedTimely ==
    ASSUME NEW c, CoreInv(c), NEW e, Base(c, e) = c, ~Aborts(e), AcceptsObservation(c),
           NEW b \in CoreStates, NEW F, Arms(c, b, F, {"Cleanup"}), PlanFree(F),
           b.phase = c.phase, b.animating = c.animating, b.delay = c.delay,
           b.proposals = c.proposals, b.proposal = c.proposal, QueuedKinds(b) # {},
           NEW t, t.next = DelayedCursorIngress(b).next,
           Range(t.effects) = F \cup Range(DelayedCursorIngress(b).effects)
    PROVE  Timely(c, e, t)
<1> DEFINE s == DelayedCursorIngress(b)
<1>1. /\ c.proposals \in Nat /\ {"Ingress", "Animation", "Recovery"} \subseteq TimerIds
  BY FieldTypes DEF CoreInv, TimerIds
<1>2. /\ Arms(b, s.next, Range(s.effects), {"Ingress"})
      /\ PlanFree(Range(s.effects))
      /\ s.next.phase = b.phase /\ s.next.animating = b.animating
      /\ s.next.delay # "none" /\ s.next.queue = b.queue
      /\ s.next.proposals = b.proposals
      /\ b.delay = "none" => s.next.timers["Ingress"] # b.timers["Ingress"]
      /\ b.delay # "none" => s.next.timers = b.timers
  <2>1. CASE b.delay # "none"
    <3> DEFINE n == [b EXCEPT !.delay = "extended"]
    <3>1. s = Stay(n)
      BY <2>1 DEF DelayedCursorIngress
    <3>2. /\ n.phase = b.phase /\ n.animating = b.animating /\ n.delay # "none"
          /\ n.queue = b.queue /\ n.proposals = b.proposals /\ n.timers = b.timers
      BY DEF CoreStates
    <3> HIDE DEF n, s
    <3>3. s.next = n /\ Range(s.effects) = {}
      BY <3>1, FewEffects DEF Stay
    <3> QED BY <1>1, <2>1, <3>2, <3>3, UntouchedArms DEF PlanFree
  <2>2. CASE b.delay = "none"
    <3> DEFINE n == [b EXCEPT !.delay = "armed"]
    <3>1. s = ScheduleTimerWithDelay(n, "Ingress")
      BY <2>2 DEF DelayedCursorIngress
    <3>2. /\ n.phase = b.phase /\ n.animating = b.animating /\ n.delay # "none"
          /\ n.queue = b.queue /\ n.proposals = b.proposals /\ n.timers = b.timers
          /\ n \in CoreStates
      BY DEF CoreStates, Delays
    <3> HIDE DEF n, s
    <3>3. /\ Arms(n, s.next, Range(s.effects), {"Ingress"})
          /\ s.next.timers["Ingress"] # n.timers["Ingress"]
          /\ SameRest(n, s.next) /\ PlanFree(Range(s.effects))
      BY <1>1, <3>1, <3>2, ScheduleArms
    <3>4. Arms(b, s.next, Range(s.effects), {"Ingress"})
      BY <3>2, <3>3 DEF Arms
    <3> QED BY <2>2, <3>2, <3>3, <3>4 DEF SameRest, SameProtocol
  <2> QED BY <2>1, <2>2
<1> HIDE DEF s
<1>3. Arms(c, s.next, Range(t.effects), {"Cleanup"} \cup {"Ingress"})
  BY <1>2, ArmsThen DEF s
<1>4. t.next = s.next /\ Range(t.effects) = F \cup Range(s.effects)
  BY DEF s
<1>5. Arms(c, t.next, Range(t.effects), TimerIds)
  BY <1>3, <1>4 DEF Arms, TimerIds
<1>6. /\ s.next.timers["Animation"] = c.timers["Animation"]
      /\ s.next.timers["Ingress"] = b.timers["Ingress"]
            => s.next.timers["Ingress"] = c.timers["Ingress"]
      /\ b.timers["Ingress"] = c.timers["Ingress"]
  BY <1>1, <1>2, <1>3 DEF Arms
<1>7. Carries(c, e, t.next, "Animation") /\ Carries(c, e, t.next, "Recovery")
  BY <1>2, <1>4, <1>6 DEF Carries, NeedsTimer, AcceptsObservation
<1>8. Carries(c, e, t.next, "Ingress")
  BY <1>2, <1>4, <1>6 DEF Carries, NeedsTimer, AcceptsObservation
<1>9. DelayHolds(t.next)
  BY <1>2, <1>4 DEF DelayHolds, QueuedKinds, AcceptsObservation
<1>10. PlanSound(c, e, t.next, Range(t.effects))
  BY <1>1, <1>2, <1>4 DEF PlanSound, PlanFree, AcceptsObservation
<1> QED BY <1>5, <1>7, <1>8, <1>9, <1>10 DEF Timely

\* A new demand starts, is held back, or waits behind what there is.
LEMMA ExternalDemandQueuedTimely ==
    ASSUME NEW c, CoreInv(c), NEW e \in Events, e.type = "ExternalDemandQueued"
    PROVE  Timely(c, e, ReduceExternalDemandQueued(c, e))
<1> DEFINE queue  == [c.queue EXCEPT ![e.kind] = c.seq + 1]
           queued == [c EXCEPT !.seq = c.seq + 1, !.queue = queue]
           hot    == EnterHotCleanup(queued)
           b      == hot.next
           p      == PresentationEffects(c, e)
           T(s)   == [next |-> s.next, effects |-> p \o (s.effects \o hot.effects)]
           F      == Range(p) \cup Range(hot.effects)
<1>1. Base(c, e) = c /\ ~Aborts(e) /\ c.proposals \in Nat
  BY BaseOfOthers, FieldTypes DEF Aborts, CoreInv
<1>2. e.kind \in DemandKinds /\ c.seq + 1 \in Nat /\ c.seq + 1 # 0
      /\ c.queue \in Queues
  BY EventFields, FieldTypes DEF CoreInv, DemandKinds
<1>3. /\ queue \in Queues /\ queue[e.kind] # 0
      /\ \A k \in DemandKinds : c.queue[k] # 0 => queue[k] # 0
  BY <1>2 DEF Queues
<1> HIDE DEF queue
<1>4. /\ queued \in CoreStates /\ queued.timers = c.timers /\ SameNeeds(c, queued)
      /\ QueuedKinds(queued) # {}
  <2>1. /\ queued \in CoreStates /\ queued.timers = c.timers /\ queued.queue = queue
        /\ queued.phase = c.phase /\ queued.proposal = c.proposal
        /\ queued.proposals = c.proposals /\ queued.animating = c.animating
        /\ queued.delay = c.delay
    BY <1>2, <1>3 DEF CoreInv, CoreStates
  <2> HIDE DEF queued
  <2> QED BY <1>2, <1>3, <2>1 DEF SameNeeds, QueuedKinds
<1> HIDE DEF queued
<1>5. Cleans(queued, hot)
  BY <1>4, EnterHotCleans
<1>6. /\ b \in CoreStates /\ hot.effects \in Seq(Effects)
      /\ SameNeeds(c, b) /\ QueuedKinds(b) # {}
      /\ Arms(c, b, Range(hot.effects), {"Cleanup"}) /\ PlanFree(Range(hot.effects))
  BY <1>4, <1>5
  DEF Cleans, Arms, SameRest, SameProtocol, SameNeeds, QueuedKinds
<1> HIDE DEF hot
<1>7. /\ p \in Seq(Effects)
      /\ \A f \in Range(p) : ~IsSchedule(f) /\ f.type # "RequestRenderPlan"
  <2> DEFINE f == [type |-> "ApplyIngressCursorPresentation"]
             g == [type |-> "RecordMetric"]
  <2>1. f \in Effects /\ g \in Effects
    BY DEF Effects
  <2>2. Range(<<f, g>>) = {f, g} /\ <<f, g>> \in Seq(Effects)
    BY <2>1 DEF Range
  <2>3. p \in {<<>>, <<f, g>>, <<f>>}
    BY DEF PresentationEffects
  <2> HIDE DEF p
  <2>4. <<f>> \in Seq(Effects) /\ <<>> \in Seq(Effects)
    BY <2>1
  <2>5. \A x \in {f, g} : ~IsSchedule(x) /\ x.type # "RequestRenderPlan"
    BY DEF IsSchedule
  <2> HIDE DEF f, g
  <2>6. p \in Seq(Effects) /\ Range(p) \subseteq {f, g}
    BY <2>2, <2>3, <2>4, FewEffects
  <2> QED BY <2>5, <2>6
<1>8. ASSUME NEW s, s.effects \in Seq(Effects)
      PROVE  Range(T(s).effects) = F \cup Range(s.effects) /\ T(s).next = s.next
  <2> HIDE DEF p
  <2>1. s.effects \o hot.effects \in Seq(Effects)
        /\ Range(s.effects \o hot.effects) = Range(s.effects) \cup Range(hot.effects)
    BY <1>6, <1>8, RangeOfParts
  <2> DEFINE q == s.effects \o hot.effects
  <2>2. q \in Seq(Effects) /\ Range(q) = Range(s.effects) \cup Range(hot.effects)
    BY <2>1
  <2> HIDE DEF q
  <2>3. Range(p \o q) = Range(p) \cup Range(q)
    BY <1>7, <2>2, RangeOfParts
  <2>4. T(s).effects = p \o q /\ T(s).next = s.next
    BY DEF q
  <2> HIDE DEF T
  <2> QED BY <2>2, <2>3, <2>4
<1>9. Arms(c, b, F, {"Cleanup"}) /\ Arms(c, b, F, TimerIds) /\ PlanFree(F)
  BY <1>6, <1>7, ArmsAmong DEF PlanFree, TimerIds
<1>10. ReduceExternalDemandQueued(c, e)
         = IF c.phase = "Idle" THEN Stay(c)
           ELSE IF ~AcceptsObservation(c) THEN T(Stay(b))
           ELSE IF e.kind = CursorKind /\ DelaysCursor
           THEN T(DelayedCursorIngress(b)) ELSE T(StartNextObservation(b))
  BY DEF ReduceExternalDemandQueued, QueueExternalDemand, hot, queued, queue
<1> HIDE DEF p, b, F, T
<1>11. CASE c.phase = "Idle"
  BY <1>1, <1>10, <1>11, StayTimely
<1>12. CASE c.phase # "Idle" /\ ~AcceptsObservation(c)
  <2>1. Stay(b).effects \in Seq(Effects) /\ Range(Stay(b).effects) = {} /\ Stay(b).next = b
    BY EffectSequences, FewEffects DEF Stay
  <2>2. Range(T(Stay(b)).effects) = F /\ T(Stay(b)).next = b
    BY <1>8, <2>1
  <2>3. \A x \in TimerIds : NeedsTimer(c, x) => b.timers[x] = c.timers[x]
    BY <1>9 DEF Arms, NeedsTimer
  <2> DEFINE t == T(Stay(b))
  <2>4. /\ SameNeeds(c, t.next) /\ Arms(Base(c, e), t.next, Range(t.effects), TimerIds)
        /\ PlanFree(Range(t.effects))
        /\ \A x \in TimerIds : NeedsTimer(c, x) => t.next.timers[x] = c.timers[x]
    BY <1>1, <1>6, <1>9, <2>2, <2>3
  <2> HIDE DEF t
  <2>5. Timely(c, e, t)
    BY <1>1, <2>4, RestsTimely
  <2> QED BY <1>10, <1>12, <2>5 DEF t
<1>13. CASE AcceptsObservation(c) /\ e.kind = CursorKind /\ DelaysCursor
  <2> DEFINE s == DelayedCursorIngress(b)
             t == T(s)
  <2>1. s.effects \in Seq(Effects)
    <3>1. CoreInv(b)
      BY <1>6, <1>13 DEF CoreInv, SameNeeds, AcceptsObservation
    <3> QED BY <3>1, DelayedCursorIngressTyped DEF IsTransition
  <2>2. t.next = s.next /\ Range(t.effects) = F \cup Range(s.effects)
    BY <1>8, <2>1
  <2> HIDE DEF t
  <2>3. Timely(c, e, t)
    BY <1>1, <1>6, <1>9, <1>13, <2>2, DelayedTimely DEF SameNeeds
  <2> QED BY <1>10, <1>13, <2>3 DEF t, AcceptsObservation
<1>14. CASE AcceptsObservation(c) /\ ~(e.kind = CursorKind /\ DelaysCursor)
  <2> DEFINE s == StartNextObservation(b)
             t == T(s)
  <2>1. CoreInv(b) /\ AcceptsObservation(b)
    BY <1>6, <1>14 DEF CoreInv, SameNeeds, AcceptsObservation
  <2>2. s.effects \in Seq(Effects) /\ Collects(b, s)
    BY <1>6, <2>1, StartNextTyped, StartNextCollects DEF IsTransition
  <2>3. t.next = s.next /\ Range(t.effects) = F \cup Range(s.effects)
    BY <1>8, <2>2
  <2>4. DelayHolds(b)
    BY <1>6, <2>1 DEF DelayHolds, AcceptsObservation
  <2> HIDE DEF t, s
  <2>5. Timely(c, e, t)
    BY <1>1, <1>6, <1>9, <2>2, <2>3, <2>4, CollectsTimely DEF SameNeeds
  <2> QED BY <1>10, <1>14, <2>5 DEF t, s, AcceptsObservation
<1> QED BY <1>11, <1>12, <1>13, <1>14

\* A base leads to its probes or to a plan.
LEMMA ObservationBaseCollectedTimely ==
    ASSUME NEW c, CoreInv(c), NEW e \in Events, NEW d \in Decisions,
           GoesOn => (d.running => d.animate), e.type = "ObservationBaseCollected"
    PROVE  Timely(c, e, ReduceObservationBaseCollected(c, e, d))
<1> DEFINE obs   == [kind |-> c.demand.kind, seq |-> c.demand.seq,
                     color |-> IF SamplesCursorColor /\ e.samples
                               THEN "pending" ELSE "done",
                     chunks |-> e.chunks, inexact |-> e.inexact]
           base  == [c EXCEPT !.obs = obs, !.demand = NoDemand]
           look  == [base EXCEPT !.phase = "Observing"]
           ready == [base EXCEPT !.phase = "Ready", !.refresh = NoRefreshes]
           t     == ReduceObservationBaseCollected(c, e, d)
<1>1. Base(c, e) = c /\ ~Aborts(e) /\ c.proposals \in Nat
  BY BaseOfOthers, FieldTypes DEF Aborts, CoreInv
<1>2. CASE c.phase # "Collecting" \/ c.demand.seq # e.id
  BY <1>1, <1>2, StayTimely DEF ReduceObservationBaseCollected
<1>3. CASE c.phase = "Collecting" /\ c.demand.seq = e.id
  <2>1. obs \in Observations
    BY EventFields, FieldTypes DEF Observations, Demands, CoreInv
  <2>2. t = IF NextPendingProbeEffects(obs) # <<>>
            THEN [next |-> look, effects |-> NextPendingProbeEffects(obs)]
            ELSE PlanReadyState(ready, d)
    BY <1>3 DEF ReduceObservationBaseCollected
  <2> HIDE DEF obs
  <2>3. /\ look.phase = "Observing" /\ look.timers = c.timers /\ look.delay = c.delay
        /\ look.queue = c.queue /\ look.proposals = c.proposals
        /\ ready \in CoreStates /\ ready.phase = "Ready" /\ ready.timers = c.timers
        /\ ready.delay = c.delay /\ ready.queue = c.queue
        /\ ready.proposals = c.proposals
    BY <2>1, EmptyValues, Phases DEF CoreInv, CoreStates
  <2> HIDE DEF look, ready
  <2> SUFFICES Timely(c, e, t)
    OBVIOUS
  <2> HIDE DEF t
  <2>4. CASE NextPendingProbeEffects(obs) # <<>>
    <3>1. t.next = look /\ Range(t.effects) = Range(NextPendingProbeEffects(obs))
      BY <2>2, <2>4
    <3>2. \A f \in Range(t.effects) : ~IsSchedule(f) /\ f.type # "RequestRenderPlan"
      BY <3>1, ProbesAreProbes DEF IsSchedule
    <3> QED BY <1>1, <2>3, <3>1, <3>2, WaitsTimely DEF PlanFree
  <2>5. CASE NextPendingProbeEffects(obs) = <<>>
    <3>1. Plans(ready, d, t)
      BY <2>2, <2>3, <2>5, PlanReadyPlans
    <3>2. Held(c) => DelayHolds(ready)
      BY <2>3 DEF Held, DelayHolds, QueuedKinds
    <3> QED BY <1>1, <2>3, <3>1, <3>2, PlansTimely
  <2> QED BY <2>4, <2>5
<1> QED BY <1>2, <1>3

\* An outdated observation is made again, or gives its turn away.
LEMMA RefreshRequiredTimely ==
    ASSUME NEW c, CoreInv(c), NEW e, Base(c, e) = c, ~Aborts(e), NEW p \in ProbeKinds,
           NEW d \in Decisions, GoesOn => (d.running => d.animate)
    PROVE  Timely(c, e, ReduceRefreshRequired(c, p, d))
<1> DEFINE primed == [c EXCEPT !.phase = "Primed", !.obs = NoObservation,
                               !.refresh = NoRefreshes]
           demand == ActiveDemand(c)
           tried  == [c.refresh EXCEPT ![p] = c.refresh[p] + 1]
           again  == [c EXCEPT !.phase = "Collecting", !.demand = demand,
                               !.refresh = tried]
           t      == ReduceRefreshRequired(c, p, d)
<1>1. c.proposals \in Nat
  BY FieldTypes DEF CoreInv
<1>2. CASE c.phase # "Observing"
  BY <1>2, StayTimely DEF ReduceRefreshRequired
<1>3. CASE c.phase = "Observing" /\ c.refresh[p] = MaxProbeRefreshRetries
  <2>1. /\ CoreInv(primed) /\ primed.phase = "Primed" /\ primed.timers = c.timers
        /\ primed.delay = c.delay /\ primed.queue = c.queue
        /\ primed.proposals = c.proposals
    BY EmptyValues, Phases DEF CoreInv, CoreStates
  <2>2. t = ObserveOrPlan(primed, d)
    BY <1>3 DEF ReduceRefreshRequired
  <2> HIDE DEF primed, t
  <2>3. Held(c) => DelayHolds(primed)
    BY <2>1 DEF Held, DelayHolds, QueuedKinds
  <2>4. Timely(c, e, t)
    BY <2>1, <2>2, <2>3, ObserveOrPlanTimely DEF AcceptsObservation
  <2> QED BY <2>4 DEF t
<1>4. CASE c.phase = "Observing" /\ c.refresh[p] # MaxProbeRefreshRetries
  <2>1. t = [next |-> again, effects |-> <<RequestObservationBase(demand)>>]
    BY <1>4 DEF ReduceRefreshRequired
  <2>2. /\ again.phase = "Collecting" /\ again.timers = c.timers
        /\ again.delay = c.delay /\ again.queue = c.queue
        /\ again.proposals = c.proposals
    BY DEF CoreInv, CoreStates
  <2>3. RequestObservationBase(demand).type = "RequestObservationBase"
    BY DEF RequestObservationBase
  <2> HIDE DEF again, demand, t
  <2>4. /\ t.next = again
        /\ \A f \in Range(t.effects) : ~IsSchedule(f) /\ f.type # "RequestRenderPlan"
    BY <2>1, <2>3, FewEffects DEF IsSchedule
  <2>5. Timely(c, e, t)
    BY <1>1, <2>2, <2>4, WaitsTimely DEF PlanFree
  <2> QED BY <2>5 DEF t
<1> QED BY <1>2, <1>3, <1>4

\* A probe report leads to the next probe or to a plan.
LEMMA ProbeReportedTimely ==
    ASSUME NEW c, CoreInv(c), NEW e \in Events, NEW d \in Decisions,
           GoesOn => (d.running => d.animate), e.type = "ProbeReported"
    PROVE  Timely(c, e, ReduceProbeReported(c, e, d))
<1> DEFINE obs     == ApplyProbeReport(c.obs, e)
           updated == [c EXCEPT !.obs = obs]
           ready   == [updated EXCEPT !.phase = "Ready", !.refresh = NoRefreshes]
           probes  == NextPendingProbeEffects(obs)
           t       == ReduceProbeReported(c, e, d)
           fits    == /\ c.phase \in {"Observing", "Ready", "Planning", "Applying"}
                      /\ AcceptsProbeReport(c.obs, e)
<1>1. Base(c, e) = c /\ ~Aborts(e) /\ c.proposals \in Nat
  BY BaseOfOthers, FieldTypes DEF Aborts, CoreInv
<1>2. CASE ~fits
  BY <1>1, <1>2, StayTimely DEF ReduceProbeReported
<1>3. CASE fits /\ e.outcome = "refresh"
  <2>1. e.probe \in ProbeKinds
    BY EventFields
  <2> QED BY <1>1, <1>3, <2>1, RefreshRequiredTimely DEF ReduceProbeReported
<1>4. CASE fits /\ e.outcome # "refresh"
  <2>1. obs \in Observations
    BY <1>4, FieldTypes, ApplyProbeReportTyped DEF CoreInv
  <2>2. updated.obs = obs
    BY DEF CoreInv, CoreStates
  <2>3. t = IF probes # <<>> THEN [next |-> updated, effects |-> probes]
            ELSE IF c.phase = "Observing" THEN PlanReadyState(ready, d)
            ELSE Stay(updated)
    BY <1>4, <2>2 DEF ReduceProbeReported
  <2> HIDE DEF obs
  <2>4. /\ SameNeeds(c, updated) /\ updated.timers = c.timers
        /\ ready \in CoreStates /\ ready.phase = "Ready" /\ ready.timers = c.timers
        /\ ready.delay = c.delay /\ ready.queue = c.queue
        /\ ready.proposals = c.proposals
    BY <2>1, EmptyValues, Phases DEF CoreInv, CoreStates, SameNeeds, QueuedKinds
  <2> SUFFICES Timely(c, e, t)
    OBVIOUS
  <2> HIDE DEF updated, ready, t
  <2>5. CASE probes # <<>> \/ c.phase # "Observing"
    <3>1. t.next = updated /\ Range(t.effects) \in {Range(probes), {}}
      BY <2>3, <2>5, FewEffects DEF Stay
    <3>2. \A f \in Range(t.effects) : ~IsSchedule(f) /\ f.type # "RequestRenderPlan"
      BY <3>1, ProbesAreProbes DEF IsSchedule
    <3>3. Arms(Base(c, e), t.next, Range(t.effects), TimerIds)
      BY <1>1, <2>4, <3>1, <3>2, UntouchedArms
    <3> QED BY <1>1, <2>4, <3>1, <3>2, <3>3, RestsTimely DEF PlanFree
  <2>6. CASE probes = <<>> /\ c.phase = "Observing"
    <3>1. Plans(ready, d, t)
      BY <2>3, <2>4, <2>6, PlanReadyPlans
    <3>2. Held(c) => DelayHolds(ready)
      BY <2>4 DEF Held, DelayHolds, QueuedKinds
    <3> QED BY <1>1, <2>4, <3>1, <3>2, PlansTimely
  <2> QED BY <2>5, <2>6
<1> QED BY <1>2, <1>3, <1>4

\* Recovery from a state in which nothing but the failed request differs.
LEMMA RecoveringTimely ==
    ASSUME NEW c, CoreInv(c), NEW e, Base(c, e) = c, NEW b, CoreInv(b),
           b.timers = c.timers, b.proposals = c.proposals, Held(c) => DelayHolds(b)
    PROVE  Timely(c, e, EnterRecovering(b))
<1> DEFINE s == EnterRecovering(b)
<1>1. /\ Recovers(b, s) /\ c.proposals \in Nat /\ PlanFree({})
      /\ {} \cup Range(s.effects) = Range(s.effects)
  BY EnterRecoveringRecovers, FieldTypes DEF CoreInv, PlanFree
<1>2. Arms(c, b, {}, {})
  BY UntouchedArms
<1> HIDE DEF s
<1>3. Timely(c, e, s)
  BY <1>1, <1>2, RecoversTimely
<1> QED BY <1>3 DEF s

\* A plan is applied, or ends in recovery.
LEMMA RenderPlanTimely ==
    ASSUME NEW c, CoreInv(c), NEW e \in Events
    PROVE  /\ e.type = "RenderPlanComputed" =>
                 Timely(c, e, ReduceRenderPlanComputed(c, e))
           /\ e.type = "RenderPlanFailed" =>
                 Timely(c, e, ReduceRenderPlanFailed(c, e))
<1>1. ASSUME e.type \in {"RenderPlanComputed", "RenderPlanFailed"}
      PROVE  /\ Base(c, e) = c /\ ~Aborts(e) /\ c.proposals \in Nat
             /\ Timely(c, e, Stay(c))
  BY <1>1, BaseOfOthers, FieldTypes, StayTimely DEF Aborts, CoreInv
<1>2. ASSUME e.type = "RenderPlanComputed", c.phase = "Planning",
             c.proposal.id = e.proposal.id
      PROVE  Timely(c, e, ReduceRenderPlanComputed(c, e))
  <2> DEFINE n == [c EXCEPT !.phase = "Applying", !.proposal = e.proposal]
             f == [type |-> "ApplyProposal", proposal |-> e.proposal]
             t == ReduceRenderPlanComputed(c, e)
  <2>1. t = [next |-> n, effects |-> <<f>>]
    BY <1>2 DEF ReduceRenderPlanComputed
  <2>2. /\ n.phase = "Applying" /\ n.timers = c.timers /\ n.delay = c.delay
        /\ n.queue = c.queue /\ n.proposals = c.proposals
        /\ n.animating = c.animating /\ n.proposal = e.proposal
    BY DEF CoreInv, CoreStates
  <2>3. f.type = "ApplyProposal"
    OBVIOUS
  <2> SUFFICES Timely(c, e, t)
    OBVIOUS
  <2> HIDE DEF n, f, t
  <2>4. /\ t.next = n
        /\ \A g \in Range(t.effects) : ~IsSchedule(g) /\ g.type # "RequestRenderPlan"
    BY <2>1, <2>3, FewEffects DEF IsSchedule
  <2>5. Arms(Base(c, e), n, Range(t.effects), TimerIds)
    BY <1>1, <1>2, <2>2, <2>4, UntouchedArms
  <2>6. Held(c) => DelayHolds(n)
    BY <1>2, <2>2 DEF Held, DelayHolds, QueuedKinds
  <2>7. PlanSound(c, e, n, Range(t.effects))
    BY <1>1, <1>2, <2>2, <2>4 DEF PlanSound
  <2> QED BY <2>2, <2>4, <2>5, <2>6, <2>7
          DEF Timely, Carries, NeedsTimer, AcceptsObservation
<1>3. ASSUME e.type = "RenderPlanFailed"
      PROVE  Timely(c, e, EnterRecovering(c))
  BY <1>1, <1>3, RecoveringTimely DEF Held
<1> QED BY <1>1, <1>2, <1>3 DEF ReduceRenderPlanComputed, ReduceRenderPlanFailed

\* A completed apply goes on with an observation, or rests with the timer that
\* an animation needs.
LEMMA ApplyCompletedTimely ==
    ASSUME NEW c, CoreInv(c), c.phase = "Applying", NEW e \in Events,
           e.type = "ApplyReported"
    PROVE  Timely(c, e, ReduceApplyCompleted(c, e))
<1> DEFINE p       == c.proposal
           ready   == [c EXCEPT !.phase = "Ready", !.proposal = NoProposal,
                                !.ledger = Acknowledge(p.target)]
           cleanup == AdvanceCleanupForProposal(ready, p.cleanup)
           c1      == cleanup.next
           observe == IF /\ QueuedKinds(c1) = {}
                         /\ ~p.animate
                         /\ ExactBoundaryRefreshRequired(c1)
                      THEN StartBoundaryRefreshObservation(c1)
                      ELSE StartNextObservation(c1)
           animate == IF p.animate
                      THEN ScheduleTimerWithDelay(observe.next, "Animation")
                      ELSE Stay(observe.next)
           o       == observe.next
           n       == animate.next
           before  == cleanup.effects \o RedrawEffects(e)
           mid     == before \o observe.effects
           t       == ReduceApplyCompleted(c, e)
           F       == Range(before)
<1>1. p \in Proposals /\ c.proposals \in Nat /\ Base(c, e) = c
  BY BaseOfOthers, FieldTypes DEF CoreInv
<1>2. /\ CoreInv(ready) /\ ready.phase = "Ready" /\ ready.timers = c.timers
      /\ ready.delay = c.delay /\ ready.queue = c.queue
      /\ ready.proposals = c.proposals /\ ready.animating = c.animating
  BY <1>1, ProposalFields, EmptyValues, Phases DEF CoreInv, CoreStates
<1>3. t = [next |-> n, effects |-> mid \o animate.effects]
  BY DEF ReduceApplyCompleted
<1> SUFFICES Timely(c, e, t)
  OBVIOUS
<1> HIDE DEF ready, t
<1>4. Cleans(ready, cleanup)
  BY <1>1, <1>2, ProposalFields, AdvanceCleans DEF CoreInv
<1>5. /\ CoreInv(c1) /\ c1.phase = "Ready" /\ c1.animating = c.animating
      /\ c1.delay = c.delay /\ c1.queue = c.queue /\ c1.proposals = c.proposals
      /\ Arms(c, c1, Range(cleanup.effects), {"Cleanup"})
      /\ cleanup.effects \in Seq(Effects) /\ PlanFree(Range(cleanup.effects))
  BY <1>2, <1>4 DEF Cleans, SameRest, SameProtocol, CoreInv, Arms
<1>6. /\ RedrawEffects(e) \in Seq(Effects)
      /\ \A f \in Range(RedrawEffects(e)) :
            ~IsSchedule(f) /\ f.type # "RequestRenderPlan"
  BY RedrawTyped, FewEffects DEF RedrawEffects, IsSchedule
<1> HIDE DEF cleanup
<1>7. /\ before \in Seq(Effects)
      /\ F = Range(cleanup.effects) \cup Range(RedrawEffects(e))
  BY <1>5, <1>6, RangeOfParts, EffectSequences
<1>8. Arms(c, c1, F, {"Cleanup"}) /\ PlanFree(F)
  BY <1>5, <1>6, <1>7, ArmsAmong DEF PlanFree, Arms
<1> HIDE DEF c1, before, F
<1>9. /\ IsTransition(observe)
      /\ \/ Collects(c1, observe)
         \/ QueuedKinds(c1) = {} /\ observe = Stay(c1)
  BY <1>5, StartNextTyped, StartBoundaryRefreshTyped, StartNextCollects,
     BoundaryCollects DEF CoreInv, AcceptsObservation
<1> HIDE DEF observe
<1>10. /\ CoreInv(o) /\ o.timers = c1.timers /\ o.proposals = c.proposals
       /\ observe.effects \in Seq(Effects)
       /\ \A f \in Range(observe.effects) :
             ~IsSchedule(f) /\ f.type # "RequestRenderPlan"
       /\ \/ o.phase = "Collecting"
          \/ QueuedKinds(c1) = {} /\ o = c1
       /\ o.delay = "none" \/ (o.delay = c1.delay /\ o.queue = c1.queue)
  BY <1>5, <1>9, FewEffects
  DEF IsTransition, Collects, Stay, IsSchedule
<1>11. /\ mid \in Seq(Effects)
       /\ Range(mid) = F \cup Range(observe.effects)
  BY <1>7, <1>10, RangeOfParts, EffectSequences DEF F
<1>12. Arms(c, o, Range(mid), {"Cleanup"}) /\ PlanFree(Range(mid))
  <2>1. Arms(c, o, F, {"Cleanup"})
    BY <1>8, <1>10 DEF Arms
  <2> QED BY <1>8, <1>10, <1>11, <2>1, ArmsAmong DEF PlanFree, Arms
<1> HIDE DEF o, mid
<1>13. /\ Arms(o, n, Range(animate.effects), {"Animation"})
       /\ SameRest(o, n) /\ PlanFree(Range(animate.effects))
       /\ animate.effects \in Seq(Effects)
       /\ p.animate => n.timers["Animation"] # o.timers["Animation"]
  <2>1. o \in CoreStates /\ "Animation" \in TimerIds
    BY <1>10 DEF CoreInv, TimerIds
  <2>2. CASE p.animate
    <3>1. animate = ScheduleTimerWithDelay(o, "Animation")
      BY <2>2 DEF o
    <3> HIDE DEF animate
    <3> QED BY <2>1, <3>1, ScheduleArms, ScheduleTimerTyped DEF TimersOnly
  <2>3. CASE ~p.animate
    <3>1. animate = Stay(o)
      BY <2>3 DEF o
    <3> HIDE DEF animate
    <3>2. n = o /\ animate.effects = <<>>
      BY <3>1 DEF Stay
    <3> QED BY <2>1, <2>3, <3>2, FewEffects, EffectSequences, UntouchedArms
            DEF SameRest, SameProtocol, PlanFree
  <2> QED BY <2>2, <2>3
<1> HIDE DEF animate
<1>14. Arms(c, n, Range(mid) \cup Range(animate.effects), {"Cleanup"} \cup {"Animation"})
  BY <1>12, <1>13, ArmsThen
<1>15. t.next = n /\ Range(t.effects) = Range(mid) \cup Range(animate.effects)
  BY <1>3, <1>11, <1>13, RangeOfParts
<1>16. Arms(c, t.next, Range(t.effects), TimerIds)
  BY <1>14, <1>15 DEF Arms, TimerIds
<1>17. n.phase = "Collecting" \/ (n.phase = "Ready" /\ o = c1 /\ QueuedKinds(c1) = {})
  BY <1>5, <1>10, <1>13 DEF SameRest, SameProtocol
<1>18. PlanSound(c, e, n, Range(t.effects))
  <2>1. n.proposals = c.proposals
    BY <1>10, <1>13 DEF SameRest
  <2> QED BY <1>1, <1>12, <1>13, <1>15, <1>17, <2>1 DEF PlanSound, PlanFree
<1>19. Held(c) => DelayHolds(n)
  BY <1>5, <1>10, <1>13, <1>17
  DEF Held, DelayHolds, QueuedKinds, SameRest, SameProtocol
<1>20. Held(c) /\ n.phase = "Ready" => n.delay = "none"
  BY <1>17, <1>19, <1>13 DEF DelayHolds, SameRest, SameProtocol, QueuedKinds
<1>21. Held(c) /\ n.phase = "Ready" /\ n.animating =>
          n.timers["Animation"] # c.timers["Animation"]
  <2>1. o.timers["Animation"] = c.timers["Animation"]
    BY <1>12 DEF Arms, TimerIds
  <2>2. Held(c) /\ n.phase = "Ready" /\ n.animating => p.animate
    BY <1>5, <1>13, <1>17 DEF Held, SameRest
  <2> QED BY <1>13, <2>1, <2>2
<1> QED BY <1>1, <1>15, <1>16, <1>17, <1>18, <1>19, <1>20, <1>21
        DEF Timely, Carries, NeedsTimer, AcceptsObservation

\* Any other ends in recovery.
LEMMA ApplyNonSuccessTimely ==
    ASSUME NEW c, CoreInv(c), c.phase = "Applying", NEW e, Base(c, e) = c
    PROVE  Timely(c, e, ReduceApplyNonSuccess(c, e))
<1> DEFINE diverged == [c EXCEPT !.ledger = Diverged]
           cleanup  == AdvanceCleanupForProposal(diverged, c.proposal.cleanup)
           b        == cleanup.next
           recover  == EnterRecovering(b)
           before   == cleanup.effects \o RedrawEffects(e)
           t        == ReduceApplyNonSuccess(c, e)
           F        == Range(before)
<1>1. /\ CoreInv(diverged) /\ diverged.timers = c.timers /\ SameNeeds(c, diverged)
      /\ diverged.queue = c.queue /\ c.proposals \in Nat
  BY EmptyValues, FieldTypes DEF CoreInv, CoreStates, SameNeeds, QueuedKinds
<1>2. t = [next |-> recover.next, effects |-> before \o recover.effects]
  BY DEF ReduceApplyNonSuccess
<1> SUFFICES Timely(c, e, t)
  OBVIOUS
<1> HIDE DEF diverged, t
<1>3. Cleans(diverged, cleanup)
  BY <1>1, ProposalFields, AdvanceCleans DEF CoreInv
<1>4. /\ b \in CoreStates /\ CoreInv(b) /\ b.delay = c.delay /\ b.queue = c.queue
      /\ b.proposals = c.proposals /\ b.phase = c.phase
      /\ Arms(c, b, Range(cleanup.effects), {"Cleanup"})
      /\ cleanup.effects \in Seq(Effects) /\ PlanFree(Range(cleanup.effects))
  BY <1>1, <1>3 DEF Cleans, SameRest, SameProtocol, SameNeeds, CoreInv, Arms
<1>5. /\ RedrawEffects(e) \in Seq(Effects)
      /\ \A f \in Range(RedrawEffects(e)) :
            ~IsSchedule(f) /\ f.type # "RequestRenderPlan"
  BY RedrawTyped, FewEffects DEF RedrawEffects, IsSchedule
<1> HIDE DEF cleanup
<1>6. /\ before \in Seq(Effects)
      /\ F = Range(cleanup.effects) \cup Range(RedrawEffects(e))
  BY <1>4, <1>5, RangeOfParts, EffectSequences
<1>7. Arms(c, b, F, {"Cleanup"}) /\ PlanFree(F)
  BY <1>4, <1>5, <1>6, ArmsAmong DEF PlanFree, Arms
<1> HIDE DEF b
<1>8. Recovers(b, recover) /\ recover.effects \in Seq(Effects)
  BY <1>4, EnterRecoveringRecovers, EnterRecoveringTyped DEF IsTransition
<1> HIDE DEF recover, before
<1>9. t.next = recover.next /\ Range(t.effects) = F \cup Range(recover.effects)
  BY <1>2, <1>6, <1>8, RangeOfParts
<1>10. Held(c) => DelayHolds(b)
  BY <1>4 DEF Held, DelayHolds, QueuedKinds
<1> HIDE DEF F
<1> QED BY <1>1, <1>4, <1>7, <1>8, <1>9, <1>10, RecoversTimely

\* The handlers of an apply report and of a failure.
LEMMA ApplyReportedTimely ==
    ASSUME NEW c, CoreInv(c), NEW e \in Events, e.type = "ApplyReported"
    PROVE  Timely(c, e, ReduceApplyReported(c, e))
<1>1. Base(c, e) = c /\ ~Aborts(e)
  BY BaseOfOthers DEF Aborts
<1> QED BY <1>1, StayTimely, ApplyCompletedTimely, ApplyNonSuccessTimely
        DEF ReduceApplyReported

\* A failure, reported by the shell or of the whole drain.
LEMMA EffectFailedTimely ==
    ASSUME NEW c, CoreInv(c), NEW e \in Events, e.type = "EffectFailed"
    PROVE  Timely(c, e, ReduceEffectFailed(c, e))
<1> DEFINE requeued == RequeueActiveDemand(c)
           cleared  == [requeued EXCEPT !.obs = NoObservation]
<1>1. Base(c, e) = c
  BY BaseOfOthers
<1>2. CASE c.phase = "Idle"
  BY <1>1, <1>2, StayTimely DEF ReduceEffectFailed
<1>3. CASE c.phase # "Idle" /\ e.id = 0
  <2>1. ReduceEffectFailed(c, e) \in {EnterRecovering(requeued), EnterRecovering(cleared)}
    BY <1>3 DEF ReduceEffectFailed
  <2>2. /\ CoreInv(requeued) /\ requeued.timers = c.timers
        /\ requeued.proposals = c.proposals
        /\ Held(c) => DelayHolds(requeued)
    BY RequeueTyped, RequeueKeeps DEF Held, DelayHolds
  <2> HIDE DEF requeued
  <2>3. /\ CoreInv(cleared) /\ cleared.timers = c.timers
        /\ cleared.proposals = c.proposals
        /\ Held(c) => DelayHolds(cleared)
    BY <2>2, EmptyValues DEF CoreInv, CoreStates, DelayHolds, QueuedKinds
  <2> HIDE DEF cleared
  <2> QED BY <1>1, <2>1, <2>2, <2>3, RecoveringTimely
<1>4. CASE c.phase # "Idle" /\ e.id # 0
  BY <1>1, <1>4, StayTimely, ApplyNonSuccessTimely DEF ReduceEffectFailed, Aborts
<1> QED BY <1>2, <1>3, <1>4

\* The reports of cleanup and of retained resources.
LEMMA CleanupTimely ==
    ASSUME NEW c, CoreInv(c), NEW e \in Events
    PROVE  /\ e.type = "RenderCleanupApplied" =>
                 Timely(c, e, ReduceRenderCleanupApplied(c, e))
           /\ e.type = "RetainedResourcesObserved" =>
                 Timely(c, e, ReduceRetainedResourcesObserved(c, e))
<1> DEFINE report == e.type \in {"RenderCleanupApplied", "RetainedResourcesObserved"}
<1>1. report => Base(c, e) = c /\ ~Aborts(e)
  BY BaseOfOthers DEF Aborts
<1>2. ASSUME report, NEW k \in Cleanups, NEW l \in Ledgers, NEW due \in BOOLEAN
      PROVE  LET n == [c EXCEPT !.cleanup = k, !.ledger = l]
             IN Timely(c, e, Stay(n)) /\ Timely(c, e, EmitCleanupOrArm(n, due))
  <2> DEFINE n == [c EXCEPT !.cleanup = k, !.ledger = l]
  <2>1. n \in CoreStates /\ n.timers = c.timers /\ SameNeeds(c, n)
    BY DEF CoreInv, CoreStates, SameNeeds, QueuedKinds
  <2> HIDE DEF n, report
  <2>2. Cleans(n, Stay(n)) /\ Cleans(n, EmitCleanupOrArm(n, due))
    BY <2>1, StayCleans, EmitCleans
  <2>3. Timely(c, e, Stay(n)) /\ Timely(c, e, EmitCleanupOrArm(n, due))
    BY <1>1, <1>2, <2>1, <2>2, CleansTimely
  <2> QED BY <2>3 DEF n
<1>3. report => Timely(c, e, Stay(c))
  BY <1>1, StayTimely
<1>4. ASSUME e.type = "RenderCleanupApplied"
      PROVE  Timely(c, e, ReduceRenderCleanupApplied(c, e))
  <2> DEFINE k       == CleanupStateAfterApplied(c.cleanup, e.action)
             l       == LedgerAfterCleanup(c.ledger)
             applied == [c EXCEPT !.cleanup = k, !.ledger = l]
             dueNow  == \/ e.action = "SoftClearedNone"
                        \/ e.action = "NoProgress" /\ e.due
  <2>1. k \in Cleanups /\ l \in Ledgers /\ dueNow \in BOOLEAN
    BY <1>4, FieldTypes, EventFields, CleanupAppliedTyped, LedgerAfterCleanupTyped
    DEF CoreInv
  <2> HIDE DEF k, l
  <2>2. ReduceRenderCleanupApplied(c, e)
          \in {Stay(c), Stay(applied), EmitCleanupOrArm(applied, dueNow)}
    BY DEF ReduceRenderCleanupApplied, k, l
  <2> HIDE DEF dueNow
  <2> QED BY <1>2, <1>3, <1>4, <2>1, <2>2
<1>5. ASSUME e.type = "RetainedResourcesObserved"
      PROVE  Timely(c, e, ReduceRetainedResourcesObserved(c, e))
  <2> DEFINE k    == IF c.cleanup.thermal = "Hot" THEN c.cleanup
                     ELSE [c.cleanup EXCEPT !.thermal = "Cooling", !.pushed = FALSE]
             l    == LedgerAfterCleanup(c.ledger)
             next == [c EXCEPT !.cleanup = k, !.ledger = l]
             due  == c.cleanup.thermal = "Hot" /\ e.due
  <2>1. k \in Cleanups /\ l \in Ledgers /\ due \in BOOLEAN
    BY <1>5, FieldTypes, EventFields, CleanupValues, LedgerAfterCleanupTyped
    DEF CoreInv
  <2> HIDE DEF k, l
  <2>2. ReduceRetainedResourcesObserved(c, e)
          \in {Stay(c), Stay(next), EmitCleanupOrArm(next, due)}
    BY DEF ReduceRetainedResourcesObserved, k, l
  <2> HIDE DEF due
  <2> QED BY <1>2, <1>3, <1>5, <2>1, <2>2
<1> QED BY <1>4, <1>5

\* The ingress delay ends with an observation, or with nothing to wait for; an
\* early timer is armed again.
LEMMA IngressTimely ==
    ASSUME NEW c, CoreInv(c), NEW e \in Events, ~Aborts(e), NEW b, CoreInv(b),
           b = Base(c, e), SameNeeds(c, b), b.queue = c.queue, e.timer = "Ingress"
    PROVE  /\ Timely(c, e, IngressDelayOver(b))
           /\ \A due \in BOOLEAN : Timely(c, e, IngressTimerSignal(b, due))
<1> DEFINE over  == [b EXCEPT !.delay = "none"]
           armed == [b EXCEPT !.delay = "armed"]
<1>1. /\ c.proposals \in Nat /\ b.proposals = c.proposals /\ b.phase = c.phase
      /\ "Ingress" \in TimerIds
      /\ \A x \in TimerIds : b.timers[x] # c.timers[x] => x = "Ingress"
  BY BaseIs, FieldTypes DEF CoreInv, SameNeeds, TimerIds
<1>2. /\ over \in CoreStates /\ over.timers = b.timers /\ over.delay = "none"
      /\ over.phase = c.phase /\ over.proposals = c.proposals
      /\ over.animating = c.animating /\ over.proposal = c.proposal
      /\ armed \in CoreStates /\ armed.timers = b.timers /\ armed.queue = b.queue
      /\ armed.phase = c.phase /\ armed.proposals = c.proposals
      /\ armed.animating = c.animating /\ armed.proposal = c.proposal
      /\ armed.delay = "armed"
  BY DEF CoreInv, CoreStates, Delays, SameNeeds
<1>3. /\ IngressDelayOver(b) = IF AcceptsObservation(b) THEN StartNextObservation(over)
                               ELSE Stay(over)
      /\ \A due \in BOOLEAN :
            IngressTimerSignal(b, due)
              = IF b.delay = "none" THEN Stay(b)
                ELSE IF AcceptsObservation(b) /\ ~due
                THEN ScheduleTimerWithDelay(armed, "Ingress")
                ELSE IngressDelayOver(b)
  BY DEF IngressDelayOver, IngressTimerSignal
<1> HIDE DEF over, armed
<1>4. /\ Arms(Base(c, e), over, {}, TimerIds) /\ Arms(Base(c, e), over, {}, {})
      /\ Arms(Base(c, e), b, {}, TimerIds)
  BY <1>2, UntouchedArms
<1>5. Timely(c, e, Stay(over))
  <2>1. Stay(over).next = over /\ Range(Stay(over).effects) = {}
    BY FewEffects DEF Stay
  <2>2. PlanSound(c, e, over, {})
    BY <1>1, <1>2 DEF PlanSound
  <2>3. /\ over.timers["Animation"] = c.timers["Animation"]
        /\ over.timers["Recovery"] = c.timers["Recovery"]
    BY <1>1, <1>2 DEF TimerIds
  <2> QED BY <1>1, <1>2, <1>4, <2>1, <2>2, <2>3
          DEF Timely, Carries, NeedsTimer, DelayHolds, AcceptsObservation
<1>6. AcceptsObservation(over) => Timely(c, e, StartNextObservation(over))
  <2> SUFFICES ASSUME AcceptsObservation(over), QueuedKinds(over) # {}
               PROVE  Timely(c, e, StartNextObservation(over))
    BY <1>2, <1>5, StartNextCollects
  <2> DEFINE s == StartNextObservation(over)
  <2>1. Collects(over, s) /\ {} \cup Range(s.effects) = Range(s.effects)
    BY <1>2, StartNextCollects
  <2> HIDE DEF s
  <2>2. DelayHolds(over) /\ PlanFree({})
    BY <1>2 DEF DelayHolds, PlanFree
  <2>3. Timely(c, e, s)
    BY <1>1, <1>2, <1>4, <2>1, <2>2, CollectsTimely
  <2> QED BY <2>3 DEF s
<1>7. Timely(c, e, IngressDelayOver(b))
  BY <1>1, <1>2, <1>3, <1>5, <1>6 DEF AcceptsObservation
<1>8. b.delay = "none" => Timely(c, e, Stay(b))
  <2>1. Stay(b).next = b /\ Range(Stay(b).effects) = {}
    BY FewEffects DEF Stay
  <2>2. b.delay = "none" => \A x \in TimerIds : NeedsTimer(c, x) => b.timers[x] = c.timers[x]
    BY <1>1 DEF NeedsTimer, SameNeeds
  <2> QED BY <1>1, <1>4, <2>1, <2>2, RestsTimely DEF PlanFree
<1>9. b.delay # "none" => Timely(c, e, ScheduleTimerWithDelay(armed, "Ingress"))
  <2> DEFINE t == ScheduleTimerWithDelay(armed, "Ingress")
  <2>1. /\ Arms(armed, t.next, Range(t.effects), {"Ingress"})
        /\ t.next.timers["Ingress"] # armed.timers["Ingress"]
        /\ SameRest(armed, t.next) /\ PlanFree(Range(t.effects))
    BY <1>1, <1>2, ScheduleArms
  <2> HIDE DEF t
  <2>2. Arms(Base(c, e), t.next, Range(t.effects), TimerIds)
    BY <1>1, <1>2, <2>1 DEF Arms
  <2>3. /\ t.next.timers["Animation"] = c.timers["Animation"]
        /\ t.next.timers["Recovery"] = c.timers["Recovery"]
    BY <1>1, <1>2, <2>1 DEF Arms, TimerIds
  <2>4. b.delay # "none" /\ Held(c) => DelayHolds(t.next)
    BY <1>1, <1>2, <2>1
    DEF Held, DelayHolds, QueuedKinds, SameRest, SameProtocol, SameNeeds
  <2>5. PlanSound(c, e, t.next, Range(t.effects))
    BY <1>1, <1>2, <2>1 DEF PlanSound, PlanFree, SameRest, SameProtocol
  <2>6. b.delay # "none" => Timely(c, e, t)
    BY <1>1, <1>2, <2>1, <2>2, <2>3, <2>4, <2>5
    DEF Timely, Carries, NeedsTimer, AcceptsObservation, SameRest, SameProtocol
  <2> QED BY <2>6 DEF t
<1> QED BY <1>3, <1>7, <1>8, <1>9

\* A timer's own event, when it is the newest token's, disarms it and nothing
\* else.
LEMMA BaseOfTimers ==
    ASSUME NEW c, CoreInv(c), NEW e \in Events, e.type \in {"TimerFired", "TimerLost"}
    PROVE  LET b == Base(c, e)
           IN /\ e.timer \in TimerIds /\ e.due \in BOOLEAN /\ ~Aborts(e)
              /\ b = IF IsActive(c, e) THEN Disarm(c, e.timer) ELSE c
              /\ CoreInv(b) /\ SameNeeds(c, b) /\ b.queue = c.queue
              /\ AcceptsObservation(b) <=> AcceptsObservation(c)
              /\ Arms(b, b, {}, TimerIds)
              /\ ~NeedsTimer(c, e.timer) => Timely(c, e, Stay(b))
<1> DEFINE b == Base(c, e)
<1>1. e.timer \in TimerIds /\ e.due \in BOOLEAN /\ ~Aborts(e) /\ c.proposals \in Nat
  BY EventFields, FieldTypes DEF Aborts, CoreInv
<1>2. /\ CoreInv(b) /\ SameRest(c, b) /\ Arms(b, b, {}, TimerIds)
      /\ \A x \in TimerIds : b.timers[x] # c.timers[x] => x = e.timer
  <2>1. /\ CoreInv(b) /\ SameRest(c, b)
        /\ \A x \in TimerIds : b.timers[x] # c.timers[x] => x = e.timer
    BY BaseIs
  <2>2. Arms(b, b, {}, TimerIds)
    <3> HIDE DEF b
    <3> QED BY DEF Arms
  <2> QED BY <2>1, <2>2
<1>3. b = IF IsActive(c, e) THEN Disarm(c, e.timer) ELSE c
  BY DEF Base
<1>4. SameNeeds(c, b) /\ b.queue = c.queue
  BY <1>2 DEF SameRest, SameProtocol, SameNeeds, QueuedKinds
<1>5. AcceptsObservation(b) <=> AcceptsObservation(c)
  BY <1>4 DEF SameNeeds, AcceptsObservation
<1>6. ~NeedsTimer(c, e.timer) => Timely(c, e, Stay(b))
  <2>1. Stay(b).next = b /\ Range(Stay(b).effects) = {}
    BY FewEffects DEF Stay
  <2>2. ~NeedsTimer(c, e.timer) =>
           \A x \in TimerIds : NeedsTimer(c, x) => b.timers[x] = c.timers[x]
    BY <1>2
  <2> HIDE DEF b
  <2>3. ~NeedsTimer(c, e.timer) => Timely(c, e, Stay(b))
    BY <1>1, <1>2, <1>4, <2>1, <2>2, RestsTimely DEF PlanFree, b
  <2> QED BY <2>3
<1> HIDE DEF b
<1> QED BY <1>1, <1>2, <1>3, <1>4, <1>5, <1>6 DEF b

\* A timer that fires.
LEMMA TimerFiredTimely ==
    ASSUME NEW c, CoreInv(c), NEW e \in Events, NEW d \in Decisions,
           GoesOn => (d.running => d.animate), e.type = "TimerFired"
    PROVE  Timely(c, e, ReduceTimerFired(c, e, d))
<1> DEFINE b == Base(c, e)
<1>1. /\ e.timer \in TimerIds /\ e.due \in BOOLEAN /\ ~Aborts(e)
      /\ CoreInv(b) /\ SameNeeds(c, b) /\ b.queue = c.queue
      /\ AcceptsObservation(b) <=> AcceptsObservation(c)
      /\ ~NeedsTimer(c, e.timer) => Timely(c, e, Stay(b))
      /\ b = IF IsActive(c, e) THEN Disarm(c, e.timer) ELSE c
  BY BaseOfTimers
<1>2. CASE ~IsActive(c, e)
  BY <1>1, <1>2, StayTimely DEF ReduceTimerFired
<1>3. CASE IsActive(c, e)
  <2>1. b = Disarm(c, e.timer)
    BY <1>1, <1>3
  <2>2. ReduceTimerFired(c, e, d)
          = CASE e.timer = "Animation" -> AnimationTick(b, d)
              [] e.timer = "Ingress"   -> IngressTimerSignal(b, e.due)
              [] e.timer = "Recovery"  ->
                    IF c.phase = "Recovering"
                    THEN ObserveOrPlan(SettleRecovery(b), d)
                    ELSE Stay(b)
              [] e.timer = "Cleanup"   -> EmitCleanupOrArm(b, e.due)
    BY <1>3, <2>1 DEF ReduceTimerFired
  <2>3. b.proposals = c.proposals /\ b.delay = c.delay /\ c.proposals \in Nat
    BY <1>1, FieldTypes DEF SameNeeds, CoreInv
  <2>4. Held(c) => DelayHolds(b)
    BY <1>1 DEF Held, DelayHolds, QueuedKinds, SameNeeds
  <2>5. CASE e.timer = "Animation"
    <3>1. CASE ~AcceptsObservation(b)
      BY <1>1, <2>2, <2>5, <3>1 DEF AnimationTick, NeedsTimer, AcceptsObservation
    <3>2. CASE AcceptsObservation(b) /\ QueuedKinds(b) = {} /\ ExactBoundaryRefreshRequired(b)
      <4> DEFINE s == StartBoundaryRefreshObservation(b)
      <4>1. Collects(b, s) /\ {} \cup Range(s.effects) = Range(s.effects)
        BY <1>1, <3>2, BoundaryCollects DEF CoreInv
      <4>2. ReduceTimerFired(c, e, d) = s
        BY <2>2, <2>5, <3>2 DEF AnimationTick
      <4>3. Arms(Base(c, e), b, {}, {}) /\ PlanFree({})
        BY UntouchedArms DEF PlanFree
      <4> HIDE DEF s, b
      <4> QED BY <2>3, <2>4, <4>1, <4>2, <4>3, CollectsTimely
    <3>3. CASE AcceptsObservation(b) /\ ~(QueuedKinds(b) = {} /\ ExactBoundaryRefreshRequired(b))
      <4>1. ReduceTimerFired(c, e, d) = ObserveOrPlan(b, d)
        BY <2>2, <2>5, <3>3 DEF AnimationTick
      <4> QED BY <1>1, <2>3, <2>4, <3>3, <4>1, ObserveOrPlanTimely
    <3> QED BY <3>1, <3>2, <3>3
  <2>6. CASE e.timer = "Ingress"
    BY <1>1, <2>2, <2>6, IngressTimely
  <2>7. CASE e.timer = "Recovery" /\ c.phase = "Recovering"
    <3> DEFINE r == SettleRecovery(b)
    <3>1. /\ CoreInv(r) /\ r.phase \in {"Primed", "Ready"} /\ r.timers = b.timers
          /\ r.delay = b.delay /\ r.queue = b.queue /\ r.proposals = b.proposals
      <4>1. CoreInv(r)
        BY <1>1, SettleRecoveryTyped
      <4>2. /\ r.phase \in {"Primed", "Ready"} /\ r.timers = b.timers
            /\ r.delay = b.delay /\ r.queue = b.queue /\ r.proposals = b.proposals
        <5> HIDE DEF b
        <5> QED BY <1>1 DEF SettleRecovery, CoreInv, CoreStates
      <4> QED BY <4>1, <4>2
    <3> HIDE DEF r
    <3>2. Held(c) => DelayHolds(r)
      BY <2>4, <3>1 DEF DelayHolds, QueuedKinds
    <3>3. Timely(c, e, ObserveOrPlan(r, d))
      BY <2>3, <3>1, <3>2, ObserveOrPlanTimely DEF AcceptsObservation
    <3> QED BY <2>2, <2>7, <3>3 DEF r
  <2>8. CASE e.timer = "Recovery" /\ c.phase # "Recovering"
    BY <1>1, <2>2, <2>8 DEF NeedsTimer
  <2>9. CASE e.timer = "Cleanup"
    <3>1. Cleans(b, EmitCleanupOrArm(b, e.due)) /\ ~NeedsTimer(c, e.timer)
      BY <1>1, <2>9, EmitCleans DEF CoreInv, NeedsTimer
    <3> HIDE DEF b
    <3>2. Timely(c, e, EmitCleanupOrArm(b, e.due))
      BY <1>1, <3>1, CleansTimely DEF b
    <3> QED BY <2>2, <2>9, <3>2
  <2> QED BY <1>1, <2>5, <2>6, <2>7, <2>8, <2>9 DEF TimerIds
<1> QED BY <1>2, <1>3

\* A timer that is lost.
LEMMA TimerLostTimely ==
    ASSUME NEW c, CoreInv(c), NEW e \in Events, e.type = "TimerLost"
    PROVE  Timely(c, e, ReduceTimerLost(c, e))
<1> DEFINE b     == Base(c, e)
           still == [b EXCEPT !.animating = FALSE]
           owed  == b.cleanup.thermal # "Cold"
           k     == [b.cleanup EXCEPT !.quiesced = owed]
           quiet == [b EXCEPT !.cleanup = k]
           f     == [type |-> "ApplyRenderCleanup", execution |-> "SoftClear"]
           t     == ReduceTimerLost(c, e)
<1>1. /\ e.timer \in TimerIds /\ e.due \in BOOLEAN /\ ~Aborts(e)
      /\ CoreInv(b) /\ SameNeeds(c, b) /\ b.queue = c.queue
      /\ AcceptsObservation(b) <=> AcceptsObservation(c)
      /\ ~NeedsTimer(c, e.timer) => Timely(c, e, Stay(b))
      /\ b = IF IsActive(c, e) THEN Disarm(c, e.timer) ELSE c
      /\ c.proposals \in Nat
  BY BaseOfTimers, FieldTypes DEF CoreInv
<1>2. /\ \A x \in TimerIds : b.timers[x] # c.timers[x] => x = e.timer
      /\ {"Animation", "Ingress", "Recovery"} \subseteq TimerIds
  BY BaseIs DEF TimerIds
<1>3. CASE ~IsActive(c, e)
  BY <1>1, <1>3, StayTimely DEF ReduceTimerLost
<1>4. CASE IsActive(c, e)
  <2>1. t = CASE e.timer = "Animation" ->
                    IF ~AcceptsObservation(c) THEN Stay(b)
                    ELSE [next |-> still, effects |-> <<f>>]
              [] e.timer = "Ingress"   -> IngressDelayOver(b)
              [] e.timer = "Recovery"  ->
                    Stay(IF c.phase = "Recovering" THEN SettleRecovery(b) ELSE b)
              [] e.timer = "Cleanup"   ->
                    [next |-> quiet, effects |-> CleanupEffects(b, e.due)]
    BY <1>1, <1>4 DEF ReduceTimerLost
  <2> HIDE DEF t
  <2>2. CASE e.timer = "Animation" /\ AcceptsObservation(c)
    <3>1. /\ still.timers = b.timers /\ still.phase = c.phase /\ still.delay = c.delay
          /\ still.queue = c.queue /\ still.proposals = c.proposals
          /\ still.animating = FALSE
      <4> HIDE DEF b
      <4> QED BY <1>1 DEF CoreInv, CoreStates, SameNeeds
    <3>2. t = [next |-> still, effects |-> <<f>>]
      BY <2>1, <2>2
    <3> HIDE DEF still
    <3>3. t.next = still /\ Range(t.effects) = {f}
      BY <3>2, FewEffects
    <3>4. Arms(Base(c, e), still, {f}, TimerIds)
      BY <3>1, UntouchedArms DEF IsSchedule
    <3>5. Held(c) => DelayHolds(still)
      BY <3>1 DEF Held, DelayHolds, QueuedKinds
    <3>6. PlanSound(c, e, still, {f})
      BY <1>1, <3>1 DEF PlanSound
    <3>7. /\ still.timers["Ingress"] = c.timers["Ingress"]
          /\ still.timers["Recovery"] = c.timers["Recovery"]
      BY <1>2, <2>2, <3>1
    <3> HIDE DEF f
    <3>8. Timely(c, e, t)
      BY <1>1, <3>1, <3>3, <3>4, <3>5, <3>6, <3>7
      DEF Timely, Carries, NeedsTimer, AcceptsObservation
    <3> QED BY <3>8 DEF t
  <2>3. CASE e.timer = "Animation" /\ ~AcceptsObservation(c)
    BY <1>1, <2>1, <2>3 DEF NeedsTimer, AcceptsObservation, t
  <2>4. CASE e.timer = "Ingress"
    BY <1>1, <2>1, <2>4, IngressTimely DEF t
  <2>5. CASE e.timer = "Recovery" /\ c.phase = "Recovering"
    <3> DEFINE r == SettleRecovery(b)
    <3>1. r.phase # "Recovering" /\ r.timers = b.timers
      <4> HIDE DEF b
      <4> QED BY <1>1 DEF SettleRecovery, CoreInv, CoreStates
    <3>2. t = Stay(r)
      BY <2>1, <2>5
    <3> HIDE DEF r
    <3>3. t.next = r /\ Range(t.effects) = {}
      BY <3>2, FewEffects DEF Stay
    <3>4. Arms(Base(c, e), r, {}, TimerIds)
      BY <3>1, UntouchedArms
    <3>5. Timely(c, e, t)
      BY <2>5, <3>1, <3>3, <3>4 DEF Timely, Carries, NeedsTimer, LosesRecovery
    <3> QED BY <3>5 DEF t
  <2>6. CASE e.timer = "Recovery" /\ c.phase # "Recovering"
    BY <1>1, <2>1, <2>6 DEF NeedsTimer, t
  <2>7. CASE e.timer = "Cleanup"
    <3>1. k \in Cleanups
      BY <1>1, FieldTypes, CleanupValues DEF CoreInv
    <3> HIDE DEF k
    <3>2. SameNeeds(c, quiet) /\ quiet.timers = b.timers
      <4> HIDE DEF b
      <4> QED BY <1>1, <3>1 DEF CoreInv, CoreStates, SameNeeds, QueuedKinds
    <3>3. /\ t.next = quiet /\ Range(t.effects) = Range(CleanupEffects(b, e.due))
          /\ ~NeedsTimer(c, e.timer)
      BY <2>1, <2>7 DEF k, NeedsTimer
    <3> HIDE DEF quiet
    <3>4. \A g \in Range(t.effects) : ~IsSchedule(g) /\ g.type # "RequestRenderPlan"
      BY <1>1, <3>3, EmitCleans DEF CoreInv, IsSchedule
    <3>5. Arms(Base(c, e), t.next, Range(t.effects), TimerIds)
      BY <3>2, <3>3, <3>4, UntouchedArms
    <3>6. \A x \in TimerIds : NeedsTimer(c, x) => t.next.timers[x] = c.timers[x]
      BY <1>2, <3>2, <3>3
    <3>7. Timely(c, e, t)
      BY <1>1, <3>2, <3>3, <3>4, <3>5, <3>6, RestsTimely DEF PlanFree
    <3> QED BY <3>7 DEF t
  <2> QED BY <1>1, <2>2, <2>3, <2>4, <2>5, <2>6, <2>7 DEF TimerIds
<1> QED BY <1>3, <1>4

\* Whatever is handled, what the core then needs is armed anew or was needed,
\* and left alone.
THEOREM ReduceTimely ==
    ASSUME NEW c, CoreInv(c), NEW e \in Events, NEW d \in Decisions,
           GoesOn => (d.running => d.animate)
    PROVE  Timely(c, e, Reduce(c, e, d))
<1>1. e.type \in {"Initialize", "ExternalDemandQueued",
                  "ObservationBaseCollected", "ProbeReported",
                  "RenderPlanComputed", "RenderPlanFailed", "ApplyReported",
                  "RenderCleanupApplied", "RetainedResourcesObserved",
                  "EffectFailed", "TimerFired", "TimerLost"}
  BY DEF Events, EditorEvents, ShellEvents
<1> QED BY <1>1, InitializeTimely, ExternalDemandQueuedTimely,
           ObservationBaseCollectedTimely, ProbeReportedTimely,
           RenderPlanTimely, ApplyReportedTimely, CleanupTimely,
           EffectFailedTimely, TimerFiredTimely, TimerLostTimely
        DEF Reduce

-----------------------------------------------------------------------------
(* The order of the queue. *)

\* The rest of a sorted batch is sorted, and no newer than its head.
LEMMA SortedTail ==
    ASSUME NEW s \in Seq(Effects), s # <<>>, Sorted(s)
    PROVE  Sorted(Tail(s)) /\ \A g \in Range(Tail(s)) : Before(Head(s), g)
<1>1. /\ DOMAIN s = 1 .. Len(s) /\ Len(s) \in Nat \ {0}
      /\ DOMAIN Tail(s) = 1 .. Len(s) - 1
      /\ Head(s) = s[1] /\ \A i \in DOMAIN Tail(s) : Tail(s)[i] = s[i + 1]
  BY HeadTailProperties, LenProperties
<1>2. ASSUME NEW i \in DOMAIN Tail(s), NEW j \in DOMAIN Tail(s), i < j
      PROVE  Before(Tail(s)[i], Tail(s)[j])
  <2>1. i + 1 \in DOMAIN s /\ j + 1 \in DOMAIN s /\ i + 1 < j + 1
    BY <1>1, <1>2
  <2> QED BY <1>1, <2>1 DEF Sorted
<1>3. ASSUME NEW i \in DOMAIN Tail(s)
      PROVE  Before(Head(s), Tail(s)[i])
  <2>1. 1 \in DOMAIN s /\ i + 1 \in DOMAIN s /\ 1 < i + 1
    BY <1>1
  <2> QED BY <1>1, <2>1 DEF Sorted
<1> QED BY <1>2, <1>3 DEF Sorted, Range

\* Effects of one age are in order however they are queued.
LEMMA SortedOfOneAge ==
    ASSUME NEW w \in Seq(WorkItems), AllBefore(QueuedEffects(w), QueuedEffects(w))
    PROVE  QueueSorted(w)
<1>1. ASSUME NEW i \in DOMAIN w, w[i].item = "batch"
      PROVE  Range(w[i].effects) \subseteq QueuedEffects(w)
  BY <1>1 DEF QueuedEffects
<1>2. ASSUME NEW i \in DOMAIN w, w[i].item = "batch"
      PROVE  Sorted(w[i].effects)
  BY <1>1, <1>2 DEF Sorted, AllBefore, Range
<1>3. ASSUME NEW i \in DOMAIN w, NEW j \in DOMAIN w,
             w[i].item = "batch", w[j].item = "batch"
      PROVE  AllBefore(Range(w[i].effects), Range(w[j].effects))
  BY <1>1, <1>3 DEF AllBefore
<1> QED BY <1>2, <1>3 DEF QueueSorted

\* Newer effects go to the back.
LEMMA SortedBehind ==
    ASSUME NEW w \in Seq(WorkItems), NEW v \in Seq(WorkItems),
           QueueSorted(w), QueueSorted(v), AllBefore(QueuedEffects(w), QueuedEffects(v))
    PROVE  QueueSorted(w \o v)
<1> DEFINE q == w \o v
<1>1. /\ DOMAIN w = 1 .. Len(w) /\ Len(w) \in Nat
      /\ DOMAIN v = 1 .. Len(v) /\ Len(v) \in Nat
      /\ DOMAIN q = 1 .. Len(w) + Len(v)
      /\ \A i \in DOMAIN w : q[i] = w[i]
      /\ \A i \in DOMAIN q : i \notin DOMAIN w => i - Len(w) \in DOMAIN v /\ q[i] = v[i - Len(w)]
  BY ConcatProperties, LenProperties
<1> HIDE DEF q
<1>2. /\ \A i \in DOMAIN w : w[i].item = "batch" =>
            Range(w[i].effects) \subseteq QueuedEffects(w)
      /\ \A i \in DOMAIN v : v[i].item = "batch" =>
            Range(v[i].effects) \subseteq QueuedEffects(v)
  BY DEF QueuedEffects
<1>3. ASSUME NEW i \in DOMAIN q, q[i].item = "batch"
      PROVE  Sorted(q[i].effects)
  BY <1>1, <1>3 DEF QueueSorted
<1>4. ASSUME NEW i \in DOMAIN q, NEW j \in DOMAIN q, i < j,
             q[i].item = "batch", q[j].item = "batch"
      PROVE  AllBefore(Range(q[i].effects), Range(q[j].effects))
  <2>1. CASE j \in DOMAIN w
    <3>1. i \in DOMAIN w
      BY <1>1, <1>4, <2>1
    <3> QED BY <1>1, <1>4, <2>1, <3>1 DEF QueueSorted
  <2>2. CASE i \in DOMAIN w /\ j \notin DOMAIN w
    BY <1>1, <1>2, <1>4, <2>2 DEF AllBefore
  <2>3. CASE i \notin DOMAIN w
    <3>1. j \notin DOMAIN w /\ i - Len(w) < j - Len(w)
      BY <1>1, <1>4, <2>3
    <3> QED BY <1>1, <1>4, <2>3, <3>1 DEF QueueSorted
  <2> QED BY <2>1, <2>2, <2>3
<1>5. QueueSorted(q)
  BY <1>3, <1>4 DEF QueueSorted
<1> QED BY <1>5 DEF q

\* The oldest item is taken from the front.
LEMMA SortedRest ==
    ASSUME NEW w \in Seq(WorkItems), w # <<>>, QueueSorted(w)
    PROVE  /\ QueueSorted(Tail(w))
           /\ Head(w).item = "batch" =>
                 /\ Sorted(Head(w).effects)
                 /\ AllBefore(Range(Head(w).effects), QueuedEffects(Tail(w)))
<1> DEFINE r == Tail(w)
<1>1. /\ DOMAIN w = 1 .. Len(w) /\ Len(w) \in Nat \ {0}
      /\ DOMAIN r = 1 .. Len(w) - 1
      /\ Head(w) = w[1] /\ \A i \in DOMAIN r : r[i] = w[i + 1]
  BY HeadTailProperties, LenProperties
<1> HIDE DEF r
<1>2. ASSUME NEW i \in DOMAIN r, r[i].item = "batch"
      PROVE  /\ Sorted(r[i].effects)
             /\ \A j \in DOMAIN r : i < j /\ r[j].item = "batch" =>
                   AllBefore(Range(r[i].effects), Range(r[j].effects))
  <2>1. i + 1 \in DOMAIN w /\ w[i + 1] = r[i]
    BY <1>1
  <2>2. ASSUME NEW j \in DOMAIN r, i < j
        PROVE  j + 1 \in DOMAIN w /\ i + 1 < j + 1 /\ w[j + 1] = r[j]
    BY <1>1, <2>2
  <2> QED BY <1>2, <2>1, <2>2 DEF QueueSorted
<1>3. ASSUME Head(w).item = "batch"
      PROVE  /\ Sorted(Head(w).effects)
             /\ AllBefore(Range(Head(w).effects), QueuedEffects(r))
  <2>1. ASSUME NEW j \in DOMAIN r, r[j].item = "batch"
        PROVE  AllBefore(Range(Head(w).effects), Range(r[j].effects))
    <3>1. 1 \in DOMAIN w /\ j + 1 \in DOMAIN w /\ 1 < j + 1 /\ w[j + 1] = r[j]
      BY <1>1
    <3> QED BY <1>1, <1>3, <2>1, <3>1 DEF QueueSorted
  <2>2. 1 \in DOMAIN w
    BY <1>1
  <2> QED BY <1>1, <1>3, <2>1, <2>2 DEF QueueSorted, AllBefore, QueuedEffects
<1>4. QueueSorted(r)
  BY <1>2 DEF QueueSorted
<1> QED BY <1>3, <1>4 DEF r

\* Splitting a batch adds nothing to it.
LEMMA SplitAddsNothing ==
    ASSUME NEW s \in Seq(Effects)
    PROVE  QueuedEffects(SplitEffectBatch(s)) \subseteq Range(s)
<1> DEFINE shellOnly  == {j \in DOMAIN s : s[j].type \in ShellOnlyEffects}
           cut        == CHOOSE j \in shellOnly : TRUE
           Part(m, n) == IF m > n THEN <<>> ELSE <<Batch(SubSeq(s, m, n))>>
<1>1. Len(s) \in Nat /\ DOMAIN s = 1 .. Len(s)
  OBVIOUS
<1>2. ASSUME NEW m \in 1 .. Len(s) + 1, NEW n \in 0 .. Len(s)
      PROVE  Part(m, n) \in Seq(WorkItems) /\ QueuedEffects(Part(m, n)) \subseteq Range(s)
  <2> DEFINE sub == SubSeq(s, m, n)
  <2>1. CASE m > n
    <3>1. Part(m, n) = <<>> /\ QueuedEffects(<<>>) = {} /\ <<>> \in Seq(WorkItems)
      BY <2>1 DEF QueuedEffects
    <3> QED BY <3>1
  <2>2. CASE ~(m > n)
    <3>1. sub \in Seq(Effects) /\ Batch(sub) \in WorkItems
      <4>1. sub \in Seq(Effects)
        BY SubSeqProperties, ElementOfSeq, LenProperties
      <4> QED BY <4>1 DEF Batch, WorkItems
    <3>2. Range(sub) \subseteq Range(s)
      <4>1. \A i \in DOMAIN sub : i + m - 1 \in DOMAIN s /\ sub[i] = s[i + m - 1]
        BY <1>1, <2>2
      <4> HIDE DEF sub
      <4> QED BY <4>1 DEF Range
    <3>3. Part(m, n) = <<Batch(sub)>>
      BY <2>2
    <3> HIDE DEF sub, Part
    <3>4. /\ DOMAIN <<Batch(sub)>> = {1} /\ <<Batch(sub)>>[1] = Batch(sub)
          /\ Batch(sub).effects = sub
      BY DEF Batch
    <3>5. QueuedEffects(<<Batch(sub)>>) \subseteq Range(sub)
      BY <3>4 DEF QueuedEffects
    <3> QED BY <3>1, <3>2, <3>3, <3>5
  <2> QED BY <2>1, <2>2
<1>3. CASE shellOnly = {}
  <2>1. SplitEffectBatch(s) = Part(1, Len(s))
    BY <1>3 DEF SplitEffectBatch
  <2>2. 1 \in 1 .. Len(s) + 1 /\ Len(s) \in 0 .. Len(s)
    BY <1>1
  <2> HIDE DEF Part
  <2> QED BY <1>2, <2>1, <2>2
<1>4. CASE shellOnly # {}
  <2>1. cut \in 1 .. Len(s)
    BY <1>1, <1>4
  <2>2. SplitEffectBatch(s) = Part(1, cut - 1) \o Part(cut + 1, Len(s))
    BY <1>4 DEF SplitEffectBatch
  <2> HIDE DEF cut, Part
  <2>3. /\ 1 \in 1 .. Len(s) + 1 /\ cut - 1 \in 0 .. Len(s)
        /\ cut + 1 \in 1 .. Len(s) + 1 /\ Len(s) \in 0 .. Len(s)
    BY <1>1, <2>1
  <2> QED BY <1>2, <2>2, <2>3, JoinedQueues
<1> QED BY <1>3, <1>4

-----------------------------------------------------------------------------
(* The steps that handle an event. *)

\* What is pending is typed.
LEMMA PendingTyped ==
    ASSUME TypeInv
    PROVE  PendingEffects \subseteq Effects /\ PendingEvents \subseteq ShellEvents
<1>1. /\ batch \in Seq(Effects) /\ followUps \in Seq(ShellEvents)
      /\ work \in Seq(WorkItems)
  BY DEF TypeInv, TypeOK
<1>2. Range(batch) \subseteq Effects /\ Range(followUps) \subseteq ShellEvents
  BY <1>1 DEF Range
<1>3. ASSUME NEW i \in DOMAIN work
      PROVE  /\ work[i].item = "batch" => Range(work[i].effects) \subseteq Effects
             /\ work[i].item = "event" => work[i].event \in ShellEvents
  <2>1. work[i] \in WorkItems
    BY <1>1
  <2>2. work[i].item = "batch" => work[i].effects \in Seq(Effects)
    BY <2>1 DEF WorkItems
  <2>3. work[i].item = "event" => work[i].event \in ShellEvents
    BY <2>1 DEF WorkItems
  <2> QED BY <2>2, <2>3 DEF Range
<1> QED BY <1>2, <1>3 DEF PendingEffects, PendingEvents

\* Tokens only grow, and what a handler asks for is the newest.
LEMMA ReducedTokens ==
    ASSUME TypeInv, NEW e \in Events, NEW d \in PlanChoices,
           Reduced(e, Reduce(core, e, d))
    PROVE  /\ \A x \in TimerIds : core.timers[x].gen <= core'.timers[x].gen
           /\ \A f \in Range(Reduce(core, e, d).effects) : IsSchedule(f) =>
                 f.timer \in TimerIds /\ f.gen = core'.timers[f.timer].gen
<1> DEFINE t == Reduce(core, e, d)
           b == Base(core, e)
<1>1. CoreInv(core) /\ d \in Decisions
  BY BoundsAssumption DEF TypeInv, PlanChoices
<1>2. \A x \in TimerIds : b.timers[x].gen = core.timers[x].gen
  BY <1>1, BaseIs
<1>3. Arms(b, t.next, Range(t.effects), TimerIds)
  <2>1. GoesOn => (d.running => d.animate)
    BY DEF GoesOn, PlanChoices
  <2> QED BY <1>1, <2>1, ReduceTimely DEF Timely
<1>4. core' = t.next
  BY DEF Reduced
<1>5. \A x \in TimerIds : core.timers[x].gen \in Nat
  BY <1>1, FieldTypes DEF CoreInv, Timers
<1> HIDE DEF t, b
<1>6. \A x \in TimerIds : core.timers[x].gen <= core'.timers[x].gen
  <2> SUFFICES ASSUME NEW x \in TimerIds
               PROVE  core.timers[x].gen <= core'.timers[x].gen
    OBVIOUS
  <2>1. CASE core'.timers[x] = b.timers[x]
    BY <1>2, <1>5, <2>1
  <2>2. CASE core'.timers[x] # b.timers[x]
    <3>1. b.timers[x].gen < core'.timers[x].gen
      BY <1>3, <1>4, <2>2 DEF Arms
    <3>2. core'.timers[x].gen \in Nat
      <4>1. CoreInv(core')
        BY ReducedTyped
      <4> QED BY <4>1, FieldTypes DEF CoreInv, Timers
    <3> QED BY <1>2, <1>5, <3>1, <3>2
  <2> QED BY <2>1, <2>2
<1>7. \A f \in Range(t.effects) : IsSchedule(f) =>
         f.timer \in TimerIds /\ f.gen = core'.timers[f.timer].gen
  BY <1>3, <1>4 DEF Arms
<1> QED BY <1>6, <1>7 DEF t

\* The effects of a transition, staged behind all others, keep the order.
LEMMA StagedInOrder ==
    ASSUME OrderInv, NEW e \in Events, NEW d \in PlanChoices,
           Reduced(e, Reduce(core, e, d))
    PROVE  LET staged == StageBatch(Reduce(core, e, d).effects)
           IN /\ QueueSorted(staged)
              /\ AllBefore(Range(batch), QueuedEffects(staged))
              /\ QueuedEffects(staged)
                    \subseteq QueuedEffects(work) \cup Range(Reduce(core, e, d).effects)
<1> DEFINE s == Reduce(core, e, d).effects
           v == SplitEffectBatch(s)
<1>1. /\ s \in Seq(Effects) /\ work \in Seq(WorkItems)
      /\ v \in Seq(WorkItems)
  BY ReducedTyped, SplitTyped DEF OrderInv, TypeInv, TypeOK
<1>2. /\ \A x \in TimerIds : core.timers[x].gen <= core'.timers[x].gen
      /\ \A f \in Range(s) : IsSchedule(f) =>
            f.timer \in TimerIds /\ f.gen = core'.timers[f.timer].gen
  BY ReducedTokens DEF OrderInv
<1>3. QueuedEffects(v) \subseteq Range(s)
  BY <1>1, SplitAddsNothing
<1>4. \A x \in TimerIds : core'.timers[x].gen \in Nat /\ core.timers[x].gen \in Nat
  <2>1. CoreInv(core') /\ CoreInv(core)
    BY ReducedTyped DEF OrderInv, TypeInv
  <2> QED BY <2>1, FieldTypes DEF CoreInv, Timers
<1> HIDE DEF s, v
<1>5. AllBefore(QueuedEffects(v), QueuedEffects(v))
  BY <1>2, <1>3, <1>4 DEF AllBefore, Before
<1>6. ASSUME NEW f \in PendingEffects, NEW g \in QueuedEffects(v)
      PROVE  Before(f, g)
  <2> SUFFICES ASSUME IsSchedule(f), IsSchedule(g), f.timer = g.timer
               PROVE  f.gen <= g.gen
    BY DEF Before
  <2>1. g.timer \in TimerIds /\ g.gen = core'.timers[g.timer].gen
    BY <1>2, <1>3
  <2>2. f.gen <= core.timers[f.timer].gen
    BY DEF OrderInv, NoneAhead
  <2>3. f.gen \in Nat
    <3>1. f \in Effects
      BY <1>1, PendingTyped DEF OrderInv
    <3> QED BY <3>1 DEF Effects, IsSchedule
  <2> QED BY <1>2, <1>4, <2>1, <2>2, <2>3
<1>7. QueueSorted(v)
  BY <1>1, <1>5, SortedOfOneAge
<1>8. AllBefore(QueuedEffects(work), QueuedEffects(v))
      /\ AllBefore(Range(batch), QueuedEffects(v))
  BY <1>6, PendingIs DEF AllBefore
<1>9. QueueSorted(work \o v)
  BY <1>1, <1>7, <1>8, SortedBehind DEF OrderInv, InOrder
<1>10. QueuedEffects(work \o v) = QueuedEffects(work) \cup QueuedEffects(v)
  BY <1>1, JoinedQueues
<1>11. StageBatch(s) = work \o v
  BY DEF StageBatch, v
<1> QED BY <1>3, <1>8, <1>9, <1>10, <1>11 DEF OrderInv, InOrder, AllBefore, s

\* The handling of e stages s; a probe may answer at once.
Hands(e, s) ==
    /\ PendingEffects \subseteq PendingEffects'
    /\ PendingEffects' \subseteq PendingEffects \cup Range(s)
    /\ \A f \in Range(s) : IsStaged(f) => f \in PendingEffects'
    /\ PendingEvents \subseteq {e} \cup PendingEvents'
    /\ \A r \in PendingEvents' : r \in PendingEvents \/ r.type = "ProbeReported"

\* A host timer that is gone has fired e.
Fires(e) ==
    \A x \in TimerIds :
        \/ host'[x] = host[x]
        \/ host'[x] = 0 /\ e.type = "TimerFired" /\ e.timer = x /\ e.gen = host[x]

\* What the shell says of the core's work it was asked before.
IsGenuine(e) == e.type \in {"RenderPlanComputed", "TimerLost"} => e \in PendingEvents

\* An event is reduced and its effects are staged, in order.
Handled(e, d) ==
    /\ e \in Events /\ d \in PlanChoices
    /\ Reduced(e, Reduce(core, e, d))
    /\ Hands(e, Reduce(core, e, d).effects)
    /\ Fires(e) /\ IsGenuine(e)
    /\ InOrder'

\* Splitting a batch stages no event,
LEMMA SplitStagesNoEvent ==
    ASSUME NEW s \in Seq(Effects)
    PROVE  QueuedEvents(SplitEffectBatch(s)) = {}
<1> DEFINE v == SplitEffectBatch(s)
<1>1. \A i \in DOMAIN v : v[i].item = "batch"
  <2> DEFINE shellOnly  == {j \in DOMAIN s : s[j].type \in ShellOnlyEffects}
             cut        == CHOOSE j \in shellOnly : TRUE
             Part(m, n) == IF m > n THEN <<>> ELSE <<Batch(SubSeq(s, m, n))>>
  <2>1. \A m, n : Part(m, n) = <<>> \/ \E b : Part(m, n) = <<Batch(b)>>
    OBVIOUS
  <2>2. v = Part(1, Len(s)) \/ v = Part(1, cut - 1) \o Part(cut + 1, Len(s))
    BY DEF SplitEffectBatch
  <2> HIDE DEF Part, cut, v
  <2>3. \A b : Batch(b).item = "batch"
    BY DEF Batch
  <2>4. \A m, n : \/ Part(m, n) = <<>>
                  \/ \E x : Part(m, n) = <<x>> /\ x.item = "batch"
    BY <2>1, <2>3
  <2> QED BY <2>2, <2>4
<1> HIDE DEF v
<1>2. QueuedEvents(v) = {}
  BY <1>1 DEF QueuedEvents
<1> QED BY <1>2 DEF v

\* ... wherever it is queued.
LEMMA StagedEvents ==
    ASSUME work \in Seq(WorkItems), NEW s \in Seq(Effects)
    PROVE  QueuedEvents(StageBatch(s)) = QueuedEvents(work)
<1> DEFINE v == SplitEffectBatch(s)
<1>1. v \in Seq(WorkItems) /\ QueuedEvents(v) = {}
  BY SplitTyped, SplitStagesNoEvent
<1> HIDE DEF v
<1>2. QueuedEvents(work \o v) = QueuedEvents(work) \cup QueuedEvents(v)
  BY <1>1, JoinedQueues
<1> QED BY <1>1, <1>2 DEF StageBatch, v

\* What is staged is not dropped.
LEMMA AllIsStaged ==
    ASSUME work \in Seq(WorkItems), NEW s \in Seq(Effects)
    PROVE  \A f \in Range(s) : IsStaged(f) => f \in QueuedEffects(StageBatch(s))
  BY StagedIsPending DEF Range, IsStaged

\* An event of the editor or of a timer,
LEMMA DispatchHandles ==
    ASSUME OrderInv, NEW e \in Events, Dispatch(e), Fires(e),
           UNCHANGED <<batch, followUps>>,
           e.type \notin {"RenderPlanComputed", "TimerLost"}
    PROVE  \E d \in PlanChoices : Handled(e, d)
<1>1. PICK d \in PlanChoices : /\ Reduced(e, Reduce(core, e, d))
                               /\ work' = StageBatch(Reduce(core, e, d).effects)
  BY DEF Dispatch
<1> DEFINE s == Reduce(core, e, d).effects
           staged == StageBatch(s)
<1>2. s \in Seq(Effects) /\ work \in Seq(WorkItems)
  BY <1>1, ReducedTyped DEF OrderInv, TypeInv, TypeOK
<1>3. /\ QueueSorted(staged) /\ AllBefore(Range(batch), QueuedEffects(staged))
      /\ QueuedEffects(staged) \subseteq QueuedEffects(work) \cup Range(s)
  BY <1>1, StagedInOrder
<1>4. /\ QueuedEffects(work) \subseteq QueuedEffects(staged)
      /\ QueuedEvents(staged) = QueuedEvents(work)
      /\ \A f \in Range(s) : IsStaged(f) => f \in QueuedEffects(staged)
  BY <1>2, StagedIsPending, AllIsStaged, StagedEvents
<1>5. work' = staged
  BY <1>1
<1> HIDE DEF s, staged
<1>6. /\ PendingEffects' = Range(batch') \cup QueuedEffects(work')
      /\ PendingEvents' = Range(followUps') \cup QueuedEvents(work')
  BY DEF PendingEffects, PendingEvents, QueuedEffects, QueuedEvents
<1>7. Hands(e, s)
  BY <1>3, <1>4, <1>5, <1>6, PendingIs DEF Hands
<1>8. InOrder'
  BY <1>3, <1>5 DEF OrderInv, InOrder, Sorted, AllBefore, QueueSorted, QueuedEffects
<1> QED BY <1>1, <1>7, <1>8 DEF Handled, IsGenuine, s

\* ... a staged event,
LEMMA DispatchStagedHandles ==
    ASSUME OrderInv, DispatchStaged
    PROVE  \E e \in ShellEvents, d \in PlanChoices : e \in PendingEvents /\ Handled(e, d)
<1> DEFINE e == Head(work).event
<1>1. PICK d \in PlanChoices :
         /\ Reduced(e, Reduce(core, e, d))
         /\ work' = Tail(StageBatch(Reduce(core, e, d).effects))
  BY DEF DispatchStaged
<1> DEFINE s == Reduce(core, e, d).effects
           staged == StageBatch(s)
<1>2. /\ work # <<>> /\ Head(work).item = "event" /\ e \in Events /\ e \in ShellEvents
      /\ work \in Seq(WorkItems) /\ UNCHANGED <<batch, followUps, host>>
  BY HeadsTyped, ShellEventsAreEvents DEF DispatchStaged, OrderInv, TypeInv, TypeOK
<1>3. s \in Seq(Effects)
  BY <1>1, <1>2, ReducedTyped DEF OrderInv
<1>4. /\ QueueSorted(staged) /\ AllBefore(Range(batch), QueuedEffects(staged))
      /\ QueuedEffects(staged) \subseteq QueuedEffects(work) \cup Range(s)
  BY <1>1, <1>2, StagedInOrder
<1>5. /\ QueuedEffects(work) \subseteq QueuedEffects(staged)
      /\ QueuedEvents(staged) = QueuedEvents(work)
      /\ \A f \in Range(s) : IsStaged(f) => f \in QueuedEffects(staged)
  BY <1>2, <1>3, StagedIsPending, AllIsStaged, StagedEvents
<1>6. staged \in Seq(WorkItems) /\ staged # <<>> /\ Head(staged) = Head(work)
  <2> HIDE DEF s
  <2>1. SplitEffectBatch(s) \in Seq(WorkItems)
    BY <1>3, SplitTyped
  <2> QED BY <1>2, <2>1 DEF StageBatch
<1>7. work' = Tail(staged) /\ Reduced(e, Reduce(core, e, d))
  BY <1>1
<1> HIDE DEF s, staged
<1>8. /\ QueuedEffects(staged) = QueuedEffects(work')
      /\ QueuedEvents(staged) = {e} \cup QueuedEvents(work')
      /\ QueueSorted(work')
  BY <1>2, <1>4, <1>6, <1>7, OldestTaken, SortedRest
<1> HIDE DEF e
<1>9. /\ PendingEffects' = Range(batch') \cup QueuedEffects(work')
      /\ PendingEvents' = Range(followUps') \cup QueuedEvents(work')
  BY DEF PendingEffects, PendingEvents, QueuedEffects, QueuedEvents
<1>10. Hands(e, s) /\ e \in PendingEvents
  BY <1>2, <1>4, <1>5, <1>8, <1>9, PendingIs DEF Hands
<1>11. InOrder'
  BY <1>2, <1>4, <1>8 DEF OrderInv, InOrder, Sorted, AllBefore, QueueSorted, QueuedEffects
<1> QED BY <1>1, <1>2, <1>7, <1>10, <1>11 DEF Handled, IsGenuine, Fires, s

\* ... and a follow-up event, with a probe that is answered in the same wave.
LEMMA DispatchFollowUpHandles ==
    ASSUME OrderInv, DispatchFollowUp
    PROVE  \E e \in ShellEvents, d \in PlanChoices : e \in PendingEvents /\ Handled(e, d)
<1> DEFINE e == Head(followUps)
<1>1. PICK d \in PlanChoices :
         LET t == Reduce(core, e, d)
         IN /\ Reduced(e, t)
            /\ IF IsSameWaveProbe(e, t.effects)
               THEN \E report \in SameWaveReports(Head(t.effects), t.next.obs) :
                       /\ followUps' = <<report>> \o Tail(followUps)
                       /\ UNCHANGED work
               ELSE /\ followUps' = Tail(followUps)
                    /\ work' = StageBatch(t.effects)
  BY DEF DispatchFollowUp
<1> DEFINE t == Reduce(core, e, d)
           s == t.effects
           staged == StageBatch(s)
<1>2. /\ followUps # <<>> /\ e \in Events /\ e \in ShellEvents
      /\ UNCHANGED <<batch, host>>
      /\ followUps \in Seq(ShellEvents) /\ Tail(followUps) \in Seq(ShellEvents)
      /\ work \in Seq(WorkItems)
  BY HeadsTyped, ShellEventsAreEvents DEF DispatchFollowUp, OrderInv, TypeInv, TypeOK
<1>3. s \in Seq(Effects) /\ Reduced(e, t)
  BY <1>1, <1>2, ReducedTyped DEF OrderInv
<1>4. Range(followUps) = {e} \cup Range(Tail(followUps))
  BY <1>2, RangeOfParts
<1>5. /\ PendingEffects' = Range(batch') \cup QueuedEffects(work')
      /\ PendingEvents' = Range(followUps') \cup QueuedEvents(work')
  BY DEF PendingEffects, PendingEvents, QueuedEffects, QueuedEvents
<1>6. e \in PendingEvents
  BY <1>4, PendingIs
<1>7. CASE IsSameWaveProbe(e, s)
  <2>1. PICK report \in SameWaveReports(Head(s), t.next.obs) :
           followUps' = <<report>> \o Tail(followUps) /\ work' = work
    BY <1>1, <1>7
  <2>2. Len(s) = 1 /\ Head(s).type = "RequestProbe"
    BY <1>7 DEF IsSameWaveProbe
  <2> HIDE DEF t
  <2>3. \A f \in Range(s) : ~IsStaged(f)
    BY <1>3, <2>2 DEF Range, IsStaged
  <2>4. report.type = "ProbeReported" /\ report \in ShellEvents
    <3>1. Head(s) \in Effects
      BY <1>3, <2>2
    <3> HIDE DEF s
    <3> QED BY <2>1, <2>2, <3>1, ProbeReportsTyped DEF SameWaveReports, ProbeReports
  <2> HIDE DEF s
  <2>5. Range(followUps') = {report} \cup Range(Tail(followUps))
    <3> DEFINE one  == <<report>>
               rest == Tail(followUps)
    <3>1. one \in Seq(ShellEvents) /\ rest \in Seq(ShellEvents) /\ Range(one) = {report}
      BY <1>2, <2>4 DEF Range
    <3>2. followUps' = one \o rest
      BY <2>1
    <3> HIDE DEF one, rest
    <3>3. Range(one \o rest) = Range(one) \cup Range(rest)
      BY <3>1, RangeOfParts
    <3>4. Range(followUps') = {report} \cup Range(rest)
      BY <3>1, <3>2, <3>3
    <3> QED BY <3>4 DEF rest
  <2> HIDE DEF e
  <2>6. Hands(e, s)
    BY <1>2, <1>4, <1>5, <2>1, <2>3, <2>4, <2>5, PendingIs DEF Hands
  <2>7. InOrder'
    BY <1>2, <2>1 DEF OrderInv, InOrder, Sorted, AllBefore, QueueSorted, QueuedEffects
  <2> QED BY <1>1, <1>2, <1>3, <1>6, <2>6, <2>7 DEF Handled, IsGenuine, Fires, s, t
<1>8. CASE ~IsSameWaveProbe(e, s)
  <2>1. followUps' = Tail(followUps) /\ work' = staged
    BY <1>1, <1>8
  <2>2. /\ QueueSorted(staged) /\ AllBefore(Range(batch), QueuedEffects(staged))
        /\ QueuedEffects(staged) \subseteq QueuedEffects(work) \cup Range(s)
    BY <1>2, <1>3, StagedInOrder
  <2> HIDE DEF t
  <2>3. /\ QueuedEffects(work) \subseteq QueuedEffects(staged)
        /\ QueuedEvents(staged) = QueuedEvents(work)
        /\ \A f \in Range(s) : IsStaged(f) => f \in QueuedEffects(staged)
    BY <1>2, <1>3, StagedIsPending, AllIsStaged, StagedEvents
  <2> HIDE DEF s, staged, e
  <2>4. Hands(e, s)
    BY <1>2, <1>4, <1>5, <2>1, <2>2, <2>3, PendingIs DEF Hands
  <2>5. InOrder'
    BY <1>2, <2>1, <2>2 DEF OrderInv, InOrder, Sorted, AllBefore, QueueSorted, QueuedEffects
  <2> QED BY <1>1, <1>2, <1>3, <1>6, <2>4, <2>5 DEF Handled, IsGenuine, Fires, s, t
<1> QED BY <1>7, <1>8

\* What is handled leaves no host timer ahead of the core.
LEMMA HandledNoneAhead ==
    ASSUME OrderInv, TypeInv', NEW e, NEW d, Handled(e, d)
    PROVE  OrderInv'
<1> DEFINE F == Range(Reduce(core, e, d).effects)
<1>1. /\ \A x \in TimerIds : core.timers[x].gen <= core'.timers[x].gen
      /\ \A f \in F : IsSchedule(f) =>
            f.timer \in TimerIds /\ f.gen = core'.timers[f.timer].gen
  BY ReducedTokens DEF Handled, OrderInv
<1>2. \A x \in TimerIds :
         /\ core.timers[x].gen \in Nat /\ core'.timers[x].gen \in Nat
         /\ host[x] \in Nat /\ host'[x] \in Nat /\ host'[x] <= host[x]
  <2>1. \A x \in TimerIds : core.timers[x].gen \in Nat /\ core'.timers[x].gen \in Nat
    BY FieldTypes DEF OrderInv, TypeInv, CoreInv, Timers
  <2>2. \A x \in TimerIds : host[x] \in Nat /\ host'[x] \in Nat
    BY DEF OrderInv, TypeInv, TypeOK
  <2>3. \A x \in TimerIds : host'[x] <= host[x]
    BY <2>2 DEF Handled, Fires
  <2> QED BY <2>1, <2>2, <2>3
<1>3. PendingEffects' \subseteq PendingEffects \cup F
  BY DEF Handled, Hands
<1>4. \A f \in PendingEffects : IsSchedule(f) =>
         f.timer \in TimerIds /\ f.gen \in Nat
  BY PendingTyped DEF OrderInv, Effects, IsSchedule
<1> HIDE DEF F
<1>5. \A x \in TimerIds : host'[x] <= core'.timers[x].gen
  BY <1>1, <1>2 DEF OrderInv, NoneAhead
<1>6. ASSUME NEW f \in PendingEffects', IsSchedule(f)
      PROVE  f.gen <= core'.timers[f.timer].gen /\ host'[f.timer] <= f.gen
  <2>1. CASE f \in F
    BY <1>1, <1>2, <1>5, <1>6, <2>1
  <2>2. CASE f \in PendingEffects
    BY <1>1, <1>2, <1>4, <1>6, <2>2 DEF OrderInv, NoneAhead
  <2> QED BY <1>3, <2>1, <2>2
<1>7. NoneAhead'
  BY <1>5, <1>6 DEF NoneAhead, IsSchedule
<1> QED BY <1>7 DEF Handled, OrderInv

\* The event of the armed token disarms its timer.
LEMMA ActiveIsDisarmed ==
    ASSUME NEW c, CoreInv(c), NEW e \in Events, e.type \in {"TimerFired", "TimerLost"},
           c.timers[e.timer].armed, c.timers[e.timer].gen = e.gen
    PROVE  Base(c, e).timers[e.timer] # c.timers[e.timer]
<1> DEFINE x == e.timer
           z == c.timers[x]
           y == [z EXCEPT !.armed = FALSE]
           timers == [c.timers EXCEPT ![x].armed = FALSE]
<1>1. x \in TimerIds /\ c.timers \in Timers
  BY EventFields, FieldTypes DEF CoreInv
<1>2. z \in [gen : Nat, armed : BOOLEAN]
  BY <1>1 DEF Timers
<1>3. z = [gen |-> e.gen, armed |-> TRUE]
  BY <1>2
<1>4. Base(c, e) = [c EXCEPT !.timers = timers]
  BY <1>3 DEF Base, IsActive, Disarm
<1>5. timers = [c.timers EXCEPT ![x] = y]
  OBVIOUS
<1>6. y.armed = FALSE
  <2> HIDE DEF z
  <2> QED BY <1>2
<1> HIDE DEF y
<1>7. timers[x] = y
  BY <1>1, <1>5 DEF Timers
<1> HIDE DEF timers
<1>8. Base(c, e).timers = timers
  BY <1>4 DEF CoreInv, CoreStates
<1> QED BY <1>6, <1>7, <1>8

\* A timer that is armed anew, or on its way and left alone, is on its way then.
LEMMA HandledPending ==
    ASSUME OrderInv, NEW e, NEW d, Handled(e, d), NEW x \in TimerIds,
           \/ core'.timers[x] # Base(core, e).timers[x]
           \/ TimerPending(x) /\ core'.timers[x] = core.timers[x]
    PROVE  TimerPending(x)'
<1> DEFINE b == Base(core, e)
           F == Range(Reduce(core, e, d).effects)
           gen == core'.timers[x].gen
<1>1. CoreInv(core) /\ e \in Events
  BY DEF OrderInv, TypeInv, Handled
<1>2. Arms(b, core', F, TimerIds)
  <2>1. GoesOn => (d.running => d.animate)
    BY DEF Handled, GoesOn, PlanChoices
  <2>2. d \in Decisions
    BY BoundsAssumption DEF Handled, PlanChoices
  <2> QED BY <1>1, <2>1, <2>2, ReduceTimely DEF Timely, Handled, Reduced
<1>3. TimerPending(x)' <=>
         /\ core'.timers[x].armed
         /\ \/ host'[x] = gen
            \/ Request(x, gen) \in PendingEffects'
            \/ \E r \in PendingEvents' :
                  r.type = "TimerLost" /\ r.timer = x /\ r.gen = gen
  BY DEF TimerPending, Request
<1>4. CASE core'.timers[x] # b.timers[x]
  <2>1. core'.timers[x].armed /\ Request(x, gen) \in F
    BY <1>2, <1>4 DEF Arms
  <2>2. Request(x, gen) \in PendingEffects'
    BY <2>1 DEF Handled, Hands, Request, IsStaged, ShellOnlyEffects
  <2> QED BY <1>3, <2>1, <2>2
<1>5. CASE core'.timers[x] = b.timers[x]
  <2>1. TimerPending(x) /\ core'.timers[x] = core.timers[x]
    BY <1>5
  <2>2. /\ core.timers[x].armed /\ gen = core.timers[x].gen
        /\ \/ host[x] = gen
           \/ Request(x, gen) \in PendingEffects
           \/ \E r \in PendingEvents :
                 r.type = "TimerLost" /\ r.timer = x /\ r.gen = gen
    BY <2>1 DEF TimerPending, Request
  <2>3. ~(e.type \in {"TimerFired", "TimerLost"} /\ e.timer = x /\ e.gen = gen)
    BY <1>1, <1>5, <2>1, <2>2, ActiveIsDisarmed
  <2>4. host[x] = gen => host'[x] = gen
    BY <2>3 DEF Handled, Fires
  <2>5. Request(x, gen) \in PendingEffects => Request(x, gen) \in PendingEffects'
    BY DEF Handled, Hands
  <2>6. \A r \in PendingEvents :
           r.type = "TimerLost" /\ r.timer = x /\ r.gen = gen => r \in PendingEvents'
    BY <2>3 DEF Handled, Hands
  <2> HIDE DEF gen
  <2> QED BY <1>3, <2>1, <2>2, <2>4, <2>5, <2>6
<1> QED BY <1>4, <1>5

\* A timer the core needs then is on its way.
LEMMA HandledTimed ==
    ASSUME OrderInv, NEW e, NEW d, Handled(e, d), NEW x \in TimerIds,
           Timed({x}), Carries(core, e, core', x), NeedsTimer(core', x)
    PROVE  (TimerPending(x) \/ FailurePending)'
<1>1. CASE core'.timers[x] # Base(core, e).timers[x]
  BY <1>1, HandledPending
<1>2. CASE core'.timers[x] = Base(core, e).timers[x]
  <2>1. /\ NeedsTimer(core, x) /\ core'.timers[x] = core.timers[x] /\ ~Aborts(e)
    BY <1>2 DEF Carries
  <2>2. TimerPending(x) \/ FailurePending
    BY <2>1 DEF Timed
  <2>3. FailurePending => FailurePending'
    <3>1. e # EffectFailed(0)
      BY <2>1 DEF Aborts, EffectFailed
    <3> QED BY <3>1 DEF FailurePending, Handled, Hands
  <2> QED BY <2>1, <2>2, <2>3, HandledPending
<1> QED BY <1>1, <1>2

\* Nor does handling break what the phases rest on.
LEMMA HandledPhases ==
    ASSUME PhaseInv, GoesOn, TypeInv', NEW e, NEW d, Handled(e, d), ~LosesRecovery(e)
    PROVE  PhaseInv'
<1> DEFINE t == Reduce(core, e, d)
           F == Range(t.effects)
<1>1. /\ CoreInv(core) /\ e \in Events /\ core.proposals \in Nat
      /\ PendingEffects \subseteq Effects /\ PendingEvents \subseteq ShellEvents
  BY FieldTypes, PendingTyped DEF PhaseInv, OrderInv, TypeInv, CoreInv, Handled
<1>2. Timely(core, e, t) /\ core' = t.next
  <2>1. d \in Decisions /\ (GoesOn => (d.running => d.animate))
    BY BoundsAssumption DEF Handled, GoesOn, PlanChoices
  <2> QED BY <1>1, <2>1, ReduceTimely DEF Handled, Reduced
<1>3. Held(core)
  BY DEF PhaseInv, Held, PlansAnimate
<1> HIDE DEF t
<1>4. /\ DelayHolds(core') /\ PlanSound(core, e, core', F)
      /\ \A x \in TimerIds : Carries(core, e, core', x)
  BY <1>2, <1>3 DEF Timely, Carries, NeedsTimer
<1>5. /\ PendingEffects' \subseteq PendingEffects \cup F
      /\ \A r \in PendingEvents' : r \in PendingEvents \/ r.type = "ProbeReported"
  BY DEF Handled, Hands, t
<1>6. core'.proposals \in Nat
  BY FieldTypes DEF TypeInv, CoreInv
<1>7. \A f \in PendingEffects : f.type = "RequestRenderPlan" => f.id \in Nat
  BY <1>1 DEF Effects
<1>8. \A r \in PendingEvents : r.type = "RenderPlanComputed" => r.proposal.id \in Nat
  <2>1. \A r \in PendingEvents : r.type = "RenderPlanComputed" => r.proposal \in Proposals
    BY <1>1, EventFields, ShellEventsAreEvents
  <2> QED BY <2>1 DEF Proposals
<1> HIDE DEF F
<1>9. ASSUME NEW f \in PendingEffects', f.type = "RequestRenderPlan"
      PROVE  /\ f.id <= core'.proposals
             /\ core'.phase = "Planning" /\ core'.animating /\ f.id = core'.proposal.id
                   => f.decision.animate
  <2>1. CASE f \in F
    BY <1>4, <1>9, <2>1 DEF PlanSound
  <2>2. CASE f \in PendingEffects
    <3>1. f.id <= core.proposals
      BY <1>9, <2>2 DEF PhaseInv, PlansAnimate
    <3>2. f.id <= core'.proposals
      BY <1>1, <1>4, <1>6, <1>7, <1>9, <2>2, <3>1 DEF PlanSound
    <3>3. ASSUME core'.phase = "Planning", core'.animating, f.id = core'.proposal.id
          PROVE  f.decision.animate
      <4>1. core.phase = "Planning" /\ core.animating /\ core'.proposal = core.proposal
        BY <1>1, <1>4, <1>7, <1>9, <2>2, <3>1, <3>3 DEF PlanSound
      <4> QED BY <1>9, <2>2, <3>3, <4>1 DEF PhaseInv, PlansAnimate
    <3> QED BY <3>2, <3>3
  <2> QED BY <1>5, <2>1, <2>2
<1>10. ASSUME NEW r \in PendingEvents', r.type = "RenderPlanComputed"
       PROVE  /\ r.proposal.id <= core'.proposals
              /\ core'.phase = "Planning" /\ core'.animating
                    /\ r.proposal.id = core'.proposal.id
                    => r.proposal.animate
  <2>1. r \in PendingEvents
    BY <1>5, <1>10
  <2>2. r.proposal.id <= core.proposals
    BY <1>10, <2>1 DEF PhaseInv, PlansAnimate
  <2>3. r.proposal.id <= core'.proposals
    BY <1>1, <1>4, <1>6, <1>8, <1>10, <2>1, <2>2 DEF PlanSound
  <2>4. ASSUME core'.phase = "Planning", core'.animating,
               r.proposal.id = core'.proposal.id
        PROVE  r.proposal.animate
    <3>1. core.phase = "Planning" /\ core.animating /\ core'.proposal = core.proposal
      BY <1>1, <1>4, <1>8, <1>10, <2>1, <2>2, <2>4 DEF PlanSound
    <3> QED BY <1>10, <2>1, <2>4, <3>1 DEF PhaseInv, PlansAnimate
  <2> QED BY <2>3, <2>4
<1>11. core'.phase = "Applying" /\ core'.animating => core'.proposal.animate
  <2> SUFFICES ASSUME core'.phase = "Applying", core'.animating
               PROVE  core'.proposal.animate
    OBVIOUS
  <2>1. CASE core.phase = "Applying" /\ core.animating /\ core'.proposal = core.proposal
    BY <1>3, <2>1 DEF Held
  <2>2. CASE /\ core.phase = "Planning" /\ core.animating
             /\ e.type = "RenderPlanComputed" /\ e.proposal = core'.proposal
             /\ e.proposal.id = core.proposal.id
    <3>1. e \in PendingEvents
      BY <2>2 DEF Handled, IsGenuine
    <3>2. e.proposal.animate
      BY <2>2, <3>1 DEF PhaseInv, PlansAnimate
    <3> QED BY <2>2, <3>2
  <2> QED BY <1>4, <2>1, <2>2 DEF PlanSound
<1>12. PlansAnimate(core, PendingEffects, PendingEvents)'
  BY <1>9, <1>10, <1>11 DEF PlansAnimate
<1>13. \A r \in PendingEvents' : ~LosesRecovery(r)
  BY <1>5 DEF PhaseInv, LosesRecovery
<1>14. ASSUME NEW x \in TimerIds, NeedsTimer(core', x)
       PROVE  (TimerPending(x) \/ FailurePending)'
  BY <1>4, <1>14, HandledTimed DEF PhaseInv, Timed
<1>15. OrderInv'
  BY HandledNoneAhead DEF PhaseInv
<1>16. Timed(TimerIds)'
  BY <1>14 DEF Timed, NeedsTimer, AcceptsObservation
<1>17. DelayHolds(core)'
  BY <1>4 DEF DelayHolds, QueuedKinds
<1> QED BY <1>12, <1>13, <1>15, <1>16, <1>17 DEF PhaseInv, LosesRecovery

\* ... and recovery keeps its timer whatever the phases rest on.
LEMMA HandledRecovery ==
    ASSUME RecoveryInv, TypeInv', NEW e, NEW d, Handled(e, d)
    PROVE  RecoveryInv'
<1>1. CoreInv(core) /\ e \in Events
  BY DEF RecoveryInv, OrderInv, TypeInv, Handled
<1>2. Carries(core, e, core', "Recovery")
  <2>1. d \in Decisions /\ (GoesOn => (d.running => d.animate))
    BY BoundsAssumption DEF Handled, GoesOn, PlanChoices
  <2> QED BY <1>1, <2>1, ReduceTimely DEF Handled, Reduced, Timely
<1>3. NeedsTimer(core', "Recovery") => (TimerPending("Recovery") \/ FailurePending)'
  BY <1>2, HandledTimed DEF RecoveryInv, TimerIds
<1>4. Timed({"Recovery"})'
  BY <1>3 DEF Timed, NeedsTimer, AcceptsObservation
<1> QED BY <1>4, HandledNoneAhead DEF RecoveryInv

-----------------------------------------------------------------------------
(* The steps of the shell. *)

\* An effect is taken and events are added; a request for a timer is served or
\* its failure reported, cleanup is reported, a plan is as it was asked for.
Moves ==
    /\ core' = core
    /\ PendingEffects' \subseteq PendingEffects
    /\ PendingEvents \subseteq PendingEvents'
    /\ \A f \in PendingEffects : IsSchedule(f) =>
          \/ f \in PendingEffects'
          \/ host'[f.timer] = f.gen
          \/ \E r \in PendingEvents' :
                r.type = "TimerLost" /\ r.timer = f.timer /\ r.gen = f.gen
    /\ \A f \in PendingEffects : f.type = "ApplyRenderCleanup" =>
          \/ f \in PendingEffects'
          \/ \E r \in PendingEvents' : r.type = "RenderCleanupApplied"
    /\ \A x \in TimerIds :
          \/ host'[x] = host[x]
          \/ \E f \in PendingEffects : IsSchedule(f) /\ f.timer = x /\ host'[x] = f.gen
    /\ \A r \in PendingEvents' : r \in PendingEvents \/ r.type # "RenderPlanComputed"
          \/ \E f \in PendingEffects :
                /\ f.type = "RequestRenderPlan"
                /\ r.proposal.id = f.id /\ r.proposal.animate = f.decision.animate
    /\ InOrder' /\ NoneAhead'

\* What is on its way stays on its way,
LEMMA MovedPending ==
    ASSUME OrderInv, Moves, NEW x \in TimerIds, TimerPending(x)
    PROVE  TimerPending(x)'
<1> DEFINE gen == core.timers[x].gen
<1>1. core' = core
  BY DEF Moves
<1>2. TimerPending(x)' <=>
         /\ core'.timers[x].armed
         /\ \/ host'[x] = core'.timers[x].gen
            \/ Request(x, core'.timers[x].gen) \in PendingEffects'
            \/ \E r \in PendingEvents' :
                  r.type = "TimerLost" /\ r.timer = x /\ r.gen = core'.timers[x].gen
  BY DEF TimerPending, Request
<1>3. /\ core.timers[x].armed
      /\ \/ host[x] = gen
         \/ Request(x, gen) \in PendingEffects
         \/ \E r \in PendingEvents :
               r.type = "TimerLost" /\ r.timer = x /\ r.gen = gen
  BY DEF TimerPending, Request
<1>4. CASE host[x] = gen
  <2>1. CASE host'[x] = host[x]
    BY <1>1, <1>2, <1>3, <1>4, <2>1
  <2>2. ASSUME NEW f \in PendingEffects, IsSchedule(f), f.timer = x, host'[x] = f.gen
        PROVE  host'[x] = gen
    <3>1. host[x] <= f.gen /\ f.gen <= gen
      BY <2>2 DEF OrderInv, NoneAhead
    <3>2. f.gen \in Nat /\ gen \in Nat
      BY <1>1, <2>2, PendingTyped, FieldTypes
      DEF OrderInv, TypeInv, CoreInv, Timers, Effects, IsSchedule
    <3> QED BY <1>4, <2>2, <3>1, <3>2
  <2> QED BY <1>1, <1>2, <1>3, <2>1, <2>2 DEF Moves
<1>5. CASE Request(x, gen) \in PendingEffects
  <2>1. IsSchedule(Request(x, gen)) /\ Request(x, gen).timer = x /\ Request(x, gen).gen = gen
    BY DEF IsSchedule, Request
  <2>2. \/ Request(x, gen) \in PendingEffects' \/ host'[x] = gen
        \/ \E r \in PendingEvents' : r.type = "TimerLost" /\ r.timer = x /\ r.gen = gen
    BY <1>5, <2>1 DEF Moves
  <2> QED BY <1>1, <1>2, <1>3, <2>2
<1>6. CASE \E r \in PendingEvents : r.type = "TimerLost" /\ r.timer = x /\ r.gen = gen
  BY <1>1, <1>2, <1>3, <1>6 DEF Moves
<1> QED BY <1>3, <1>4, <1>5, <1>6

\* ... what is needed in particular,
LEMMA MovedTimed ==
    ASSUME OrderInv, Moves, NEW X, X \subseteq TimerIds, Timed(X)
    PROVE  Timed(X)'
<1> SUFFICES ASSUME NEW x \in X, NeedsTimer(core', x)
             PROVE  (TimerPending(x) \/ FailurePending)'
  BY DEF Timed, NeedsTimer, AcceptsObservation
<1>1. TimerPending(x) \/ FailurePending
  BY DEF Timed, Moves
<1>2. FailurePending => FailurePending'
  BY DEF FailurePending, Moves
<1> QED BY <1>1, <1>2, MovedPending

\* ... and so do the plans.
LEMMA MovedPhases ==
    ASSUME PhaseInv, TypeInv', Moves, \A r \in PendingEvents' : ~LosesRecovery(r)
    PROVE  PhaseInv'
<1>1. \A r \in PendingEvents' : r.type = "RenderPlanComputed" =>
         /\ r.proposal.id <= core.proposals
         /\ core.phase = "Planning" /\ core.animating /\ r.proposal.id = core.proposal.id
               => r.proposal.animate
  BY DEF PhaseInv, PlansAnimate, Moves
<1>2. PlansAnimate(core, PendingEffects, PendingEvents)'
  BY <1>1 DEF PhaseInv, PlansAnimate, Moves
<1>3. DelayHolds(core)'
  BY DEF PhaseInv, DelayHolds, QueuedKinds, Moves
<1>4. Timed(TimerIds)'
  BY MovedTimed DEF PhaseInv
<1>5. OrderInv'
  BY DEF PhaseInv, OrderInv, Moves
<1> QED BY <1>2, <1>3, <1>4, <1>5 DEF PhaseInv, LosesRecovery

\* ... and the timer of a recovery.
LEMMA MovedRecovery ==
    ASSUME RecoveryInv, TypeInv', Moves
    PROVE  RecoveryInv'
  BY MovedTimed DEF RecoveryInv, OrderInv, Moves, TimerIds

\* With the same effects and host timers, the order is the same.
LEMMA SameOrder ==
    ASSUME OrderInv, UNCHANGED <<core, host>>, PendingEffects' \subseteq PendingEffects
    PROVE  NoneAhead'
  BY DEF OrderInv, NoneAhead, IsSchedule

\* The drain gives everything up,
LEMMA FailureMoves ==
    ASSUME OrderInv, DrainFails
    PROVE  /\ InOrder' /\ PendingEffects' = {} /\ PendingEvents' = {EffectFailed(0)}
           /\ FailurePending'
<1>1. /\ QueuedEvents(work') = {EffectFailed(0)} /\ QueuedEffects(work') = {}
      /\ work' \in Seq(WorkItems)
  BY EffectFailedIsEvent, StagedAlone DEF DrainFails
<1>2. /\ PendingEffects' = Range(batch') \cup QueuedEffects(work')
      /\ PendingEvents' = Range(followUps') \cup QueuedEvents(work')
  BY DEF PendingEffects, PendingEvents, QueuedEffects, QueuedEvents
<1>3. Range(batch') = {} /\ Range(followUps') = {}
  BY FewEffects DEF DrainFails
<1>4. QueueSorted(work') /\ Sorted(batch')
  <2>1. AllBefore(QueuedEffects(work'), QueuedEffects(work'))
    BY <1>1 DEF AllBefore
  <2>2. QueueSorted(work')
    BY <1>1, <2>1, SortedOfOneAge
  <2> QED BY <2>2 DEF Sorted, DrainFails
<1>5. AllBefore(Range(batch'), QueuedEffects(work'))
  BY <1>1 DEF AllBefore
<1>6. InOrder'
  BY <1>4, <1>5 DEF InOrder, Sorted, QueueSorted, AllBefore, QueuedEffects
<1> QED BY <1>1, <1>2, <1>3, <1>6 DEF FailurePending

\* ... one effect is executed,
LEMMA ExecutedMoves ==
    ASSUME OrderInv, batch # <<>>, NEW s \in Seq(ShellEvents), FollowedBy(s)
    PROVE  /\ InOrder'
           /\ PendingEffects \subseteq {Head(batch)} \cup PendingEffects'
           /\ PendingEffects' \subseteq PendingEffects
           /\ Head(batch) \in PendingEffects
           /\ PendingEvents' = PendingEvents \cup Range(s)
           /\ \A g \in PendingEffects' : Before(Head(batch), g)
<1>1. /\ batch \in Seq(Effects) /\ followUps \in Seq(ShellEvents)
      /\ Range(batch) = {Head(batch)} \cup Range(Tail(batch))
      /\ Range(followUps \o s) = Range(followUps) \cup Range(s)
  BY RangeOfParts DEF OrderInv, TypeInv, TypeOK
<1>2. /\ PendingEffects' = Range(batch') \cup QueuedEffects(work')
      /\ PendingEvents' = Range(followUps') \cup QueuedEvents(work')
  BY DEF PendingEffects, PendingEvents, QueuedEffects, QueuedEvents
<1>3. batch' = Tail(batch) /\ work' = work /\ followUps' = followUps \o s
  BY DEF FollowedBy
<1>4. Sorted(Tail(batch)) /\ \A g \in Range(Tail(batch)) : Before(Head(batch), g)
  BY <1>1, SortedTail DEF OrderInv, InOrder
<1>5. \A g \in QueuedEffects(work) : Before(Head(batch), g)
  BY <1>1 DEF OrderInv, InOrder, AllBefore
<1>6. InOrder'
  BY <1>1, <1>3, <1>4
  DEF OrderInv, InOrder, Sorted, AllBefore, QueueSorted, QueuedEffects
<1> QED BY <1>1, <1>2, <1>3, <1>4, <1>5, <1>6, PendingIs

\* ... which is no request for a timer,
LEMMA AnsweredMoves ==
    ASSUME OrderInv, batch # <<>>, ~IsSchedule(Head(batch)), NEW s \in Seq(ShellEvents),
           FollowedBy(s), UNCHANGED <<core, host>>,
           \A r \in Range(s) :
              /\ r.type # "TimerLost"
              /\ r.type = "RenderPlanComputed" =>
                    /\ Head(batch).type = "RequestRenderPlan"
                    /\ r.proposal.id = Head(batch).id
                    /\ r.proposal.animate = Head(batch).decision.animate,
           Head(batch).type = "ApplyRenderCleanup" =>
              \E r \in Range(s) : r.type = "RenderCleanupApplied"
    PROVE  Moves /\ \A r \in PendingEvents' : r \in PendingEvents \/ ~LosesRecovery(r)
<1>1. /\ InOrder' /\ PendingEffects' \subseteq PendingEffects
      /\ PendingEffects \subseteq {Head(batch)} \cup PendingEffects'
      /\ Head(batch) \in PendingEffects
      /\ PendingEvents' = PendingEvents \cup Range(s)
  BY ExecutedMoves
<1>2. NoneAhead'
  BY <1>1, SameOrder
<1> QED BY <1>1, <1>2 DEF Moves, LosesRecovery

\* ... a host timer is started, or cannot be,
LEMMA ScheduleMoves ==
    ASSUME OrderInv, ExecuteScheduleTimer
    PROVE  /\ Moves
           /\ "recovery" \notin FaultKinds =>
                 \A r \in PendingEvents' : r \in PendingEvents \/ ~LosesRecovery(r)
<1> DEFINE f == Head(batch)
           Lost(due) == [type |-> "TimerLost", timer |-> f.timer, gen |-> f.gen,
                         due |-> due]
<1>1. /\ batch # <<>> /\ IsSchedule(f) /\ f \in Effects /\ core' = core
      /\ f.timer \in TimerIds /\ f.gen \in Nat
  <2>1. batch # <<>> /\ f.type = "ScheduleTimer" /\ core' = core
    BY DEF ExecuteScheduleTimer, Executing
  <2>2. f \in Effects
    BY <2>1, HeadsTyped DEF OrderInv
  <2> QED BY <2>1, <2>2 DEF Effects, IsSchedule
<1>2. \A x \in TimerIds : host[x] \in Nat
  BY DEF OrderInv, TypeInv, TypeOK
<1>3. CASE host' = [host EXCEPT ![f.timer] = f.gen] /\ FollowedBy(<<>>)
  <2>1. /\ InOrder' /\ PendingEffects' \subseteq PendingEffects
        /\ PendingEffects \subseteq {f} \cup PendingEffects'
        /\ f \in PendingEffects
        /\ PendingEvents' = PendingEvents
        /\ \A g \in PendingEffects' : Before(f, g)
    <3>1. <<>> \in Seq(ShellEvents) /\ Range(<<>>) = {}
      BY FewEffects
    <3> QED BY <1>1, <1>3, <3>1, ExecutedMoves
  <2> HIDE DEF f
  <2>2. /\ host'[f.timer] = f.gen
        /\ \A x \in TimerIds : x # f.timer => host'[x] = host[x]
    BY <1>1, <1>3 DEF OrderInv, TypeInv, TypeOK
  <2>3. NoneAhead'
    <3>1. ASSUME NEW x \in TimerIds
          PROVE  host'[x] <= core'.timers[x].gen
      BY <1>1, <2>1, <2>2 DEF OrderInv, NoneAhead
    <3>2. ASSUME NEW g \in PendingEffects', IsSchedule(g)
          PROVE  g.gen <= core'.timers[g.timer].gen /\ host'[g.timer] <= g.gen
      <4>1. g \in Effects /\ g.timer \in TimerIds
        BY <2>1, <3>2, PendingTyped DEF OrderInv, Effects, IsSchedule
      <4>2. g.gen <= core'.timers[g.timer].gen /\ host[g.timer] <= g.gen
        BY <1>1, <2>1, <3>2 DEF OrderInv, NoneAhead
      <4>3. g.timer = f.timer => f.gen <= g.gen
        BY <1>1, <2>1, <3>2 DEF Before
      <4> QED BY <2>2, <4>1, <4>2, <4>3
    <3> QED BY <3>1, <3>2 DEF NoneAhead, IsSchedule
  <2>4. Moves
    BY <1>1, <2>1, <2>2, <2>3 DEF Moves, IsSchedule
  <2> QED BY <2>1, <2>4
<1>4. ASSUME NEW due \in BOOLEAN, FollowedBy(<<Lost(due)>>), host' = host,
             Fault(IF f.timer = "Recovery" THEN "recovery" ELSE "timer")
      PROVE  /\ Moves
             /\ "recovery" \notin FaultKinds =>
                   \A r \in PendingEvents' : r \in PendingEvents \/ ~LosesRecovery(r)
  <2> DEFINE e == Lost(due)
  <2>1. /\ e \in ShellEvents /\ e.type = "TimerLost" /\ e.timer = f.timer
        /\ e.gen = f.gen
    BY <1>1 DEF ShellEvents
  <2>2. FollowedBy(<<e>>)
    BY <1>4
  <2> HIDE DEF e, Lost
  <2>3. /\ InOrder' /\ PendingEffects' \subseteq PendingEffects
        /\ PendingEffects \subseteq {f} \cup PendingEffects'
        /\ PendingEvents' = PendingEvents \cup {e}
    BY <1>1, <2>1, <2>2, OneReply, ExecutedMoves
  <2>4. NoneAhead'
    BY <1>1, <1>4, <2>3, SameOrder
  <2>5. Moves
    BY <1>1, <1>4, <2>1, <2>3, <2>4 DEF Moves, IsSchedule
  <2>6. "recovery" \notin FaultKinds => ~LosesRecovery(e)
    BY <1>4, <2>1 DEF Fault, LosesRecovery
  <2> QED BY <2>3, <2>5, <2>6
<1> QED BY <1>3, <1>4 DEF ExecuteScheduleTimer

\* ... whatever the effect is.
LEMMA ExecuteMoves ==
    ASSUME OrderInv, ExecuteEffect
    PROVE  \/ "observe" \in FaultKinds /\ DrainFails /\ UNCHANGED <<core, host>>
           \/ /\ Moves
              /\ "recovery" \notin FaultKinds =>
                    \A r \in PendingEvents' : r \in PendingEvents \/ ~LosesRecovery(r)
<1> DEFINE f == Head(batch)
           Goal == /\ Moves
                   /\ "recovery" \notin FaultKinds =>
                         \A r \in PendingEvents' : r \in PendingEvents \/ ~LosesRecovery(r)
<1>1. batch # <<>> /\ f \in Effects
  BY HeadsTyped
  DEF ExecuteEffect, ExecuteRequestObservationBase, ExecuteRequestProbe,
      ExecuteRequestRenderPlan, ExecuteApplyProposal, ExecuteApplyRenderCleanup,
      ExecuteScheduleTimer, ExecuteIngressCursorPresentation, Executing, OrderInv
<1> SUFFICES ("observe" \in FaultKinds /\ DrainFails /\ UNCHANGED <<core, host>>) \/ Goal
  OBVIOUS
<1>2. ASSUME NEW e \in ShellEvents, FollowedBy(<<e>>), ~IsSchedule(f),
             UNCHANGED <<core, host>>,
             e.type \notin {"TimerLost", "RenderPlanComputed"},
             f.type = "ApplyRenderCleanup" => e.type = "RenderCleanupApplied"
      PROVE  Goal
  BY <1>1, <1>2, OneReply, AnsweredMoves
<1>3. ASSUME NEW s \in Seq(ShellEvents), FollowedByWithRetained(s), ~IsSchedule(f),
             UNCHANGED <<core, host>>, f.type # "ApplyRenderCleanup",
             \A r \in Range(s) : r.type \notin {"TimerLost", "RenderPlanComputed"}
      PROVE  Goal
  <2>1. CASE FollowedBy(s)
    BY <1>1, <1>3, <2>1, AnsweredMoves
  <2>2. ASSUME NEW due \in BOOLEAN, FollowedBy(Append(s, RetainedObserved(due)))
        PROVE  Goal
    <3> DEFINE last == <<RetainedObserved(due)>>
               more == Append(s, RetainedObserved(due))
    <3>1. /\ RetainedObserved(due) \in ShellEvents
          /\ RetainedObserved(due).type = "RetainedResourcesObserved"
      BY DEF RetainedObserved, ShellEvents
    <3>2. /\ more = s \o last /\ more \in Seq(ShellEvents) /\ last \in Seq(ShellEvents)
          /\ Range(last) = {RetainedObserved(due)}
      BY <3>1, AppendIsConcat, OneReply
    <3> HIDE DEF more, last
    <3>3. Range(more) = Range(s) \cup {RetainedObserved(due)}
      BY <3>2, RangeOfParts
    <3> QED BY <1>1, <1>3, <2>2, <3>1, <3>2, <3>3, AnsweredMoves DEF more
  <2> QED BY <1>3, <2>1, <2>2 DEF FollowedByWithRetained
<1>4. CASE ExecuteRequestObservationBase
  <2>1. f.type = "RequestObservationBase" /\ f.id \in Nat /\ UNCHANGED <<core, host>>
    BY <1>1, <1>4 DEF ExecuteRequestObservationBase, Executing, Effects
  <2>2. ASSUME NEW chunks \in 0 .. MaxChunks, NEW samples \in BOOLEAN,
               NEW inexact \in BOOLEAN,
               FollowedBy(<<[type |-> "ObservationBaseCollected", id |-> f.id,
                             chunks |-> chunks, samples |-> samples,
                             inexact |-> inexact]>>)
        PROVE  Goal
    <3> DEFINE e == [type |-> "ObservationBaseCollected", id |-> f.id,
                     chunks |-> chunks, samples |-> samples, inexact |-> inexact]
    <3>1. e \in ShellEvents /\ e.type = "ObservationBaseCollected"
      BY <2>1 DEF ShellEvents
    <3> HIDE DEF e, Goal
    <3> QED BY <1>2, <2>1, <2>2, <3>1 DEF e, IsSchedule
  <2> HIDE DEF Goal
  <2> QED BY <1>4, <2>1, <2>2 DEF ExecuteRequestObservationBase, Fault
<1>5. CASE ExecuteRequestProbe
  <2>1. f.type = "RequestProbe" /\ UNCHANGED <<core, host>>
    BY <1>5 DEF ExecuteRequestProbe, Executing
  <2>2. PICK e \in ProbeReports(f, core.obs) : FollowedBy(<<e>>)
    BY <1>5 DEF ExecuteRequestProbe
  <2>3. e \in ShellEvents /\ e.type = "ProbeReported"
    BY <1>1, <2>1, ProbeReportsTyped DEF ProbeReports
  <2> HIDE DEF Goal
  <2> QED BY <1>2, <2>1, <2>2, <2>3 DEF IsSchedule
<1>6. CASE ExecuteRequestRenderPlan
  <2> DEFINE computed == [type |-> "RenderPlanComputed", proposal |-> PlannedProposal(f)]
             failed   == [type |-> "RenderPlanFailed", id |-> f.id]
  <2>1. f.type = "RequestRenderPlan" /\ f.id \in Nat /\ UNCHANGED <<core, host>>
    BY <1>1, <1>6 DEF ExecuteRequestRenderPlan, Executing, Effects
  <2>2. computed \in ShellEvents /\ failed \in ShellEvents
    BY <1>1, <2>1, PlannedProposalTyped DEF ShellEvents
  <2>3. /\ computed.proposal.id = f.id
        /\ computed.proposal.animate = f.decision.animate
        /\ computed.type # "TimerLost" /\ failed.type = "RenderPlanFailed"
    BY DEF PlannedProposal
  <2>4. FollowedBy(<<computed>>) \/ FollowedBy(<<failed>>)
    BY <1>6 DEF ExecuteRequestRenderPlan
  <2> HIDE DEF computed, failed
  <2>5. CASE FollowedBy(<<computed>>)
    BY <1>1, <2>1, <2>2, <2>3, <2>5, OneReply, AnsweredMoves DEF IsSchedule
  <2> HIDE DEF Goal
  <2> QED BY <1>2, <2>1, <2>2, <2>3, <2>4, <2>5 DEF IsSchedule
<1>7. CASE ExecuteApplyProposal
  <2> DEFINE p == f.proposal
  <2>1. f.type = "ApplyProposal" /\ p.id \in Nat /\ UNCHANGED <<core, host>>
    BY <1>1, <1>7 DEF ExecuteApplyProposal, Executing, Effects, Proposals
  <2>2. /\ \A redraw \in BOOLEAN, o \in {"full", "degraded", "failed"} :
              /\ ApplyReport(p, o, redraw) \in ShellEvents
              /\ ApplyReport(p, o, redraw).type = "ApplyReported"
        /\ EffectFailed(p.id) \in ShellEvents /\ EffectFailed(p.id).type = "EffectFailed"
    BY <2>1, EffectFailedIsEvent DEF ApplyReport, ShellEvents, EffectFailed
  <2>3. \/ \E redraw \in BOOLEAN :
              FollowedByWithRetained(<<ApplyReport(p, "full", redraw)>>)
        \/ \E e \in {ApplyReport(p, "degraded", FALSE),
                     ApplyReport(p, "failed", FALSE), EffectFailed(p.id)} :
              FollowedBy(<<e>>)
    BY <1>7 DEF ExecuteApplyProposal
  <2> HIDE DEF p, Goal
  <2>4. ASSUME NEW redraw \in BOOLEAN,
               FollowedByWithRetained(<<ApplyReport(p, "full", redraw)>>)
        PROVE  Goal
    BY <1>3, <2>1, <2>2, <2>4, OneReply DEF IsSchedule
  <2> QED BY <1>2, <2>1, <2>2, <2>3, <2>4 DEF IsSchedule
<1>8. CASE ExecuteApplyRenderCleanup
  <2>1. f.type = "ApplyRenderCleanup" /\ UNCHANGED <<core, host>>
    BY <1>8 DEF ExecuteApplyRenderCleanup, Executing
  <2>2. PICK action \in {"SoftClearedNone", "SoftClearedRetained", "Converged",
                         "Progress", "NoProgress", "CleanupStalled"},
             due \in BOOLEAN : FollowedBy(<<CleanupApplied(action, due)>>)
    BY <1>8 DEF ExecuteApplyRenderCleanup
  <2>3. /\ CleanupApplied(action, due) \in ShellEvents
        /\ CleanupApplied(action, due).type = "RenderCleanupApplied"
    BY DEF CleanupApplied, ShellEvents
  <2> HIDE DEF Goal
  <2> QED BY <1>2, <2>1, <2>2, <2>3 DEF IsSchedule
<1>9. CASE ExecuteScheduleTimer
  BY <1>9, ScheduleMoves
<1>10. CASE ExecuteIngressCursorPresentation
  <2>1. /\ f.type = "ApplyIngressCursorPresentation" /\ FollowedByWithRetained(<<>>)
        /\ UNCHANGED <<core, host>>
    BY <1>10 DEF ExecuteIngressCursorPresentation, Executing
  <2>2. <<>> \in Seq(ShellEvents) /\ Range(<<>>) = {}
    BY FewEffects
  <2> HIDE DEF Goal
  <2> QED BY <1>3, <2>1, <2>2 DEF IsSchedule
<1> HIDE DEF Goal
<1> QED BY <1>4, <1>5, <1>6, <1>7, <1>8, <1>9, <1>10 DEF ExecuteEffect, Goal

\* Effects and host timers as they were, and at most a report or a failure more.
LEMMA QueuedMoves ==
    ASSUME OrderInv, UNCHANGED <<core, host>>, InOrder',
           PendingEffects' = PendingEffects, PendingEvents \subseteq PendingEvents',
           \A r \in PendingEvents' :
              r \in PendingEvents \/ r.type \notin {"TimerLost", "RenderPlanComputed"}
    PROVE  Moves /\ \A r \in PendingEvents' : r \in PendingEvents \/ ~LosesRecovery(r)
<1>1. NoneAhead'
  BY SameOrder
<1> QED BY <1>1 DEF Moves, LosesRecovery

\* A staged event leaves the order alone.
LEMMA StagedSorted ==
    ASSUME NEW w \in Seq(WorkItems), QueueSorted(w), NEW e \in ShellEvents
    PROVE  QueueSorted(Append(w, Staged(e)))
<1> DEFINE one == <<Staged(e)>>
<1>1. Append(w, Staged(e)) = w \o one
  BY StagedTyped, AppendIsConcat
<1>2. one \in Seq(WorkItems) /\ QueuedEffects(one) = {}
  BY StagedAlone
<1> HIDE DEF one
<1>3. AllBefore(QueuedEffects(one), QueuedEffects(one))
      /\ AllBefore(QueuedEffects(w), QueuedEffects(one))
  BY <1>2 DEF AllBefore
<1>4. QueueSorted(one)
  BY <1>2, <1>3, SortedOfOneAge
<1>5. QueueSorted(w \o one)
  BY <1>2, <1>3, <1>4, SortedBehind
<1> QED BY <1>1, <1>5

\* Every step handles an event, moves what is queued, or gives it up.
LEMMA StepKinds ==
    ASSUME OrderInv, [Next]_vars
    PROVE  \/ \E e \in Events : \E d \in PlanChoices : Handled(e, d)
           \/ /\ Moves
              /\ "recovery" \notin FaultKinds =>
                    \A r \in PendingEvents' : r \in PendingEvents \/ ~LosesRecovery(r)
           \/ "observe" \in FaultKinds /\ DrainFails /\ UNCHANGED <<core, host>>
<1> DEFINE Handles == \E e \in Events : \E d \in PlanChoices : Handled(e, d)
<1>1. /\ work \in Seq(WorkItems) /\ followUps \in Seq(ShellEvents)
      /\ batch \in Seq(Effects)
  BY DEF OrderInv, TypeInv, TypeOK
<1>2. /\ PendingEffects' = Range(batch') \cup QueuedEffects(work')
      /\ PendingEvents' = Range(followUps') \cup QueuedEvents(work')
  BY DEF PendingEffects, PendingEvents, QueuedEffects, QueuedEvents
<1>3. InOrder' <=> /\ Sorted(batch')
                   /\ AllBefore(Range(batch'), QueuedEffects(work'))
                   /\ QueueSorted(work')
  BY DEF InOrder, Sorted, AllBefore, QueueSorted, QueuedEffects
<1>4. CASE UNCHANGED vars
  <2>1. UNCHANGED <<core, host, batch, work, followUps>>
    BY <1>4 DEF vars, shell
  <2>2. InOrder'
    BY <1>3, <2>1 DEF OrderInv, InOrder
  <2>3. PendingEffects' = PendingEffects /\ PendingEvents' = PendingEvents
    BY <1>2, <2>1, PendingIs
  <2> QED BY <2>1, <2>2, <2>3, QueuedMoves
<1>5. CASE Initialize
  <2> DEFINE e == [type |-> "Initialize"]
  <2>1. e \in Events /\ e.type = "Initialize"
    BY DEF Events, EditorEvents
  <2>2. Dispatch(e) /\ UNCHANGED <<batch, followUps, host>>
    BY <1>5 DEF Initialize
  <2> HIDE DEF e
  <2>3. \E d \in PlanChoices : Handled(e, d)
    BY <2>1, <2>2, DispatchHandles DEF Fires
  <2> QED BY <2>1, <2>3
<1>6. ASSUME NEW kind \in ExternalKinds, Ingress(kind)
      PROVE  Handles
  <2>1. PICK presents \in BOOLEAN :
           Dispatch([type |-> "ExternalDemandQueued", kind |-> kind,
                     presents |-> presents])
    BY <1>6 DEF Ingress
  <2> DEFINE e == [type |-> "ExternalDemandQueued", kind |-> kind, presents |-> presents]
  <2>2. e \in Events /\ e.type = "ExternalDemandQueued" /\ Dispatch(e)
    BY <2>1 DEF Events, EditorEvents
  <2>3. UNCHANGED <<batch, followUps, host>>
    BY <1>6 DEF Ingress
  <2> HIDE DEF e
  <2> QED BY <2>2, <2>3, DispatchHandles DEF Fires
<1>7. CASE PluginCallbackPanics
  <2>1. /\ QueuedEffects(work') = QueuedEffects(work)
        /\ QueuedEvents(work') = QueuedEvents(work) \cup {EffectFailed(0)}
        /\ UNCHANGED <<core, host, batch, followUps>>
    BY <1>1, <1>7, EffectFailedIsEvent, StagedBehind DEF PluginCallbackPanics
  <2>2. QueueSorted(work')
    BY <1>1, <1>7, EffectFailedIsEvent, StagedSorted
    DEF PluginCallbackPanics, OrderInv, InOrder
  <2>3. InOrder'
    BY <1>3, <2>1, <2>2 DEF OrderInv, InOrder
  <2>4. EffectFailed(0).type = "EffectFailed"
    BY DEF EffectFailed
  <2>5. PendingEffects' = PendingEffects
    BY <1>2, <2>1, PendingIs
  <2>6. PendingEvents' = PendingEvents \cup {EffectFailed(0)}
    BY <1>2, <2>1, PendingIs
  <2> QED BY <2>1, <2>3, <2>4, <2>5, <2>6, QueuedMoves
<1>8. ASSUME NEW x \in TimerIds, TimerFires(x)
      PROVE  Handles
  <2>1. PICK due \in BOOLEAN :
           Dispatch([type |-> "TimerFired", timer |-> x, gen |-> host[x], due |-> due])
    BY <1>8 DEF TimerFires
  <2> DEFINE e == [type |-> "TimerFired", timer |-> x, gen |-> host[x], due |-> due]
  <2>2. /\ e \in Events /\ e.type = "TimerFired" /\ e.timer = x /\ e.gen = host[x]
        /\ Dispatch(e)
    BY <2>1, ShellEventsAreEvents DEF ShellEvents, OrderInv, TypeInv, TypeOK
  <2>3. /\ UNCHANGED <<batch, followUps>>
        /\ \A y \in TimerIds : host'[y] = IF y = x THEN 0 ELSE host[y]
    BY <1>8 DEF TimerFires, OrderInv, TypeInv, TypeOK
  <2> HIDE DEF e
  <2>4. Fires(e)
    BY <2>2, <2>3 DEF Fires
  <2> QED BY <2>2, <2>3, <2>4, DispatchHandles
<1>9. CASE StartBatch
  <2>1. /\ batch = <<>> /\ Range(batch) = {} /\ work # <<>> /\ Head(work).item = "batch"
        /\ batch' = Head(work).effects /\ work' = Tail(work)
        /\ UNCHANGED <<core, host, followUps>>
    BY <1>9, FewEffects DEF StartBatch, BetweenUnits
  <2>2. /\ QueuedEffects(work) = Range(batch') \cup QueuedEffects(work')
        /\ QueuedEvents(work) = QueuedEvents(work')
        /\ QueueSorted(work') /\ Sorted(batch')
        /\ AllBefore(Range(batch'), QueuedEffects(work'))
    BY <1>1, <2>1, OldestTaken, SortedRest DEF OrderInv, InOrder
  <2>3. PendingEffects' = PendingEffects /\ PendingEvents' = PendingEvents
    BY <1>2, <2>1, <2>2, PendingIs
  <2>4. InOrder'
    BY <1>3, <2>2
  <2> QED BY <2>1, <2>3, <2>4, QueuedMoves
<1>10. CASE StageRefreshReport
  <2> DEFINE e == Head(followUps)
  <2>1. /\ e \in ShellEvents /\ Range(followUps) = {e} \cup Range(Tail(followUps))
        /\ e.type = "ProbeReported"
    BY <1>1, <1>10, HeadsTyped, RangeOfParts DEF StageRefreshReport, OrderInv, IsRefresh
  <2>2. /\ work' = Append(work, Staged(e)) /\ followUps' = Tail(followUps)
        /\ UNCHANGED <<core, host, batch>>
    BY <1>10 DEF StageRefreshReport
  <2> HIDE DEF e
  <2>3. /\ QueuedEffects(work') = QueuedEffects(work)
        /\ QueuedEvents(work') = QueuedEvents(work) \cup {e}
        /\ QueueSorted(work')
    BY <1>1, <2>1, <2>2, StagedBehind, StagedSorted DEF OrderInv, InOrder
  <2>4. InOrder'
    BY <1>3, <2>2, <2>3 DEF OrderInv, InOrder
  <2>5. PendingEffects' = PendingEffects /\ PendingEvents' = PendingEvents
    BY <1>2, <2>1, <2>2, <2>3, PendingIs
  <2> QED BY <2>2, <2>4, <2>5, QueuedMoves
<1>11. CASE DispatchStaged \/ DispatchFollowUp
  BY <1>11, DispatchStagedHandles, DispatchFollowUpHandles, ShellEventsAreEvents
<1>12. CASE ExecuteEffect
  BY <1>12, ExecuteMoves
<1> QED BY <1>4, <1>5, <1>6, <1>7, <1>8, <1>9, <1>10, <1>11, <1>12 DEF Next, Drain

\* Steps keep the timer of a recovery,
LEMMA NextRecovery ==
    ASSUME RecoveryInv, [Next]_vars
    PROVE  RecoveryInv'
<1>1. TypeInv'
  BY NextTyped DEF RecoveryInv, OrderInv
<1>2. ASSUME DrainFails, UNCHANGED <<core, host>>
      PROVE  RecoveryInv'
  <2>1. InOrder' /\ PendingEffects' = {} /\ FailurePending'
    BY <1>2, FailureMoves DEF RecoveryInv
  <2>2. NoneAhead'
    BY <1>2, <2>1, SameOrder DEF RecoveryInv
  <2> QED BY <1>1, <2>1, <2>2 DEF RecoveryInv, OrderInv, Timed
<1> QED BY <1>1, <1>2, StepKinds, HandledRecovery, MovedRecovery DEF RecoveryInv

\* ... and, where recovery timers can be started and animations go on, those of
\* all phases.
LEMMA NextPhases ==
    ASSUME "recovery" \notin FaultKinds, GoesOn, PhaseInv, [Next]_vars
    PROVE  PhaseInv'
<1>1. TypeInv' /\ OrderInv
  BY NextTyped DEF PhaseInv, OrderInv
<1>2. ASSUME DrainFails, UNCHANGED <<core, host>>
      PROVE  PhaseInv'
  <2>1. /\ InOrder' /\ PendingEffects' = {} /\ PendingEvents' = {EffectFailed(0)}
        /\ FailurePending'
    BY <1>1, <1>2, FailureMoves
  <2>2. NoneAhead'
    BY <1>1, <1>2, <2>1, SameOrder
  <2>3. EffectFailed(0).type = "EffectFailed"
    BY DEF EffectFailed
  <2>4. PlansAnimate(core, PendingEffects, PendingEvents)'
    BY <1>2, <2>1, <2>3 DEF PhaseInv, PlansAnimate
  <2>5. DelayHolds(core)' /\ \A r \in PendingEvents' : ~LosesRecovery(r)
    BY <1>2, <2>1, <2>3 DEF PhaseInv, DelayHolds, QueuedKinds, LosesRecovery
  <2>6. OrderInv' /\ Timed(TimerIds)'
    BY <1>1, <2>1, <2>2 DEF OrderInv, Timed
  <2> QED BY <2>4, <2>5, <2>6 DEF PhaseInv, LosesRecovery
<1>3. ASSUME NEW e \in Events, NEW d \in PlanChoices, Handled(e, d)
      PROVE  PhaseInv'
  <2>1. ~LosesRecovery(e)
    BY <1>3 DEF Handled, IsGenuine, PhaseInv, LosesRecovery
  <2> QED BY <1>1, <1>3, <2>1, HandledPhases
<1>4. ASSUME Moves, \A r \in PendingEvents' : r \in PendingEvents \/ ~LosesRecovery(r)
      PROVE  PhaseInv'
  <2>1. \A r \in PendingEvents' : ~LosesRecovery(r)
    BY <1>4 DEF PhaseInv
  <2> QED BY <1>1, <1>4, <2>1, MovedPhases
<1> QED BY <1>1, <1>2, <1>3, <1>4, StepKinds

\* At the start nothing is queued and no phase waits.
LEMMA InitTimers ==
    ASSUME Init
    PROVE  RecoveryInv /\ PhaseInv
<1>1. TypeInv /\ PendingEffects = {} /\ PendingEvents = {}
  <2>1. QueuedEffects(work) = {} /\ QueuedEvents(work) = {}
    BY DEF Init, QueuedEffects, QueuedEvents
  <2>2. Range(batch) = {} /\ Range(followUps) = {}
    BY FewEffects DEF Init
  <2> QED BY <2>1, <2>2, InitTyped, PendingIs
<1>2. core.phase = "Idle" /\ core.delay = "none" /\ ~core.animating
      /\ \A x \in TimerIds : core.timers[x].gen = 0 /\ host[x] = 0
  BY DEF Init, InitialCore
<1>3. InOrder
  <2>1. batch = <<>> /\ work = <<>>
    BY DEF Init
  <2>2. Sorted(batch) /\ QueueSorted(work) /\ Range(batch) = {}
    BY <2>1, FewEffects DEF Sorted, QueueSorted
  <2> QED BY <2>2 DEF InOrder, AllBefore
<1>4. NoneAhead
  BY <1>1, <1>2 DEF NoneAhead
<1>5. \A X : Timed(X)
  BY <1>2 DEF Timed, NeedsTimer, AcceptsObservation
<1> QED BY <1>1, <1>2, <1>3, <1>4, <1>5
        DEF RecoveryInv, PhaseInv, OrderInv, DelayHolds, PlansAnimate

\* RecoveryIsTimed: a recovery has a timer that ends it, started or still to be
\* started, or the failure that begins another one is staged, whatever fails and
\* whatever is decided.
THEOREM RecoveryAlwaysTimed == Spec => []RecoveryIsTimed
<1>1. RecoveryInv => RecoveryIsTimed
  BY DEF RecoveryInv, Timed, NeedsTimer, RecoveryIsTimed
<1> QED BY <1>1, InitTimers, NextRecovery, PTL DEF Spec

\* Host timers are started in the order of their tokens: none is ahead of the
\* core's newest token, and no request still to be executed is behind the live
\* timer it replaces.
THEOREM TokensStayInOrder == Spec => []OrderInv
<1>1. RecoveryInv => OrderInv
  BY DEF RecoveryInv
<1> QED BY <1>1, InitTimers, NextRecovery, PTL DEF Spec

\* PhasesAreTimed: recovery, a delayed cursor demand and an animation at rest
\* have the timer they wait for, where the host can start a recovery timer and a
\* decision that keeps the animation running schedules its next frame.
THEOREM NoPhaseWaitsForever ==
    ASSUME "recovery" \notin FaultKinds, GoesOn
    PROVE  Spec => []PhasesAreTimed
<1>1. PhaseInv => PhasesAreTimed
  <2>1. ASSUME PhaseInv, NEW x \in TimerIds, NeedsTimer(core, x)
        PROVE  TimerPending(x) \/ FailurePending
    BY <2>1 DEF PhaseInv, Timed
  <2>2. {"Recovery", "Ingress", "Animation"} \subseteq TimerIds
    BY DEF TimerIds
  <2> QED BY <2>1, <2>2
          DEF PhasesAreTimed, RecoveryIsTimed, DelayedCursorIsTimed, AnimationIsDriven,
              NeedsTimer
<1>2. PhaseInv /\ [Next]_vars => PhaseInv'
  BY NextPhases
<1>3. Init => PhaseInv
  BY InitTimers
<1> QED BY <1>1, <1>2, <1>3, PTL DEF Spec

=============================================================================
