---------------------------- MODULE SmearCoreWork ----------------------------
(***************************************************************************)
(* No work is lost, for every value of the constants of SmearCore and      *)
(* whatever fails: a phase that waits for the shell always has its request *)
(* in the queue, its answer on the way back, or the failure that replaces  *)
(* both.                                                                   *)
(*                                                                         *)
(* NoLostWork names the type and the id of what is owed.  It is not        *)
(* inductive: an observation with two probes shares one id between them,   *)
(* and the report of the one does not answer the request for the other.    *)
(* WorkInv therefore names the probe as well, and says that an observation *)
(* that is waited for lacks at least one of its probes.                    *)
(***************************************************************************)
EXTENDS SmearCoreTypes

\* The phases that wait for an answer of the shell.
InFlight(c) == c.phase \in {"Collecting", "Observing", "Planning", "Applying"}

\* The probe an observation waits for now.
AwaitedProbe(obs) == IF obs.color = "pending" THEN "CursorColor" ELSE "Background"

\* Effect f asks for what c waits for.
Requests(c, f) ==
    \/ /\ c.phase = "Collecting" /\ f.type = "RequestObservationBase"
       /\ f.id = c.demand.seq
    \/ /\ c.phase = "Observing" /\ f.type = "RequestProbe"
       /\ f.id = c.obs.seq /\ f.probe = AwaitedProbe(c.obs)
    \/ /\ c.phase = "Planning" /\ f.type = "RequestRenderPlan"
       /\ f.id = c.proposal.id
    \/ /\ c.phase = "Applying" /\ f.type = "ApplyProposal"
       /\ f.proposal.id = c.proposal.id

\* Event e answers what c waits for.
Replies(c, e) ==
    \/ /\ c.phase = "Collecting" /\ e.type = "ObservationBaseCollected"
       /\ e.id = c.demand.seq
    \/ /\ c.phase = "Observing" /\ e.type = "ProbeReported"
       /\ e.id = c.obs.seq /\ e.probe = AwaitedProbe(c.obs)
    \/ /\ c.phase = "Planning" /\ e.type = "RenderPlanComputed"
       /\ e.proposal.id = c.proposal.id
    \/ /\ c.phase = "Planning" /\ e.type = "RenderPlanFailed"
       /\ e.id = c.proposal.id
    \/ /\ c.phase = "Applying" /\ e.type \in {"ApplyReported", "EffectFailed"}
       /\ e.id = c.proposal.id

\* What waits for a probe lacks one.
LacksProbe(c) == c.phase = "Observing" => NextPendingProbeEffects(c.obs) # <<>>

\* Among these effects and events something ends the wait of c.
IsOwed(c, effects, events) ==
    InFlight(c) => \/ EffectFailed(0) \in events
                   \/ \E f \in effects : Requests(c, f)
                   \/ \E e \in events : Replies(c, e)

\* The inductive invariant.
WorkInv ==
    /\ TypeInv
    /\ LacksProbe(core)
    /\ IsOwed(core, PendingEffects, PendingEvents)

-----------------------------------------------------------------------------
(* What a handler owes. *)

\* The transition asks for whatever its state waits for.
Asks(t) ==
    /\ LacksProbe(t.next)
    /\ InFlight(t.next) => \E i \in DOMAIN t.effects : Requests(t.next, t.effects[i])

\* c and n wait for the same.
SameWait(c, n) ==
    /\ n.phase = c.phase
    /\ n.demand = c.demand
    /\ n.proposal = c.proposal
    /\ c.phase = "Observing" => n.obs = c.obs

\* A failure that ends whatever the core waits for.
Aborts(e) == e.type = "EffectFailed" /\ e.id = 0

\* Handling e ends in a wait that is asked for, or in the wait there was, which
\* e had nothing to do with.
Proceeds(c, e, t) ==
    \/ Asks(t)
    \/ /\ LacksProbe(t.next)
       /\ SameWait(c, t.next)
       /\ ~Replies(c, e) /\ ~Aborts(e)

\* A wait is for the same answer in states that differ elsewhere.
LEMMA SameWaitSame ==
    ASSUME NEW c, NEW n, SameWait(c, n)
    PROVE  /\ InFlight(n) <=> InFlight(c)
           /\ LacksProbe(n) <=> LacksProbe(c)
           /\ \A f : Requests(n, f) <=> Requests(c, f)
           /\ \A e : Replies(n, e) <=> Replies(c, e)
  BY DEF SameWait, InFlight, LacksProbe, Requests, Replies

\* Timers and cleanup are nothing to wait for.
LEMMA SameProtocolWaits ==
    ASSUME NEW c, NEW n, SameProtocol(c, n)
    PROVE  SameWait(c, n)
  BY DEF SameProtocol, SameWait

\* A state that waits for nothing asks for it,
LEMMA IdleAsks ==
    ASSUME NEW t, ~InFlight(t.next)
    PROVE  Asks(t)
  BY DEF Asks, InFlight, LacksProbe

\* ... effects around those asked for, and updates of timers and cleanup after
\* them, take nothing away,
LEMMA AsksMore ==
    ASSUME NEW t, Asks(t), NEW n, SameProtocol(t.next, n),
           NEW a \in Seq(Effects), NEW b \in Seq(Effects), t.effects \in Seq(Effects)
    PROVE  Asks([next |-> n, effects |-> a \o t.effects \o b])
<1> DEFINE s == a \o t.effects \o b
<1>1. SameWait(t.next, n)
  BY SameProtocolWaits
<1>2. ASSUME NEW i \in DOMAIN t.effects
      PROVE  \E j \in DOMAIN s : s[j] = t.effects[i]
  <2>1. /\ i \in 1 .. Len(t.effects) /\ Len(a) \in Nat
        /\ Len(t.effects) \in Nat /\ Len(b) \in Nat
    BY LenProperties
  <2>2. Len(a) + i \in 1 .. Len(s) /\ s[Len(a) + i] = t.effects[i]
    BY <2>1
  <2>3. s \in Seq(Effects)
    OBVIOUS
  <2> HIDE DEF s
  <2> QED BY <2>2, <2>3, LenProperties
<1> HIDE DEF s
<1>3. InFlight(n) => \E j \in DOMAIN s : Requests(n, s[j])
  <2> SUFFICES ASSUME InFlight(n)
               PROVE  \E j \in DOMAIN s : Requests(n, s[j])
    OBVIOUS
  <2>1. PICK i \in DOMAIN t.effects : Requests(t.next, t.effects[i])
    BY <1>1, SameWaitSame DEF Asks
  <2>2. PICK j \in DOMAIN s : s[j] = t.effects[i]
    BY <1>2
  <2> QED BY <1>1, <2>1, <2>2, SameWaitSame
<1>4. LacksProbe(n)
  BY <1>1, SameWaitSame DEF Asks
<1> QED BY <1>3, <1>4 DEF Asks, s

\* ... and a handler that ignores an event which answers nothing leaves the wait
\* as it was.
LEMMA IgnoredProceeds ==
    ASSUME NEW c, LacksProbe(c), NEW e, NEW t, SameWait(c, t.next),
           ~Replies(c, e), ~Aborts(e)
    PROVE  Proceeds(c, e, t)
  BY SameWaitSame DEF Proceeds

\* Only reports of effects answer anything.
LEMMA AnswersAreReports ==
    ASSUME NEW c, NEW e, Replies(c, e) \/ Aborts(e)
    PROVE  e.type \in {"ObservationBaseCollected", "ProbeReported",
                       "RenderPlanComputed", "RenderPlanFailed",
                       "ApplyReported", "EffectFailed"}
  BY DEF Replies, Aborts

-----------------------------------------------------------------------------
(* Starting observations and plans. *)

\* An observation that is entered is asked for,
LEMMA EnterObservingAsks ==
    ASSUME NEW c \in CoreStates, AcceptsObservation(c), NEW d \in Demands
    PROVE  Asks(EnterObservingRequest(c, d))
<1> DEFINE t == EnterObservingRequest(c, d)
<1>1. t.next.phase = "Collecting" /\ t.next.demand = d
  BY EnterObservingRequestTyped
<1>2. t.effects = <<RequestObservationBase(d)>>
  BY DEF EnterObservingRequest
<1> HIDE DEF t
<1>3. 1 \in DOMAIN t.effects /\ Requests(t.next, t.effects[1])
  BY <1>1, <1>2 DEF Requests, RequestObservationBase
<1> QED BY <1>1, <1>3 DEF Asks, LacksProbe, t

\* ... the oldest queued demand's,
LEMMA StartNextAsks ==
    ASSUME NEW c, CoreInv(c), AcceptsObservation(c)
    PROVE  Asks(StartNextObservation(c))
<1>1. CASE QueuedKinds(c) = {}
  BY <1>1, IdleAsks DEF StartNextObservation, Stay, InFlight, AcceptsObservation
<1>2. CASE QueuedKinds(c) # {}
  <2> DEFINE k == CHOOSE k \in QueuedKinds(c) :
                     \A j \in QueuedKinds(c) : c.queue[k] <= c.queue[j]
             queue == [c.queue EXCEPT ![k] = 0]
             n == [c EXCEPT !.queue = queue, !.delay = "none"]
             d == [kind |-> k, seq |-> c.queue[k]]
  <2>1. k \in DemandKinds
    BY <1>2, OldestKindExists DEF QueuedKinds, CoreInv
  <2>2. queue \in Queues /\ c.queue[k] \in Nat
    BY <2>1, FieldTypes DEF Queues, CoreInv
  <2>3. n \in CoreStates /\ AcceptsObservation(n)
    BY <2>2 DEF CoreInv, CoreStates, AcceptsObservation, Delays
  <2>4. d \in Demands
    BY <2>1, <2>2 DEF Demands
  <2>5. StartNextObservation(c) = EnterObservingRequest(n, d)
    BY <1>2 DEF StartNextObservation
  <2> QED BY <2>3, <2>4, <2>5, EnterObservingAsks
<1> QED BY <1>1, <1>2

\* ... the boundary refresh,
LEMMA StartBoundaryRefreshAsks ==
    ASSUME NEW c \in CoreStates, AcceptsObservation(c)
    PROVE  Asks(StartBoundaryRefreshObservation(c))
<1> DEFINE n == [c EXCEPT !.seq = c.seq + 1]
           d == [kind |-> "BoundaryRefresh", seq |-> c.seq + 1]
<1>1. n \in CoreStates /\ AcceptsObservation(n) /\ d \in Demands
  BY FieldTypes DEF CoreStates, AcceptsObservation, Demands, DemandKinds
<1>2. StartBoundaryRefreshObservation(c) = EnterObservingRequest(n, d)
  BY DEF StartBoundaryRefreshObservation
<1> QED BY <1>1, <1>2, EnterObservingAsks

\* ... and so is a plan.
LEMMA PlanReadyAsks ==
    ASSUME NEW c, CoreInv(c), ~InFlight(c), NEW d \in Decisions
    PROVE  Asks(PlanReadyState(c, d))
<1> DEFINE t == PlanReadyState(c, d)
<1>1. CASE c.phase # "Ready"
  BY <1>1, IdleAsks DEF PlanReadyState, Stay
<1>2. CASE c.phase = "Ready"
  <2>1. /\ t.next.phase = "Planning" /\ t.next.proposal.id = c.proposals + 1
        /\ t.effects = <<[type |-> "RequestRenderPlan", id |-> c.proposals + 1,
                          basis |-> TrustedAcknowledged(c.ledger), decision |-> d]>>
    BY <1>2 DEF PlanReadyState, CoreInv, CoreStates
  <2> HIDE DEF t
  <2>2. 1 \in DOMAIN t.effects /\ Requests(t.next, t.effects[1])
    BY <2>1 DEF Requests
  <2> QED BY <2>1, <2>2 DEF Asks, LacksProbe, t
<1> QED BY <1>1, <1>2

\* Whichever comes next is asked for.
LEMMA ObserveOrPlanAsks ==
    ASSUME NEW c, CoreInv(c), ~InFlight(c), NEW d \in Decisions
    PROVE  Asks(ObserveOrPlan(c, d))
  BY StartNextAsks, PlanReadyAsks, IdleAsks DEF ObserveOrPlan, Stay

\* An observation with a probe outstanding asks for the probe it awaits.
LEMMA ProbeIsRequested ==
    ASSUME NEW obs \in Observations, NextPendingProbeEffects(obs) # <<>>
    PROVE  NextPendingProbeEffects(obs)
              = <<[type |-> "RequestProbe", id |-> obs.seq, probe |-> AwaitedProbe(obs)]>>
  BY DEF NextPendingProbeEffects, AwaitedProbe

-----------------------------------------------------------------------------
(* The handlers. *)

\* Initialize.
LEMMA InitializeProceeds ==
    ASSUME NEW c, CoreInv(c), LacksProbe(c), NEW e \in Events, e.type = "Initialize"
    PROVE  Proceeds(c, e, ReduceInitialize(c))
<1>1. ~Replies(c, e) /\ ~Aborts(e)
  BY AnswersAreReports
<1>2. CASE c.phase = "Idle"
  BY <1>2, IdleAsks DEF ReduceInitialize, Stay, InFlight, CoreInv, CoreStates, Proceeds
<1>3. CASE c.phase # "Idle"
  BY <1>1, <1>3, IgnoredProceeds DEF ReduceInitialize, Stay, SameWait
<1> QED BY <1>2, <1>3

\* A new demand is asked for, held back, or queued behind the wait there is.
LEMMA ExternalDemandQueuedProceeds ==
    ASSUME NEW c, CoreInv(c), LacksProbe(c), NEW e \in Events,
           e.type = "ExternalDemandQueued"
    PROVE  Proceeds(c, e, ReduceExternalDemandQueued(c, e))
<1> DEFINE queue  == [c.queue EXCEPT ![e.kind] = c.seq + 1]
           queued == [c EXCEPT !.seq = c.seq + 1, !.queue = queue]
           hot    == EnterHotCleanup(queued)
           held   == DelayedCursorIngress(hot.next)
           start  == StartNextObservation(hot.next)
           p      == PresentationEffects(c, e)
           T(s)   == [next |-> s.next, effects |-> p \o (s.effects \o hot.effects)]
<1>1. ~Replies(c, e) /\ ~Aborts(e)
  BY AnswersAreReports
<1>2. e.kind \in ExternalKinds /\ queue \in Queues /\ c.seq + 1 \in Nat
  BY EventFields, FieldTypes DEF CoreInv, Queues, DemandKinds
<1>3. CoreInv(queued) /\ SameWait(c, queued)
  <2> HIDE DEF queue
  <2> QED BY <1>2 DEF CoreInv, CoreStates, SameWait
<1> HIDE DEF queued
<1>4. TimersOnly(queued, hot)
  BY <1>3, EnterHotTyped DEF CoreInv
<1>5. /\ CoreInv(hot.next) /\ SameWait(c, hot.next) /\ hot.effects \in Seq(Effects)
      /\ AcceptsObservation(c) <=> AcceptsObservation(hot.next)
  BY <1>3, <1>4, TimersOnlyIsTransition
  DEF IsTransition, TimersOnly, SameProtocol, SameWait, AcceptsObservation
<1> HIDE DEF hot
<1>6. p \in Seq(Effects)
  <2>1. /\ [type |-> "ApplyIngressCursorPresentation"] \in Effects
        /\ [type |-> "RecordMetric"] \in Effects
    BY DEF Effects
  <2> QED BY <2>1 DEF PresentationEffects
<1> HIDE DEF p
<1>7. ReduceExternalDemandQueued(c, e)
        = IF c.phase = "Idle" THEN Stay(c)
          ELSE IF ~AcceptsObservation(c) THEN T(Stay(hot.next))
          ELSE IF e.kind = CursorKind /\ DelaysCursor THEN T(held) ELSE T(start)
  BY DEF ReduceExternalDemandQueued, QueueExternalDemand, hot, queued, p
<1>8. CASE c.phase = "Idle"
  BY <1>1, <1>7, <1>8, IgnoredProceeds DEF Stay, SameWait
<1>9. CASE c.phase # "Idle" /\ ~AcceptsObservation(c)
  <2>1. T(Stay(hot.next)).next = hot.next
    BY DEF Stay
  <2> QED BY <1>1, <1>5, <1>7, <1>9, <2>1, IgnoredProceeds
<1>10. CASE AcceptsObservation(c) /\ e.kind = CursorKind /\ DelaysCursor
  <2>1. held.next.phase = hot.next.phase
    BY <1>5 DEF DelayedCursorIngress, Stay, ScheduleTimerWithDelay, CoreInv, CoreStates
  <2>2. ~InFlight(T(held).next) /\ c.phase # "Idle"
    BY <1>5, <1>10, <2>1 DEF InFlight, AcceptsObservation
  <2> HIDE DEF T
  <2> QED BY <1>7, <1>10, <2>2, IdleAsks DEF Proceeds
<1>11. CASE AcceptsObservation(c) /\ ~(e.kind = CursorKind /\ DelaysCursor)
  <2>1. Asks(start) /\ IsTransition(start)
    BY <1>5, <1>11, StartNextAsks, StartNextTyped
  <2> HIDE DEF start
  <2>2. Asks([next |-> start.next, effects |-> p \o start.effects \o hot.effects])
    BY <1>5, <1>6, <2>1, AsksMore DEF SameProtocol, IsTransition
  <2>3. p \o (start.effects \o hot.effects) = p \o start.effects \o hot.effects
    <3>1. \A x, y, z \in Seq(Effects) : x \o (y \o z) = x \o y \o z
      BY ConcatAssociative
    <3> QED BY <1>5, <1>6, <2>1, <3>1 DEF IsTransition
  <2>4. Asks(T(start)) /\ c.phase # "Idle"
    BY <1>11, <2>2, <2>3 DEF AcceptsObservation
  <2> HIDE DEF T
  <2> QED BY <1>7, <1>11, <2>4 DEF Proceeds, start
<1> QED BY <1>8, <1>9, <1>10, <1>11

\* A base that answers the request leads to its probes or to a plan.
LEMMA ObservationBaseCollectedProceeds ==
    ASSUME NEW c, CoreInv(c), LacksProbe(c), NEW e \in Events, NEW d \in Decisions,
           e.type = "ObservationBaseCollected"
    PROVE  Proceeds(c, e, ReduceObservationBaseCollected(c, e, d))
<1> DEFINE obs   == [kind |-> c.demand.kind, seq |-> c.demand.seq,
                     color |-> IF SamplesCursorColor /\ e.samples
                               THEN "pending" ELSE "done",
                     chunks |-> e.chunks, inexact |-> e.inexact]
           base  == [c EXCEPT !.obs = obs, !.demand = NoDemand]
           look  == [base EXCEPT !.phase = "Observing"]
           ready == [base EXCEPT !.phase = "Ready", !.refresh = NoRefreshes]
           t     == ReduceObservationBaseCollected(c, e, d)
<1>1. CASE c.phase # "Collecting" \/ c.demand.seq # e.id
  <2>1. ~Replies(c, e) /\ ~Aborts(e)
    BY <1>1 DEF Replies, Aborts
  <2> QED BY <1>1, <2>1, IgnoredProceeds
          DEF ReduceObservationBaseCollected, Stay, SameWait
<1>2. CASE c.phase = "Collecting" /\ c.demand.seq = e.id
  <2>1. obs \in Observations
    BY EventFields, FieldTypes DEF Observations, Demands, CoreInv
  <2> HIDE DEF obs
  <2>2. CASE NextPendingProbeEffects(obs) # <<>>
    <3>1. t = [next |-> look, effects |-> NextPendingProbeEffects(obs)]
      BY <1>2, <2>2 DEF ReduceObservationBaseCollected, obs
    <3>2. look.phase = "Observing" /\ look.obs = obs
      BY DEF CoreInv, CoreStates
    <3> HIDE DEF look, t
    <3>3. 1 \in DOMAIN t.effects /\ Requests(t.next, t.effects[1])
      BY <2>1, <2>2, <3>1, <3>2, ProbeIsRequested DEF Requests
    <3> QED BY <2>2, <3>1, <3>2, <3>3 DEF Proceeds, Asks, LacksProbe, t
  <2>3. CASE NextPendingProbeEffects(obs) = <<>>
    <3>1. t = PlanReadyState(ready, d)
      BY <1>2, <2>3 DEF ReduceObservationBaseCollected, obs
    <3>2. CoreInv(ready) /\ ~InFlight(ready)
      BY <2>1, EmptyValues, Phases DEF CoreInv, CoreStates, InFlight
    <3> HIDE DEF ready, t
    <3> QED BY <3>1, <3>2, PlanReadyAsks DEF Proceeds, t
  <2> QED BY <2>2, <2>3
<1> QED BY <1>1, <1>2

\* An outdated observation is asked for again, or gives its turn away.
LEMMA RefreshRequiredAsks ==
    ASSUME NEW c, CoreInv(c), c.phase = "Observing", NEW p \in ProbeKinds,
           NEW d \in Decisions
    PROVE  Asks(ReduceRefreshRequired(c, p, d))
<1> DEFINE primed == [c EXCEPT !.phase = "Primed", !.obs = NoObservation,
                               !.refresh = NoRefreshes]
           demand == ActiveDemand(c)
           t      == ReduceRefreshRequired(c, p, d)
<1>1. CASE c.refresh[p] = MaxProbeRefreshRetries
  <2>1. CoreInv(primed) /\ ~InFlight(primed)
    BY EmptyValues, Phases DEF CoreInv, CoreStates, InFlight
  <2>2. t = ObserveOrPlan(primed, d)
    BY <1>1 DEF ReduceRefreshRequired
  <2> QED BY <2>1, <2>2, ObserveOrPlanAsks
<1>2. CASE c.refresh[p] # MaxProbeRefreshRetries
  <2>1. /\ t.next.phase = "Collecting" /\ t.next.demand = demand
        /\ t.effects = <<RequestObservationBase(demand)>>
    BY <1>2 DEF ReduceRefreshRequired, CoreInv, CoreStates
  <2> HIDE DEF t, demand
  <2>2. 1 \in DOMAIN t.effects /\ Requests(t.next, t.effects[1])
    BY <2>1 DEF Requests, RequestObservationBase
  <2> QED BY <2>1, <2>2 DEF Asks, LacksProbe, t
<1> QED BY <1>1, <1>2

\* The awaited probe is always accepted; another one is no answer.
LEMMA RefusedIsNoReply ==
    ASSUME NEW c, CoreInv(c), LacksProbe(c), NEW e \in Events,
           e.type = "ProbeReported",
           \/ c.phase # "Observing"
           \/ ~AcceptsProbeReport(c.obs, e)
    PROVE  ~Replies(c, e) /\ ~Aborts(e)
  BY FieldTypes
  DEF CoreInv, Observations, Replies, Aborts, AcceptsProbeReport, AwaitedProbe,
      LacksProbe, NextPendingProbeEffects

\* A probe report is followed by the request for the next probe, by a plan, or
\* is no answer to what the core waits for.
LEMMA ProbeReportedProceeds ==
    ASSUME NEW c, CoreInv(c), LacksProbe(c), NEW e \in Events, NEW d \in Decisions,
           e.type = "ProbeReported"
    PROVE  Proceeds(c, e, ReduceProbeReported(c, e, d))
<1> DEFINE obs     == ApplyProbeReport(c.obs, e)
           updated == [c EXCEPT !.obs = obs]
           ready   == [updated EXCEPT !.phase = "Ready", !.refresh = NoRefreshes]
           probes  == NextPendingProbeEffects(obs)
           t       == ReduceProbeReported(c, e, d)
           fits    == /\ c.phase \in {"Observing", "Ready", "Planning", "Applying"}
                      /\ AcceptsProbeReport(c.obs, e)
<1>1. CASE ~fits
  <2>1. t = Stay(c) /\ ~Replies(c, e) /\ ~Aborts(e)
    BY <1>1, RefusedIsNoReply DEF ReduceProbeReported
  <2> QED BY <2>1, IgnoredProceeds DEF Stay, SameWait
<1>2. CASE fits /\ e.outcome = "refresh"
  <2>1. t = ReduceRefreshRequired(c, e.probe, d)
    BY <1>2 DEF ReduceProbeReported
  <2>2. CASE c.phase = "Observing"
    BY <2>1, <2>2, RefreshRequiredAsks, EventFields DEF Proceeds
  <2>3. CASE c.phase # "Observing"
    <3>1. t = Stay(c) /\ ~Replies(c, e) /\ ~Aborts(e)
      BY <2>1, <2>3, RefusedIsNoReply DEF ReduceRefreshRequired
    <3> QED BY <3>1, IgnoredProceeds DEF Stay, SameWait
  <2> QED BY <2>2, <2>3
<1>3. CASE fits /\ e.outcome # "refresh"
  <2>1. obs \in Observations
    BY <1>3, FieldTypes, ApplyProbeReportTyped DEF CoreInv
  <2>2. updated.obs = obs
    BY DEF CoreInv, CoreStates
  <2>3. t = IF probes # <<>> THEN [next |-> updated, effects |-> probes]
            ELSE IF c.phase = "Observing" THEN PlanReadyState(ready, d)
            ELSE Stay(updated)
    BY <1>3, <2>2 DEF ReduceProbeReported
  <2> HIDE DEF obs
  <2>4. /\ CoreInv(ready) /\ ~InFlight(ready)
        /\ updated.phase = c.phase /\ updated.demand = c.demand
        /\ updated.proposal = c.proposal
    BY <2>1, EmptyValues, Phases DEF CoreInv, CoreStates, InFlight
  <2> HIDE DEF updated, ready, t
  <2>5. CASE c.phase = "Observing" /\ probes # <<>>
    <3>1. t.next = updated /\ t.effects = probes
      BY <2>3, <2>5
    <3>2. 1 \in DOMAIN t.effects /\ Requests(t.next, t.effects[1])
      BY <2>1, <2>2, <2>4, <2>5, <3>1, ProbeIsRequested DEF Requests
    <3> QED BY <2>2, <2>5, <3>1, <3>2 DEF Proceeds, Asks, LacksProbe, t
  <2>6. CASE c.phase = "Observing" /\ probes = <<>>
    BY <2>3, <2>4, <2>6, PlanReadyAsks DEF Proceeds, t
  <2>7. CASE c.phase # "Observing"
    <3>1. t.next = updated /\ ~Replies(c, e) /\ ~Aborts(e)
      BY <2>3, <2>7, RefusedIsNoReply DEF Stay
    <3> QED BY <2>4, <2>7, <3>1, IgnoredProceeds DEF SameWait, t
  <2> QED BY <2>5, <2>6, <2>7
<1> QED BY <1>1, <1>2, <1>3

\* Recovery waits for its timer only.
LEMMA RecoveringAsks ==
    ASSUME NEW c, CoreInv(c)
    PROVE  Asks(EnterRecovering(c))
  BY EnterRecoveringTyped, IdleAsks DEF InFlight

\* A plan that answers the request is applied or ends in recovery.
LEMMA RenderPlanProceeds ==
    ASSUME NEW c, CoreInv(c), LacksProbe(c), NEW e \in Events
    PROVE  /\ e.type = "RenderPlanComputed" =>
                 Proceeds(c, e, ReduceRenderPlanComputed(c, e))
           /\ e.type = "RenderPlanFailed" =>
                 Proceeds(c, e, ReduceRenderPlanFailed(c, e))
<1>1. ASSUME e.type = "RenderPlanComputed"
      PROVE  Proceeds(c, e, ReduceRenderPlanComputed(c, e))
  <2> DEFINE t == ReduceRenderPlanComputed(c, e)
  <2>1. CASE c.phase # "Planning" \/ c.proposal.id # e.proposal.id
    <3>1. t = Stay(c) /\ ~Replies(c, e) /\ ~Aborts(e)
      BY <1>1, <2>1 DEF ReduceRenderPlanComputed, Replies, Aborts
    <3> QED BY <3>1, IgnoredProceeds DEF Stay, SameWait
  <2>2. CASE c.phase = "Planning" /\ c.proposal.id = e.proposal.id
    <3>1. /\ t.next.phase = "Applying" /\ t.next.proposal = e.proposal
          /\ t.effects = <<[type |-> "ApplyProposal", proposal |-> e.proposal]>>
      BY <2>2 DEF ReduceRenderPlanComputed, CoreInv, CoreStates
    <3> HIDE DEF t
    <3>2. 1 \in DOMAIN t.effects /\ Requests(t.next, t.effects[1])
      BY <3>1 DEF Requests
    <3> QED BY <3>1, <3>2 DEF Proceeds, Asks, LacksProbe, t
  <2> QED BY <2>1, <2>2
<1>2. ASSUME e.type = "RenderPlanFailed"
      PROVE  Proceeds(c, e, ReduceRenderPlanFailed(c, e))
  <2>1. CASE c.phase # "Planning" \/ c.proposal.id # e.id
    <3>1. /\ ReduceRenderPlanFailed(c, e) = Stay(c)
          /\ ~Replies(c, e) /\ ~Aborts(e)
      BY <1>2, <2>1 DEF ReduceRenderPlanFailed, Replies, Aborts
    <3> QED BY <3>1, IgnoredProceeds DEF Stay, SameWait
  <2>2. CASE c.phase = "Planning" /\ c.proposal.id = e.id
    BY <2>2, RecoveringAsks DEF ReduceRenderPlanFailed, Proceeds
  <2> QED BY <2>1, <2>2
<1> QED BY <1>1, <1>2

\* A completed apply asks for the next observation, if it starts one.
LEMMA ApplyCompletedAsks ==
    ASSUME NEW c, CoreInv(c), c.phase = "Applying", NEW e
    PROVE  Asks(ReduceApplyCompleted(c, e))
<1> DEFINE p       == c.proposal
           ready   == [c EXCEPT !.phase = "Ready", !.proposal = NoProposal,
                                !.ledger = Acknowledge(p.target)]
           cleanup == AdvanceCleanupForProposal(ready, p.cleanup)
           c1      == cleanup.next
           observe == IF /\ QueuedKinds(c1) = {}
                         /\ ~p.animate
                         /\ ExactBoundaryRefreshRequired(c1)
                      THEN StartBoundaryRefreshObservation(c1)
                      ELSE StartNextObservation(c1)
           animate == IF p.animate
                      THEN ScheduleTimerWithDelay(observe.next, "Animation")
                      ELSE Stay(observe.next)
           before  == cleanup.effects \o RedrawEffects(e)
<1>1. p \in Proposals
  BY DEF CoreInv
<1>2. CoreInv(ready) /\ ready.phase = "Ready"
  BY <1>1, ProposalFields, EmptyValues, Phases DEF CoreInv, CoreStates
<1>3. ReduceApplyCompleted(c, e)
        = [next    |-> animate.next,
           effects |-> before \o observe.effects \o animate.effects]
  BY DEF ReduceApplyCompleted
<1> HIDE DEF p, ready
<1>4. TimersOnly(ready, cleanup)
  BY <1>1, <1>2, ProposalFields, AdvanceCleanupTyped DEF CoreInv
<1>5. CoreInv(c1) /\ AcceptsObservation(c1)
  BY <1>2, <1>4, TimersOnlyIsTransition
  DEF IsTransition, TimersOnly, SameProtocol, AcceptsObservation
<1>6. before \in Seq(Effects)
  BY <1>4, RedrawTyped, EffectSequences DEF TimersOnly
<1> HIDE DEF cleanup, c1, before
<1>7. IsTransition(observe) /\ Asks(observe)
  BY <1>5, StartNextTyped, StartBoundaryRefreshTyped, StartNextAsks,
     StartBoundaryRefreshAsks DEF CoreInv
<1> HIDE DEF observe
<1>8. TimersOnly(observe.next, animate)
  BY <1>7, StayTyped, ScheduleTimerTyped DEF IsTransition, CoreInv, TimerIds
<1> HIDE DEF animate
<1> QED BY <1>3, <1>6, <1>7, <1>8, AsksMore DEF IsTransition, TimersOnly

\* A degraded or failed apply ends in recovery.
LEMMA ApplyNonSuccessAsks ==
    ASSUME NEW c, CoreInv(c), c.phase = "Applying", NEW e
    PROVE  Asks(ReduceApplyNonSuccess(c, e))
<1> DEFINE diverged == [c EXCEPT !.ledger = Diverged]
           cleanup  == AdvanceCleanupForProposal(diverged, c.proposal.cleanup)
<1>1. CoreInv(diverged)
  BY EmptyValues DEF CoreInv, CoreStates
<1>2. ReduceApplyNonSuccess(c, e).next = EnterRecovering(cleanup.next).next
  BY DEF ReduceApplyNonSuccess
<1> HIDE DEF diverged
<1>3. TimersOnly(diverged, cleanup)
  BY <1>1, ProposalFields, AdvanceCleanupTyped DEF CoreInv
<1>4. CoreInv(cleanup.next)
  BY <1>1, <1>3, TimersOnlyIsTransition DEF IsTransition
<1> HIDE DEF cleanup
<1> QED BY <1>2, <1>4, EnterRecoveringTyped, IdleAsks DEF InFlight

\* The handler of every apply report.
LEMMA ApplyReportedProceeds ==
    ASSUME NEW c, CoreInv(c), LacksProbe(c), NEW e, e.type = "ApplyReported"
    PROVE  Proceeds(c, e, ReduceApplyReported(c, e))
<1>1. CASE c.phase # "Applying" \/ c.proposal.id # e.id
  <2>1. ReduceApplyReported(c, e) = Stay(c) /\ ~Replies(c, e) /\ ~Aborts(e)
    BY <1>1 DEF ReduceApplyReported, Replies, Aborts
  <2> QED BY <2>1, IgnoredProceeds DEF Stay, SameWait
<1>2. CASE c.phase = "Applying" /\ c.proposal.id = e.id
  BY <1>2, ApplyCompletedAsks, ApplyNonSuccessAsks DEF ReduceApplyReported, Proceeds
<1> QED BY <1>1, <1>2

\* A failure ends in recovery, or is that of a proposal nobody waits for.
LEMMA EffectFailedProceeds ==
    ASSUME NEW c, CoreInv(c), LacksProbe(c), NEW e, e.type = "EffectFailed"
    PROVE  Proceeds(c, e, ReduceEffectFailed(c, e))
<1> DEFINE requeued == RequeueActiveDemand(c)
           cleared  == [requeued EXCEPT !.obs = NoObservation]
<1>1. CoreInv(requeued)
  BY RequeueTyped
<1>2. CASE c.phase = "Idle"
  BY <1>2, IdleAsks DEF ReduceEffectFailed, Stay, InFlight, Proceeds
<1>3. CASE c.phase # "Idle" /\ e.id = 0
  <2>1. ReduceEffectFailed(c, e) \in {EnterRecovering(requeued), EnterRecovering(cleared)}
    BY <1>3 DEF ReduceEffectFailed
  <2> HIDE DEF requeued
  <2>2. CoreInv(cleared)
    BY <1>1, EmptyValues DEF CoreInv, CoreStates
  <2> HIDE DEF cleared
  <2> QED BY <1>1, <2>1, <2>2, RecoveringAsks DEF Proceeds
<1>4. CASE c.phase # "Idle" /\ e.id # 0 /\ (c.phase # "Applying" \/ c.proposal.id # e.id)
  <2>1. ReduceEffectFailed(c, e) = Stay(c) /\ ~Replies(c, e) /\ ~Aborts(e)
    BY <1>4 DEF ReduceEffectFailed, Replies, Aborts
  <2> QED BY <2>1, IgnoredProceeds DEF Stay, SameWait
<1>5. CASE e.id # 0 /\ c.phase = "Applying" /\ c.proposal.id = e.id
  BY <1>5, ApplyNonSuccessAsks DEF ReduceEffectFailed, Proceeds
<1> QED BY <1>2, <1>3, <1>4, <1>5

\* What touches timers, cleanup and ledger only leaves the wait alone.
LEMMA TimersProceed ==
    ASSUME NEW c, LacksProbe(c), NEW n, SameWait(c, n), NEW t, TimersOnly(n, t),
           NEW e, ~Replies(c, e), ~Aborts(e)
    PROVE  Proceeds(c, e, t) /\ Proceeds(c, e, Stay(n))
<1>1. SameWait(n, t.next)
  BY SameProtocolWaits DEF TimersOnly
<1>2. SameWait(c, t.next) /\ SameWait(c, Stay(n).next)
  BY <1>1 DEF SameWait, Stay
<1> QED BY <1>2, IgnoredProceeds

\* The reports of cleanup and of retained resources.
LEMMA CleanupProceeds ==
    ASSUME NEW c, CoreInv(c), LacksProbe(c), NEW e \in Events
    PROVE  /\ e.type = "RenderCleanupApplied" =>
                 Proceeds(c, e, ReduceRenderCleanupApplied(c, e))
           /\ e.type = "RetainedResourcesObserved" =>
                 Proceeds(c, e, ReduceRetainedResourcesObserved(c, e))
<1>1. ASSUME NEW k \in Cleanups, NEW l \in Ledgers, NEW due \in BOOLEAN,
             ~Replies(c, e), ~Aborts(e)
      PROVE  LET n == [c EXCEPT !.cleanup = k, !.ledger = l]
             IN Proceeds(c, e, Stay(n)) /\ Proceeds(c, e, EmitCleanupOrArm(n, due))
  <2> DEFINE n == [c EXCEPT !.cleanup = k, !.ledger = l]
  <2>1. CoreInv(n) /\ SameWait(c, n)
    BY DEF CoreInv, CoreStates, SameWait
  <2> HIDE DEF n
  <2>2. TimersOnly(n, EmitCleanupOrArm(n, due))
    BY <2>1, EmitCleanupOrArmTyped DEF CoreInv
  <2> QED BY <1>1, <2>1, <2>2, TimersProceed DEF n
<1>2. ASSUME ~Replies(c, e), ~Aborts(e)
      PROVE  Proceeds(c, e, Stay(c))
  BY <1>2, IgnoredProceeds DEF Stay, SameWait
<1>3. ASSUME e.type = "RenderCleanupApplied"
      PROVE  Proceeds(c, e, ReduceRenderCleanupApplied(c, e))
  <2> DEFINE k       == CleanupStateAfterApplied(c.cleanup, e.action)
             l       == LedgerAfterCleanup(c.ledger)
             applied == [c EXCEPT !.cleanup = k, !.ledger = l]
             dueNow  == \/ e.action = "SoftClearedNone"
                        \/ e.action = "NoProgress" /\ e.due
  <2>1. k \in Cleanups /\ l \in Ledgers /\ dueNow \in BOOLEAN
    BY <1>3, FieldTypes, EventFields, CleanupAppliedTyped, LedgerAfterCleanupTyped
    DEF CoreInv
  <2>2. ~Replies(c, e) /\ ~Aborts(e)
    BY <1>3, AnswersAreReports
  <2> HIDE DEF k, l
  <2>3. ReduceRenderCleanupApplied(c, e)
          \in {Stay(c), Stay(applied), EmitCleanupOrArm(applied, dueNow)}
    BY DEF ReduceRenderCleanupApplied, k, l
  <2> HIDE DEF dueNow
  <2> QED BY <1>1, <1>2, <2>1, <2>2, <2>3
<1>4. ASSUME e.type = "RetainedResourcesObserved"
      PROVE  Proceeds(c, e, ReduceRetainedResourcesObserved(c, e))
  <2> DEFINE k    == IF c.cleanup.thermal = "Hot" THEN c.cleanup
                     ELSE [c.cleanup EXCEPT !.thermal = "Cooling", !.pushed = FALSE]
             l    == LedgerAfterCleanup(c.ledger)
             next == [c EXCEPT !.cleanup = k, !.ledger = l]
             due  == c.cleanup.thermal = "Hot" /\ e.due
  <2>1. k \in Cleanups /\ l \in Ledgers /\ due \in BOOLEAN
    BY <1>4, FieldTypes, EventFields, CleanupValues, LedgerAfterCleanupTyped
    DEF CoreInv
  <2>2. ~Replies(c, e) /\ ~Aborts(e)
    BY <1>4, AnswersAreReports
  <2> HIDE DEF k, l
  <2>3. ReduceRetainedResourcesObserved(c, e)
          \in {Stay(c), Stay(next), EmitCleanupOrArm(next, due)}
    BY DEF ReduceRetainedResourcesObserved, k, l
  <2> HIDE DEF due
  <2> QED BY <1>1, <1>2, <2>1, <2>2, <2>3
<1> QED BY <1>3, <1>4

\* The ingress delay ends in an observation, or in the wait there was.
LEMMA IngressDelayProceeds ==
    ASSUME NEW c, LacksProbe(c), NEW n, CoreInv(n), SameWait(c, n), NEW e,
           ~Replies(c, e), ~Aborts(e)
    PROVE  /\ Proceeds(c, e, IngressDelayOver(n))
           /\ \A due \in BOOLEAN : Proceeds(c, e, IngressTimerSignal(n, due))
<1> DEFINE over  == [n EXCEPT !.delay = "none"]
           armed == [n EXCEPT !.delay = "armed"]
<1>1. /\ CoreInv(over) /\ CoreInv(armed) /\ SameWait(c, over)
      /\ AcceptsObservation(n) => AcceptsObservation(over)
      /\ armed.phase = n.phase
  BY DEF CoreInv, CoreStates, Delays, AcceptsObservation, SameWait
<1>2. IngressDelayOver(n) = IF AcceptsObservation(n) THEN StartNextObservation(over)
                            ELSE Stay(over)
  BY DEF IngressDelayOver
<1>3. \A due \in BOOLEAN :
         IngressTimerSignal(n, due)
           = IF n.delay = "none" THEN Stay(n)
             ELSE IF AcceptsObservation(n) /\ ~due
             THEN ScheduleTimerWithDelay(armed, "Ingress")
             ELSE IngressDelayOver(n)
  BY DEF IngressTimerSignal
<1> HIDE DEF over, armed
<1>4. Proceeds(c, e, IngressDelayOver(n))
  BY <1>1, <1>2, StartNextAsks, IgnoredProceeds DEF Stay, Proceeds
<1>5. Proceeds(c, e, Stay(n))
  BY IgnoredProceeds DEF Stay
<1>6. ASSUME AcceptsObservation(n)
      PROVE  Proceeds(c, e, ScheduleTimerWithDelay(armed, "Ingress"))
  <2>1. TimersOnly(armed, ScheduleTimerWithDelay(armed, "Ingress"))
    BY <1>1, ScheduleTimerTyped DEF CoreInv, TimerIds
  <2>2. ~InFlight(ScheduleTimerWithDelay(armed, "Ingress").next)
    BY <1>1, <1>6, <2>1 DEF TimersOnly, SameProtocol, AcceptsObservation, InFlight
  <2> QED BY <2>2, IdleAsks DEF Proceeds
<1> QED BY <1>3, <1>4, <1>5, <1>6

\* A settled recovery waits for nothing.
LEMMA SettledIsIdle ==
    ASSUME NEW c, CoreInv(c)
    PROVE  CoreInv(SettleRecovery(c)) /\ ~InFlight(SettleRecovery(c))
  BY SettleRecoveryTyped DEF SettleRecovery, CoreInv, CoreStates, InFlight

\* A timer that fires starts something, or leaves the wait alone.
LEMMA TimerFiredProceeds ==
    ASSUME NEW c, CoreInv(c), LacksProbe(c), NEW e \in Events, NEW d \in Decisions,
           e.type = "TimerFired"
    PROVE  Proceeds(c, e, ReduceTimerFired(c, e, d))
<1> DEFINE fired == Disarm(c, e.timer)
<1>1. /\ e.timer \in TimerIds /\ e.due \in BOOLEAN
      /\ ~Replies(c, e) /\ ~Aborts(e)
  BY EventFields, AnswersAreReports
<1>2. CoreInv(fired) /\ SameWait(c, fired) /\ fired.phase = c.phase
  BY <1>1, DisarmTyped, SameProtocolWaits DEF CoreInv, SameProtocol
<1> HIDE DEF fired
<1>3. Proceeds(c, e, Stay(c)) /\ Proceeds(c, e, Stay(fired))
  BY <1>1, <1>2, IgnoredProceeds DEF Stay, SameWait
<1>4. Proceeds(c, e, AnimationTick(fired, d))
  <2>1. CASE ~AcceptsObservation(fired)
    BY <1>3, <2>1 DEF AnimationTick
  <2>2. CASE AcceptsObservation(fired)
    <3>1. ~InFlight(fired)
      BY <2>2 DEF AcceptsObservation, InFlight
    <3>2. AnimationTick(fired, d) \in {StartBoundaryRefreshObservation(fired),
                                       ObserveOrPlan(fired, d)}
      BY <2>2 DEF AnimationTick
    <3> QED BY <1>2, <2>2, <3>1, <3>2, StartBoundaryRefreshAsks, ObserveOrPlanAsks
            DEF CoreInv, Proceeds
  <2> QED BY <2>1, <2>2
<1>5. Proceeds(c, e, IngressTimerSignal(fired, e.due))
  BY <1>1, <1>2, IngressDelayProceeds
<1>6. Proceeds(c, e, ObserveOrPlan(SettleRecovery(fired), d))
  BY <1>2, SettledIsIdle, ObserveOrPlanAsks DEF Proceeds
<1>7. Proceeds(c, e, EmitCleanupOrArm(fired, e.due))
  BY <1>1, <1>2, EmitCleanupOrArmTyped, TimersProceed DEF CoreInv
<1> QED BY <1>1, <1>3, <1>4, <1>5, <1>6, <1>7 DEF ReduceTimerFired, TimerIds, fired

\* ... and so does one that is lost.
LEMMA TimerLostProceeds ==
    ASSUME NEW c, CoreInv(c), LacksProbe(c), NEW e \in Events,
           e.type = "TimerLost"
    PROVE  Proceeds(c, e, ReduceTimerLost(c, e))
<1> DEFINE lost   == Disarm(c, e.timer)
           still  == [lost EXCEPT !.animating = FALSE]
           owed   == lost.cleanup.thermal # "Cold"
           quiet  == [lost EXCEPT !.cleanup.quiesced = owed]
           f      == [type |-> "ApplyRenderCleanup", execution |-> "SoftClear"]
           t      == ReduceTimerLost(c, e)
<1>1. /\ e.timer \in TimerIds /\ e.due \in BOOLEAN
      /\ ~Replies(c, e) /\ ~Aborts(e)
  BY EventFields, AnswersAreReports
<1>2. CoreInv(lost) /\ SameWait(c, lost)
  BY <1>1, DisarmTyped, SameProtocolWaits DEF CoreInv, SameProtocol
<1>3. t \in {Stay(c), Stay(lost), [next |-> still, effects |-> <<f>>],
             IngressDelayOver(lost), Stay(SettleRecovery(lost)),
             [next |-> quiet, effects |-> CleanupEffects(lost, e.due)]}
  BY <1>1 DEF ReduceTimerLost, TimerIds
<1> HIDE DEF lost, t
<1>4. SameWait(c, still) /\ SameWait(c, quiet)
  BY <1>2 DEF SameWait, CoreInv, CoreStates
<1> HIDE DEF still, quiet
<1>5. t.next \in {c, lost, still, quiet} =>
         Proceeds(c, e, t)
  BY <1>1, <1>2, <1>4, IgnoredProceeds DEF SameWait
<1>6. Proceeds(c, e, IngressDelayOver(lost))
  BY <1>1, <1>2, IngressDelayProceeds
<1>7. Proceeds(c, e, Stay(SettleRecovery(lost)))
  BY <1>2, SettledIsIdle, IdleAsks DEF Stay, Proceeds
<1> QED BY <1>3, <1>5, <1>6, <1>7 DEF Stay, t

\* Whatever is handled, the reducer asks for what it then waits for, or waits
\* for what it waited for before.
THEOREM ReduceProceeds ==
    ASSUME NEW c, CoreInv(c), LacksProbe(c), NEW e \in Events, NEW d \in Decisions
    PROVE  Proceeds(c, e, Reduce(c, e, d))
<1>1. e.type \in {"Initialize", "ExternalDemandQueued",
                  "ObservationBaseCollected", "ProbeReported",
                  "RenderPlanComputed", "RenderPlanFailed", "ApplyReported",
                  "RenderCleanupApplied", "RetainedResourcesObserved",
                  "EffectFailed", "TimerFired", "TimerLost"}
  BY DEF Events, EditorEvents, ShellEvents
<1> QED BY <1>1, InitializeProceeds, ExternalDemandQueuedProceeds,
           ObservationBaseCollectedProceeds, ProbeReportedProceeds,
           RenderPlanProceeds, ApplyReportedProceeds, CleanupProceeds,
           EffectFailedProceeds, TimerFiredProceeds, TimerLostProceeds
        DEF Reduce

-----------------------------------------------------------------------------
(* What a queue holds. *)

QueuedEffects(w) == UNION {Range(w[i].effects) : i \in {j \in DOMAIN w : w[j].item = "batch"}}

QueuedEvents(w) == {w[i].event : i \in {j \in DOMAIN w : w[j].item = "event"}}

\* What is pending is in the queue or in the running unit.
LEMMA PendingIs ==
    /\ PendingEffects = Range(batch) \cup QueuedEffects(work)
    /\ PendingEvents = Range(followUps) \cup QueuedEvents(work)
  BY DEF PendingEffects, PendingEvents, QueuedEffects, QueuedEvents

\* The first element of a sequence and the others are its range.
LEMMA RangeOfParts ==
    ASSUME NEW S, NEW s \in Seq(S)
    PROVE  /\ s # <<>> => Range(s) = {Head(s)} \cup Range(Tail(s))
           /\ \A t \in Seq(S) : Range(s \o t) = Range(s) \cup Range(t)
<1>1. ASSUME s # <<>>
      PROVE  Range(s) = {Head(s)} \cup Range(Tail(s))
  <2>1. /\ Len(s) \in Nat \ {0} /\ DOMAIN s = 1 .. Len(s)
        /\ Tail(s) \in Seq(S) /\ DOMAIN Tail(s) = 1 .. Len(s) - 1
        /\ Head(s) = s[1]
        /\ \A i \in 1 .. Len(s) - 1 : Tail(s)[i] = s[i + 1]
    BY <1>1
  <2>2. ASSUME NEW i \in 1 .. Len(s)
        PROVE  s[i] \in {Head(s)} \cup Range(Tail(s))
    <3>1. CASE i = 1
      BY <2>1, <3>1
    <3>2. CASE i # 1
      <4>1. i - 1 \in DOMAIN Tail(s) /\ Tail(s)[i - 1] = s[i]
        BY <2>1, <3>2
      <4> QED BY <4>1 DEF Range
    <3> QED BY <3>1, <3>2
  <2>3. ASSUME NEW i \in DOMAIN Tail(s)
        PROVE  Tail(s)[i] \in Range(s)
    <3>1. i + 1 \in DOMAIN s /\ s[i + 1] = Tail(s)[i]
      BY <2>1
    <3> QED BY <3>1 DEF Range
  <2>4. Head(s) \in Range(s)
    BY <2>1 DEF Range
  <2> QED BY <2>1, <2>2, <2>3, <2>4 DEF Range
<1>2. ASSUME NEW t \in Seq(S)
      PROVE  Range(s \o t) = Range(s) \cup Range(t)
  BY RangeConcatenation
<1> QED BY <1>1, <1>2

\* Nothing is lost where queues are joined,
LEMMA JoinedQueues ==
    ASSUME NEW v \in Seq(WorkItems), NEW w \in Seq(WorkItems)
    PROVE  /\ QueuedEffects(v \o w) = QueuedEffects(v) \cup QueuedEffects(w)
           /\ QueuedEvents(v \o w) = QueuedEvents(v) \cup QueuedEvents(w)
<1>1. \A s \in Seq(WorkItems) :
         /\ QueuedEffects(s)
              = UNION {Range(x.effects) : x \in {y \in Range(s) : y.item = "batch"}}
         /\ QueuedEvents(s) = {x.event : x \in {y \in Range(s) : y.item = "event"}}
  BY DEF QueuedEffects, QueuedEvents, Range
<1>2. v \o w \in Seq(WorkItems) /\ Range(v \o w) = Range(v) \cup Range(w)
  BY RangeOfParts
<1> QED BY <1>1, <1>2

\* ... and where the oldest item is taken only what it holds.
LEMMA OldestTaken ==
    ASSUME NEW w \in Seq(WorkItems), w # <<>>
    PROVE  /\ Head(w).item = "batch" =>
                 /\ QueuedEffects(w) = Range(Head(w).effects) \cup QueuedEffects(Tail(w))
                 /\ QueuedEvents(w) = QueuedEvents(Tail(w))
           /\ Head(w).item = "event" =>
                 /\ QueuedEffects(w) = QueuedEffects(Tail(w))
                 /\ QueuedEvents(w) = {Head(w).event} \cup QueuedEvents(Tail(w))
<1>1. \A s \in Seq(WorkItems) :
         /\ QueuedEffects(s)
              = UNION {Range(x.effects) : x \in {y \in Range(s) : y.item = "batch"}}
         /\ QueuedEvents(s) = {x.event : x \in {y \in Range(s) : y.item = "event"}}
  BY DEF QueuedEffects, QueuedEvents, Range
<1>2. Tail(w) \in Seq(WorkItems) /\ Range(w) = {Head(w)} \cup Range(Tail(w))
  BY RangeOfParts, HeadTailProperties
<1> QED BY <1>1, <1>2

\* A queue of one event holds that event,
LEMMA StagedAlone ==
    ASSUME NEW e \in ShellEvents
    PROVE  /\ <<Staged(e)>> \in Seq(WorkItems)
           /\ QueuedEvents(<<Staged(e)>>) = {e}
           /\ QueuedEffects(<<Staged(e)>>) = {}
<1>1. /\ DOMAIN <<Staged(e)>> = {1} /\ <<Staged(e)>>[1] = Staged(e)
      /\ Staged(e).item = "event" /\ Staged(e).event = e
  BY DEF Staged
<1>2. <<Staged(e)>> \in Seq(WorkItems)
  BY StagedTyped
<1> QED BY <1>1, <1>2 DEF QueuedEvents, QueuedEffects

\* ... and staging it at the back adds nothing else.
LEMMA StagedBehind ==
    ASSUME NEW w \in Seq(WorkItems), NEW e \in ShellEvents
    PROVE  /\ QueuedEffects(Append(w, Staged(e))) = QueuedEffects(w)
           /\ QueuedEvents(Append(w, Staged(e))) = QueuedEvents(w) \cup {e}
<1> DEFINE one == <<Staged(e)>>
<1>1. Append(w, Staged(e)) = w \o one
  BY StagedTyped, AppendIsConcat
<1>2. one \in Seq(WorkItems) /\ QueuedEvents(one) = {e} /\ QueuedEffects(one) = {}
  BY StagedAlone
<1> HIDE DEF one
<1>3. /\ QueuedEffects(w \o one) = QueuedEffects(w) \cup QueuedEffects(one)
      /\ QueuedEvents(w \o one) = QueuedEvents(w) \cup QueuedEvents(one)
  BY <1>2, JoinedQueues
<1>4. QueuedEffects(w) \cup {} = QueuedEffects(w)
  OBVIOUS
<1> QED BY <1>1, <1>2, <1>3, <1>4, Zenon

\* Only shell-only work is dropped where a batch is split.
LEMMA SplitKeepsEffects ==
    ASSUME NEW s \in Seq(Effects), NEW i \in DOMAIN s,
           s[i].type \notin ShellOnlyEffects
    PROVE  s[i] \in QueuedEffects(SplitEffectBatch(s))
<1> DEFINE shellOnly  == {j \in DOMAIN s : s[j].type \in ShellOnlyEffects}
           cut        == CHOOSE j \in shellOnly : TRUE
           Part(m, n) == IF m > n THEN <<>> ELSE <<Batch(SubSeq(s, m, n))>>
<1>1. Len(s) \in Nat /\ DOMAIN s = 1 .. Len(s) /\ i \in 1 .. Len(s)
  OBVIOUS
<1>2. ASSUME NEW m \in 1 .. Len(s) + 1, NEW n \in 0 .. Len(s)
      PROVE  Part(m, n) \in Seq(WorkItems)
  <2>1. SubSeq(s, m, n) \in Seq(Effects)
    BY SubSeqProperties, ElementOfSeq, LenProperties
  <2>2. Batch(SubSeq(s, m, n)) \in WorkItems
    BY <2>1 DEF Batch, WorkItems
  <2> QED BY <2>2
<1>3. ASSUME NEW m \in 1 .. Len(s), NEW n \in 1 .. Len(s), m <= i, i <= n
      PROVE  s[i] \in QueuedEffects(Part(m, n))
  <2> DEFINE sub == SubSeq(s, m, n)
  <2>1. /\ i - m + 1 \in DOMAIN sub /\ sub[i - m + 1] = s[i]
    BY <1>1, <1>3
  <2>2. s[i] \in Range(sub)
    BY <2>1 DEF Range
  <2> HIDE DEF sub
  <2>3. /\ DOMAIN <<Batch(sub)>> = {1} /\ <<Batch(sub)>>[1] = Batch(sub)
        /\ Batch(sub).item = "batch" /\ Batch(sub).effects = sub
    BY DEF Batch
  <2>4. Part(m, n) = <<Batch(sub)>>
    BY <1>3 DEF sub
  <2> HIDE DEF Part
  <2>5. Range(sub) \subseteq QueuedEffects(<<Batch(sub)>>)
    BY <2>3 DEF QueuedEffects
  <2> QED BY <2>2, <2>4, <2>5
<1>4. CASE shellOnly = {}
  <2>1. SplitEffectBatch(s) = Part(1, Len(s))
    BY <1>4 DEF SplitEffectBatch
  <2> HIDE DEF Part
  <2> QED BY <1>1, <1>3, <2>1
<1>5. CASE shellOnly # {}
  <2>1. cut \in 1 .. Len(s) /\ i # cut
    BY <1>1, <1>5
  <2>2. SplitEffectBatch(s) = Part(1, cut - 1) \o Part(cut + 1, Len(s))
    BY <1>5 DEF SplitEffectBatch
  <2> HIDE DEF cut, Part
  <2>3. Part(1, cut - 1) \in Seq(WorkItems) /\ Part(cut + 1, Len(s)) \in Seq(WorkItems)
    <3>1. /\ 1 \in 1 .. Len(s) + 1 /\ cut - 1 \in 0 .. Len(s)
          /\ cut + 1 \in 1 .. Len(s) + 1 /\ Len(s) \in 0 .. Len(s)
      BY <1>1, <2>1
    <3> QED BY <1>2, <3>1
  <2>4. CASE i < cut
    <3>1. 1 \in 1 .. Len(s) /\ cut - 1 \in 1 .. Len(s) /\ i <= cut - 1
      BY <1>1, <2>1, <2>4
    <3> QED BY <1>1, <1>3, <2>2, <2>3, <3>1, JoinedQueues
  <2>5. CASE i > cut
    <3>1. cut + 1 \in 1 .. Len(s) /\ Len(s) \in 1 .. Len(s) /\ cut + 1 <= i
      BY <1>1, <2>1, <2>5
    <3> QED BY <1>1, <1>3, <2>2, <2>3, <3>1, JoinedQueues
  <2> QED BY <1>1, <2>1, <2>4, <2>5
<1> QED BY <1>4, <1>5

-----------------------------------------------------------------------------
(* The steps. *)

\* What is owed is still owed among more.
LEMMA OwedAmongMore ==
    ASSUME NEW c, NEW F, NEW E, NEW F2, NEW E2, IsOwed(c, F, E),
           F \subseteq F2, E \subseteq E2
    PROVE  IsOwed(c, F2, E2)
  BY DEF IsOwed

\* Reducing an event: its effects are staged and nothing else is dropped.
LEMMA ReducedIsOwed ==
    ASSUME WorkInv, NEW e \in Events, NEW d \in PlanChoices,
           Reduced(e, Reduce(core, e, d)), NEW F, NEW E,
           \A i \in DOMAIN Reduce(core, e, d).effects :
              Reduce(core, e, d).effects[i].type \notin ShellOnlyEffects =>
                 Reduce(core, e, d).effects[i] \in F,
           PendingEffects \subseteq F, PendingEvents \subseteq {e} \cup E
    PROVE  LacksProbe(core') /\ IsOwed(core', F, E)
<1> DEFINE t == Reduce(core, e, d)
<1>1. Proceeds(core, e, t) /\ core' = t.next
  BY ReduceProceeds, BoundsAssumption DEF WorkInv, TypeInv, PlanChoices, Reduced
<1> HIDE DEF t
<1>2. CASE Asks(t)
  <2>1. ASSUME NEW i \in DOMAIN t.effects, Requests(t.next, t.effects[i])
        PROVE  t.effects[i] \in F
    <3>1. t.effects[i].type \notin ShellOnlyEffects
      BY <2>1 DEF Requests, ShellOnlyEffects
    <3> QED BY <3>1 DEF t
  <2> QED BY <1>1, <1>2, <2>1 DEF Asks, IsOwed
<1>3. CASE ~Asks(t)
  <2>1. /\ LacksProbe(t.next) /\ SameWait(core, t.next)
        /\ ~Replies(core, e) /\ ~Aborts(e)
    BY <1>1, <1>3 DEF Proceeds
  <2>2. e # EffectFailed(0)
    BY <2>1 DEF Aborts, EffectFailed
  <2>3. IsOwed(core, F, E)
    BY <2>1, <2>2 DEF WorkInv, IsOwed
  <2> QED BY <1>1, <2>1, <2>3, SameWaitSame DEF IsOwed
<1> QED BY <1>2, <1>3

\* What the handling of an event stages is pending.
LEMMA StagedIsPending ==
    ASSUME work \in Seq(WorkItems), NEW s \in Seq(Effects)
    PROVE  /\ StageBatch(s) \in Seq(WorkItems)
           /\ QueuedEffects(work) \subseteq QueuedEffects(StageBatch(s))
           /\ QueuedEvents(work) \subseteq QueuedEvents(StageBatch(s))
           /\ \A i \in DOMAIN s : s[i].type \notin ShellOnlyEffects =>
                 s[i] \in QueuedEffects(StageBatch(s))
  BY SplitTyped, StageBatchTyped, JoinedQueues, SplitKeepsEffects DEF StageBatch

\* A dispatched event.
LEMMA DispatchIsOwed ==
    ASSUME WorkInv, NEW e \in Events, Dispatch(e), UNCHANGED <<batch, followUps>>
    PROVE  LacksProbe(core') /\ IsOwed(core', PendingEffects', PendingEvents')
<1>1. PICK d \in PlanChoices : /\ Reduced(e, Reduce(core, e, d))
                               /\ work' = StageBatch(Reduce(core, e, d).effects)
  BY DEF Dispatch
<1>2. Reduce(core, e, d).effects \in Seq(Effects) /\ work \in Seq(WorkItems)
  BY <1>1, ReducedTyped DEF WorkInv, TypeInv, TypeOK
<1>3. /\ QueuedEffects(work) \subseteq QueuedEffects(work')
      /\ QueuedEvents(work) \subseteq QueuedEvents(work')
      /\ \A i \in DOMAIN Reduce(core, e, d).effects :
            Reduce(core, e, d).effects[i].type \notin ShellOnlyEffects =>
               Reduce(core, e, d).effects[i] \in QueuedEffects(work')
  BY <1>1, <1>2, StagedIsPending
<1>4. /\ PendingEffects' = Range(batch') \cup QueuedEffects(work')
      /\ PendingEvents' = Range(followUps') \cup QueuedEvents(work')
  BY DEF PendingEffects, PendingEvents, QueuedEffects, QueuedEvents
<1>5. /\ PendingEffects \subseteq PendingEffects'
      /\ PendingEvents \subseteq {e} \cup PendingEvents'
      /\ QueuedEffects(work') \subseteq PendingEffects'
  BY <1>3, <1>4, PendingIs
<1> QED BY <1>1, <1>3, <1>5, ReducedIsOwed

\* A staged event is reduced where it stands.
LEMMA DispatchStagedIsOwed ==
    ASSUME WorkInv, DispatchStaged
    PROVE  LacksProbe(core') /\ IsOwed(core', PendingEffects', PendingEvents')
<1> DEFINE e == Head(work).event
<1>1. PICK d \in PlanChoices :
         /\ Reduced(e, Reduce(core, e, d))
         /\ work' = Tail(StageBatch(Reduce(core, e, d).effects))
  BY DEF DispatchStaged
<1> DEFINE t == Reduce(core, e, d)
           staged == StageBatch(t.effects)
<1>2. /\ work # <<>> /\ Head(work).item = "event" /\ e \in Events
      /\ work \in Seq(WorkItems) /\ batch' = batch /\ followUps' = followUps
  BY HeadsTyped, ShellEventsAreEvents DEF DispatchStaged, WorkInv, TypeInv, TypeOK
<1>3. t.effects \in Seq(Effects)
  BY <1>1, <1>2, ReducedTyped DEF WorkInv
<1> HIDE DEF t
<1>4. /\ staged \in Seq(WorkItems) /\ staged # <<>> /\ Head(staged) = Head(work)
  <2>1. SplitEffectBatch(t.effects) \in Seq(WorkItems)
    BY <1>3, SplitTyped
  <2> QED BY <1>2, <2>1 DEF StageBatch
<1>5. /\ QueuedEffects(work) \subseteq QueuedEffects(staged)
      /\ QueuedEvents(work) \subseteq QueuedEvents(staged)
      /\ \A i \in DOMAIN t.effects : t.effects[i].type \notin ShellOnlyEffects =>
            t.effects[i] \in QueuedEffects(staged)
  BY <1>2, <1>3, StagedIsPending
<1>6. work' = Tail(staged)
  BY <1>1 DEF t
<1> HIDE DEF staged
<1>7. /\ QueuedEffects(staged) = QueuedEffects(work')
      /\ QueuedEvents(staged) = {e} \cup QueuedEvents(work')
  BY <1>2, <1>4, <1>6, OldestTaken
<1>8. /\ PendingEffects' = Range(batch') \cup QueuedEffects(work')
      /\ PendingEvents' = Range(followUps') \cup QueuedEvents(work')
  BY DEF PendingEffects, PendingEvents, QueuedEffects, QueuedEvents
<1> HIDE DEF e
<1>9. /\ PendingEffects \subseteq PendingEffects'
      /\ PendingEvents \subseteq {e} \cup PendingEvents'
      /\ \A i \in DOMAIN t.effects : t.effects[i].type \notin ShellOnlyEffects =>
            t.effects[i] \in PendingEffects'
  BY <1>2, <1>5, <1>7, <1>8, PendingIs
<1> QED BY <1>1, <1>2, <1>9, ReducedIsOwed DEF t

\* A follow-up is reduced; a base whose only effect is the color probe is
\* followed by the probe's report in the same wave.
LEMMA DispatchFollowUpIsOwed ==
    ASSUME WorkInv, DispatchFollowUp
    PROVE  LacksProbe(core') /\ IsOwed(core', PendingEffects', PendingEvents')
<1> DEFINE e == Head(followUps)
<1>1. PICK d \in PlanChoices :
         LET t == Reduce(core, e, d)
         IN /\ Reduced(e, t)
            /\ IF IsSameWaveProbe(e, t.effects)
               THEN \E report \in SameWaveReports(Head(t.effects), t.next.obs) :
                       /\ followUps' = <<report>> \o Tail(followUps)
                       /\ UNCHANGED work
               ELSE /\ followUps' = Tail(followUps)
                    /\ work' = StageBatch(t.effects)
  BY DEF DispatchFollowUp
<1> DEFINE t == Reduce(core, e, d)
<1>2. /\ followUps # <<>> /\ e \in Events /\ batch' = batch
      /\ followUps \in Seq(ShellEvents) /\ Tail(followUps) \in Seq(ShellEvents)
      /\ work \in Seq(WorkItems)
  BY HeadsTyped, ShellEventsAreEvents DEF DispatchFollowUp, WorkInv, TypeInv, TypeOK
<1>3. t.effects \in Seq(Effects) /\ core' = t.next
  BY <1>1, <1>2, ReducedTyped DEF WorkInv, Reduced
<1>4. Range(followUps) = {e} \cup Range(Tail(followUps))
  BY <1>2, RangeOfParts
<1>5. /\ PendingEffects' = Range(batch') \cup QueuedEffects(work')
      /\ PendingEvents' = Range(followUps') \cup QueuedEvents(work')
  BY DEF PendingEffects, PendingEvents, QueuedEffects, QueuedEvents
<1>6. CASE IsSameWaveProbe(e, t.effects)
  <2>1. PICK report \in SameWaveReports(Head(t.effects), t.next.obs) :
           followUps' = <<report>> \o Tail(followUps)
    BY <1>1, <1>6
  <2>2. Replies(core, e)
    BY <1>6 DEF IsSameWaveProbe, Replies
  <2>3. Proceeds(core, e, t)
    BY <1>2, ReduceProceeds, BoundsAssumption DEF WorkInv, TypeInv, PlanChoices
  <2> HIDE DEF t
  <2>4. Asks(t)
    BY <2>2, <2>3 DEF Proceeds
  <2>5. DOMAIN t.effects = {1} /\ Head(t.effects) = t.effects[1]
        /\ t.effects[1].type = "RequestProbe"
    BY <1>3, <1>6 DEF IsSameWaveProbe
  <2>6. /\ report.type = "ProbeReported" /\ report.id = t.effects[1].id
        /\ report.probe = t.effects[1].probe
    BY <2>1, <2>5 DEF SameWaveReports, ProbeReports
  <2>7. InFlight(t.next) => Replies(t.next, report)
    BY <2>4, <2>5, <2>6 DEF Asks, Requests, Replies
  <2>8. report \in Range(followUps')
    <3>1. t.effects[1] \in Effects
      BY <1>3, <2>5
    <3>2. report \in ShellEvents
      BY <2>1, <2>5, <3>1, ProbeReportsTyped DEF SameWaveReports
    <3>3. <<report>> \in Seq(ShellEvents) /\ report \in Range(<<report>>)
      BY <3>2 DEF Range
    <3> DEFINE first == <<report>>
               rest  == Tail(followUps)
    <3>4. /\ first \in Seq(ShellEvents) /\ rest \in Seq(ShellEvents)
          /\ followUps' = first \o rest /\ report \in Range(first)
      BY <1>2, <2>1, <3>3
    <3> HIDE DEF first, rest
    <3>5. Range(first \o rest) = Range(first) \cup Range(rest)
      BY <3>4, RangeOfParts
    <3> QED BY <3>4, <3>5
  <2> QED BY <1>3, <1>5, <2>4, <2>7, <2>8 DEF Asks, IsOwed
<1>7. CASE ~IsSameWaveProbe(e, t.effects)
  <2>1. followUps' = Tail(followUps) /\ work' = StageBatch(t.effects)
    BY <1>1, <1>7
  <2>2. Reduced(e, t)
    BY <1>1
  <2> HIDE DEF t, e
  <2>3. /\ QueuedEffects(work) \subseteq QueuedEffects(work')
        /\ QueuedEvents(work) \subseteq QueuedEvents(work')
        /\ \A i \in DOMAIN t.effects : t.effects[i].type \notin ShellOnlyEffects =>
              t.effects[i] \in QueuedEffects(work')
    BY <1>2, <1>3, <2>1, StagedIsPending
  <2>4. /\ PendingEffects \subseteq PendingEffects'
        /\ PendingEvents \subseteq {e} \cup PendingEvents'
        /\ \A i \in DOMAIN t.effects : t.effects[i].type \notin ShellOnlyEffects =>
              t.effects[i] \in PendingEffects'
    BY <1>2, <1>4, <1>5, <2>1, <2>3, PendingIs
  <2> QED BY <1>2, <2>2, <2>4, ReducedIsOwed DEF t
<1> QED BY <1>6, <1>7

\* An effect is executed: an answer takes the place of a request.
LEMMA ExecutedIsOwed ==
    ASSUME WorkInv, batch # <<>>, NEW s \in Seq(ShellEvents), FollowedBy(s),
           UNCHANGED core,
           Requests(core, Head(batch)) =>
              \E r \in Range(s) : Replies(core, r) \/ r = EffectFailed(0)
    PROVE  LacksProbe(core') /\ IsOwed(core', PendingEffects', PendingEvents')
<1>1. /\ batch \in Seq(Effects) /\ followUps \in Seq(ShellEvents)
      /\ Range(batch) = {Head(batch)} \cup Range(Tail(batch))
      /\ Range(followUps \o s) = Range(followUps) \cup Range(s)
  BY RangeOfParts DEF WorkInv, TypeInv, TypeOK
<1>2. /\ PendingEffects' = Range(batch') \cup QueuedEffects(work')
      /\ PendingEvents' = Range(followUps') \cup QueuedEvents(work')
  BY DEF PendingEffects, PendingEvents, QueuedEffects, QueuedEvents
<1>3. /\ PendingEffects \subseteq {Head(batch)} \cup PendingEffects'
      /\ PendingEvents \subseteq PendingEvents' /\ Range(s) \subseteq PendingEvents'
  BY <1>1, <1>2, PendingIs DEF FollowedBy
<1> QED BY <1>3 DEF WorkInv, IsOwed

\* ... and so it is with a report of retained resources after the answer.
LEMMA ExecutedWithRetainedIsOwed ==
    ASSUME WorkInv, batch # <<>>, NEW s \in Seq(ShellEvents),
           FollowedByWithRetained(s), UNCHANGED core,
           Requests(core, Head(batch)) => \E r \in Range(s) : Replies(core, r)
    PROVE  LacksProbe(core') /\ IsOwed(core', PendingEffects', PendingEvents')
<1>1. CASE FollowedBy(s)
  BY <1>1, ExecutedIsOwed
<1>2. ASSUME NEW due \in BOOLEAN, FollowedBy(Append(s, RetainedObserved(due)))
      PROVE  LacksProbe(core') /\ IsOwed(core', PendingEffects', PendingEvents')
  <2> DEFINE more == Append(s, RetainedObserved(due))
  <2>1. RetainedObserved(due) \in ShellEvents
    BY DEF RetainedObserved, ShellEvents
  <2>2. more \in Seq(ShellEvents) /\ Range(s) \subseteq Range(more)
    <3> DEFINE last == <<RetainedObserved(due)>>
    <3>1. more = s \o last /\ last \in Seq(ShellEvents)
      BY <2>1, AppendIsConcat
    <3> HIDE DEF more, last
    <3>2. Range(s \o last) = Range(s) \cup Range(last)
      BY <3>1, RangeOfParts
    <3> QED BY <3>1, <3>2
  <2> HIDE DEF more
  <2> QED BY <1>2, <2>2, ExecutedIsOwed DEF more
<1> QED BY <1>1, <1>2 DEF FollowedByWithRetained

\* A failed drain stages the failure in place of everything.
LEMMA FailureIsOwed ==
    ASSUME WorkInv, DrainFails, UNCHANGED core
    PROVE  LacksProbe(core') /\ IsOwed(core', PendingEffects', PendingEvents')
<1>1. QueuedEvents(work') = {EffectFailed(0)}
  BY EffectFailedIsEvent, StagedAlone DEF DrainFails
<1>2. PendingEvents' = Range(followUps') \cup QueuedEvents(work')
  BY DEF PendingEvents, QueuedEvents
<1> QED BY <1>1, <1>2 DEF WorkInv, IsOwed

\* An answer is what is asked for.
LEMMA OneReply ==
    ASSUME NEW e \in ShellEvents
    PROVE  <<e>> \in Seq(ShellEvents) /\ Range(<<e>>) = {e}
  BY DEF Range

\* Executing an effect keeps what is owed.
LEMMA ExecuteIsOwed ==
    ASSUME WorkInv, ExecuteEffect
    PROVE  LacksProbe(core') /\ IsOwed(core', PendingEffects', PendingEvents')
<1> DEFINE f == Head(batch)
           Owed == LacksProbe(core') /\ IsOwed(core', PendingEffects', PendingEvents')
<1>1. /\ batch # <<>> /\ f \in Effects /\ UNCHANGED core
  BY HeadsTyped
  DEF ExecuteEffect, ExecuteRequestObservationBase, ExecuteRequestProbe,
      ExecuteRequestRenderPlan, ExecuteApplyProposal, ExecuteApplyRenderCleanup,
      ExecuteScheduleTimer, ExecuteIngressCursorPresentation, Executing, WorkInv
<1> SUFFICES Owed
  OBVIOUS
<1> HIDE DEF Owed
<1>2. ASSUME NEW e \in ShellEvents, FollowedBy(<<e>>),
             Requests(core, f) => Replies(core, e) \/ e = EffectFailed(0)
      PROVE  Owed
  BY <1>1, <1>2, OneReply, ExecutedIsOwed DEF Owed
<1>3. ASSUME NEW e \in ShellEvents, FollowedByWithRetained(<<e>>),
             Requests(core, f) => Replies(core, e)
      PROVE  Owed
  BY <1>1, <1>3, OneReply, ExecutedWithRetainedIsOwed DEF Owed
<1>4. CASE ExecuteRequestObservationBase
  <2>1. f.type = "RequestObservationBase" /\ f.id \in Nat
    BY <1>1, <1>4 DEF ExecuteRequestObservationBase, Executing, Effects
  <2>2. ASSUME NEW chunks \in 0 .. MaxChunks, NEW samples \in BOOLEAN,
               NEW inexact \in BOOLEAN,
               FollowedBy(<<[type |-> "ObservationBaseCollected", id |-> f.id,
                             chunks |-> chunks, samples |-> samples,
                             inexact |-> inexact]>>)
        PROVE  Owed
    <3> DEFINE e == [type |-> "ObservationBaseCollected", id |-> f.id,
                     chunks |-> chunks, samples |-> samples, inexact |-> inexact]
    <3>1. e \in ShellEvents
      BY <2>1 DEF ShellEvents
    <3>2. Requests(core, f) => Replies(core, e)
      BY <2>1 DEF Requests, Replies
    <3> HIDE DEF e
    <3> QED BY <1>2, <2>2, <3>1, <3>2 DEF e
  <2>3. CASE DrainFails
    BY <1>1, <2>3, FailureIsOwed DEF Owed
  <2> QED BY <1>4, <2>2, <2>3 DEF ExecuteRequestObservationBase
<1>5. CASE ExecuteRequestProbe
  <2>1. f.type = "RequestProbe"
    BY <1>5 DEF ExecuteRequestProbe, Executing
  <2>2. PICK e \in ProbeReports(f, core.obs) : FollowedBy(<<e>>)
    BY <1>5 DEF ExecuteRequestProbe
  <2>3. e \in ShellEvents
    BY <1>1, <2>1, ProbeReportsTyped
  <2>4. e.type = "ProbeReported" /\ e.id = f.id /\ e.probe = f.probe
    BY DEF ProbeReports
  <2> QED BY <1>2, <2>1, <2>2, <2>3, <2>4 DEF Requests, Replies
<1>6. CASE ExecuteRequestRenderPlan
  <2> DEFINE computed == [type |-> "RenderPlanComputed", proposal |-> PlannedProposal(f)]
             failed   == [type |-> "RenderPlanFailed", id |-> f.id]
  <2>1. f.type = "RequestRenderPlan" /\ f.id \in Nat
    BY <1>1, <1>6 DEF ExecuteRequestRenderPlan, Executing, Effects
  <2>2. computed \in ShellEvents /\ failed \in ShellEvents
    BY <1>1, <2>1, PlannedProposalTyped DEF ShellEvents
  <2>3. Requests(core, f) => Replies(core, computed) /\ Replies(core, failed)
    BY <2>1 DEF Requests, Replies, PlannedProposal
  <2>4. FollowedBy(<<computed>>) \/ FollowedBy(<<failed>>)
    BY <1>6 DEF ExecuteRequestRenderPlan
  <2> HIDE DEF computed, failed
  <2> QED BY <1>2, <2>2, <2>3, <2>4
<1>7. CASE ExecuteApplyProposal
  <2> DEFINE p == f.proposal
  <2>1. f.type = "ApplyProposal" /\ p.id \in Nat
    BY <1>1, <1>7 DEF ExecuteApplyProposal, Executing, Effects, Proposals
  <2>2. /\ \A redraw \in BOOLEAN, o \in {"full", "degraded", "failed"} :
              /\ ApplyReport(p, o, redraw) \in ShellEvents
              /\ Requests(core, f) => Replies(core, ApplyReport(p, o, redraw))
        /\ EffectFailed(p.id) \in ShellEvents
        /\ Requests(core, f) => Replies(core, EffectFailed(p.id))
    BY <2>1, EffectFailedIsEvent
    DEF ApplyReport, ShellEvents, Requests, Replies, EffectFailed
  <2>3. \/ \E redraw \in BOOLEAN :
              FollowedByWithRetained(<<ApplyReport(p, "full", redraw)>>)
        \/ \E e \in {ApplyReport(p, "degraded", FALSE),
                     ApplyReport(p, "failed", FALSE), EffectFailed(p.id)} :
              FollowedBy(<<e>>)
    BY <1>7 DEF ExecuteApplyProposal
  <2> HIDE DEF p
  <2> QED BY <1>2, <1>3, <2>2, <2>3
<1>8. CASE ExecuteApplyRenderCleanup
  <2>1. f.type = "ApplyRenderCleanup"
    BY <1>8 DEF ExecuteApplyRenderCleanup, Executing
  <2>2. PICK action \in {"SoftClearedNone", "SoftClearedRetained", "Converged",
                         "Progress", "NoProgress", "CleanupStalled"},
             due \in BOOLEAN : FollowedBy(<<CleanupApplied(action, due)>>)
    BY <1>8 DEF ExecuteApplyRenderCleanup
  <2>3. CleanupApplied(action, due) \in ShellEvents
    BY DEF CleanupApplied, ShellEvents
  <2> QED BY <1>2, <2>1, <2>2, <2>3 DEF Requests
<1>9. CASE ExecuteScheduleTimer
  <2> DEFINE Lost(due) == [type |-> "TimerLost", timer |-> f.timer, gen |-> f.gen,
                           due |-> due]
  <2>1. f.type = "ScheduleTimer" /\ f.timer \in TimerIds /\ f.gen \in Nat
    BY <1>1, <1>9 DEF ExecuteScheduleTimer, Executing, Effects
  <2>2. ~Requests(core, f) /\ \A due \in BOOLEAN : Lost(due) \in ShellEvents
    BY <2>1 DEF Requests, ShellEvents
  <2>3. FollowedBy(<<>>) \/ \E due \in BOOLEAN : FollowedBy(<<Lost(due)>>)
    BY <1>9 DEF ExecuteScheduleTimer
  <2> HIDE DEF Lost
  <2>4. <<>> \in Seq(ShellEvents)
    OBVIOUS
  <2>5. CASE FollowedBy(<<>>)
    BY <1>1, <2>2, <2>4, <2>5, ExecutedIsOwed DEF Owed
  <2> QED BY <1>2, <2>2, <2>3, <2>5
<1>10. CASE ExecuteIngressCursorPresentation
  <2>1. f.type = "ApplyIngressCursorPresentation" /\ FollowedByWithRetained(<<>>)
    BY <1>10 DEF ExecuteIngressCursorPresentation, Executing
  <2>2. <<>> \in Seq(ShellEvents) /\ ~Requests(core, f)
    BY <2>1 DEF Requests
  <2> QED BY <1>1, <2>1, <2>2, ExecutedWithRetainedIsOwed DEF Owed
<1> QED BY <1>4, <1>5, <1>6, <1>7, <1>8, <1>9, <1>10 DEF ExecuteEffect

\* Steps keep the inductive invariant.
LEMMA NextWork ==
    ASSUME WorkInv, [Next]_vars
    PROVE  WorkInv'
<1> DEFINE Owed == LacksProbe(core') /\ IsOwed(core', PendingEffects', PendingEvents')
<1>1. TypeInv'
  BY NextTyped DEF WorkInv
<1>2. /\ work \in Seq(WorkItems) /\ followUps \in Seq(ShellEvents)
      /\ batch \in Seq(Effects)
  BY DEF WorkInv, TypeInv, TypeOK
<1>3. /\ PendingEffects' = Range(batch') \cup QueuedEffects(work')
      /\ PendingEvents' = Range(followUps') \cup QueuedEvents(work')
  BY DEF PendingEffects, PendingEvents, QueuedEffects, QueuedEvents
<1> SUFFICES Owed
  <2>1. /\ IsOwed(core, PendingEffects, PendingEvents)'
             <=> IsOwed(core', PendingEffects', PendingEvents')
        /\ LacksProbe(core)' <=> LacksProbe(core')
    BY DEF IsOwed, LacksProbe, InFlight, Requests, Replies
  <2> QED BY <1>1, <2>1 DEF WorkInv
<1>4. ASSUME UNCHANGED core, PendingEffects \subseteq PendingEffects',
             PendingEvents \subseteq PendingEvents'
      PROVE  Owed
  BY <1>4, OwedAmongMore DEF WorkInv
<1>5. CASE UNCHANGED vars
  BY <1>3, <1>4, <1>5, PendingIs DEF vars, shell
<1>6. CASE Initialize
  <2>1. [type |-> "Initialize"] \in Events
    BY DEF Events, EditorEvents
  <2> QED BY <1>6, <2>1, DispatchIsOwed DEF Initialize
<1>7. ASSUME NEW kind \in ExternalKinds, Ingress(kind)
      PROVE  Owed
  <2>1. PICK presents \in BOOLEAN :
           Dispatch([type |-> "ExternalDemandQueued", kind |-> kind,
                     presents |-> presents])
    BY <1>7 DEF Ingress
  <2>2. [type |-> "ExternalDemandQueued", kind |-> kind, presents |-> presents]
           \in Events
    BY DEF Events, EditorEvents
  <2> QED BY <1>7, <2>1, <2>2, DispatchIsOwed DEF Ingress
<1>8. CASE PluginCallbackPanics
  <2>1. /\ QueuedEffects(work') = QueuedEffects(work)
        /\ QueuedEvents(work) \subseteq QueuedEvents(work')
    BY <1>2, <1>8, EffectFailedIsEvent, StagedBehind DEF PluginCallbackPanics
  <2> QED BY <1>3, <1>4, <1>8, <2>1, PendingIs DEF PluginCallbackPanics
<1>9. ASSUME NEW t \in TimerIds, TimerFires(t)
      PROVE  Owed
  <2>1. PICK due \in BOOLEAN :
           Dispatch([type |-> "TimerFired", timer |-> t, gen |-> host[t],
                     due |-> due])
    BY <1>9 DEF TimerFires
  <2>2. [type |-> "TimerFired", timer |-> t, gen |-> host[t], due |-> due] \in Events
    BY ShellEventsAreEvents DEF ShellEvents, WorkInv, TypeInv, TypeOK
  <2> QED BY <1>9, <2>1, <2>2, DispatchIsOwed DEF TimerFires
<1>10. CASE StartBatch
  <2>1. /\ PendingEffects \subseteq PendingEffects'
        /\ PendingEvents \subseteq PendingEvents'
    BY <1>2, <1>3, <1>10, OldestTaken, PendingIs, EmptySeq
    DEF StartBatch, BetweenUnits, Range
  <2> QED BY <1>4, <1>10, <2>1 DEF StartBatch
<1>11. CASE StageRefreshReport
  <2> DEFINE e == Head(followUps)
  <2>1. e \in ShellEvents /\ Range(followUps) = {e} \cup Range(Tail(followUps))
    BY <1>2, <1>11, HeadsTyped, RangeOfParts DEF StageRefreshReport, WorkInv
  <2>2. /\ QueuedEffects(work') = QueuedEffects(work)
        /\ QueuedEvents(work') = QueuedEvents(work) \cup {e}
        /\ followUps' = Tail(followUps) /\ batch' = batch /\ core' = core
    BY <1>2, <1>11, <2>1, StagedBehind DEF StageRefreshReport
  <2> HIDE DEF e
  <2> QED BY <1>3, <1>4, <2>1, <2>2, PendingIs
<1>12. CASE DispatchStaged \/ DispatchFollowUp \/ ExecuteEffect
  BY <1>12, DispatchStagedIsOwed, DispatchFollowUpIsOwed, ExecuteIsOwed DEF Owed
<1> QED BY <1>5, <1>6, <1>7, <1>8, <1>9, <1>10, <1>11, <1>12 DEF Next, Drain

\* At the start nothing is waited for.
LEMMA InitWork ==
    ASSUME Init
    PROVE  WorkInv
<1>1. core.phase = "Idle"
  BY DEF Init, InitialCore
<1> QED BY <1>1, InitTyped DEF WorkInv, LacksProbe, IsOwed, InFlight

\* An observation that is waited for lacks a probe, and what is waited for is
\* asked for, answered or given up, in every reachable state.
THEOREM SpecWorkInv == Spec => []WorkInv
  BY InitWork, NextWork, PTL DEF Spec

\* NoLostWork: no phase ever waits for an answer that nobody will give, whatever
\* effects fail, timers are lost or queues are reset.
THEOREM NoWorkIsLost == Spec => []NoLostWork
<1>1. WorkInv => NoLostWork
  <2> SUFFICES ASSUME WorkInv, ~FailurePending, InFlight(core)
               PROVE  NoLostWork
    BY DEF NoLostWork, InFlight
  <2>1. \/ \E f \in PendingEffects : Requests(core, f)
        \/ \E e \in PendingEvents : Replies(core, e)
    BY DEF WorkInv, IsOwed, FailurePending
  <2> QED BY <2>1 DEF NoLostWork, AwaitsAnswer, Requests, Replies, InFlight
<1> QED BY <1>1, SpecWorkInv, PTL

=============================================================================
