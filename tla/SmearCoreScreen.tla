--------------------------- MODULE SmearCoreScreen ---------------------------
(***************************************************************************)
(* The shell applies the proposal the reducer waits for, and a consistent  *)
(* ledger tells the truth about the screen, for every value of the         *)
(* constants of SmearCore.                                                 *)
(*                                                                         *)
(* Both rest on the queue: a batch that touches the screen holds nothing   *)
(* else, and no more than one proposal is on its way to be applied.  What  *)
(* the reducer believes then lags behind the screen by one unit: from the  *)
(* effect that changes it to the report that ends the unit.                *)
(*                                                                         *)
(* Two things break this.  A callback of the plugin that panics stages a   *)
(* failure behind a proposal still to be applied, and the recovery it      *)
(* begins does not take the proposal back.  A noop is acknowledged with    *)
(* the frame that was trusted when it was planned, whatever has hidden it  *)
(* since; the run core_ledger_noop shows that one.  The theorems are       *)
(* stated for runs without the first, and that of the ledger for runs      *)
(* without the second.                                                     *)
(***************************************************************************)
EXTENDS SmearCoreCleanup

IsApply(f)  == f.type = "ApplyProposal"
Shows(f)    == f.type \in {"ApplyProposal", "ApplyRenderCleanup"}
IsAnswer(e) == e.type \in {"ApplyReported", "EffectFailed"}

\* Event e answers the proposal that c applies.
Answers(c, e) == IsAnswer(e) /\ c.phase = "Applying" /\ e.id = c.proposal.id

\* After event e the ledger of c is no longer what it was.
Distrusts(c, e) == e.type = "RenderCleanupApplied" \/ Answers(c, e)

\* Event e is the plan that c waits for.
Computed(c, e) ==
    /\ e.type = "RenderPlanComputed" /\ c.phase = "Planning"
    /\ e.proposal.id = c.proposal.id

\* Nothing waits in c that could not wait for it.
Sane(c) ==
    /\ CoreInv(c)
    /\ c.phase = "Applying" => c.proposal.id # 0
    /\ c.phase = "Idle" => c.ledger.kind # "Consistent"

-----------------------------------------------------------------------------
(* What a handler does to proposals, ledger and screen. *)

\* From c to n no proposal is applied that was not, and none planned but a new
\* one; the ledger is left alone.
Goes(c, n) ==
    /\ n.ledger = c.ledger
    /\ c.proposals <= n.proposals /\ n.proposals \in Nat
    /\ \/ n.phase = c.phase /\ n.proposal = c.proposal
       \/ n.phase \notin {"Idle", "Planning", "Applying"}
       \/ n.phase = "Planning" /\ n.proposal.id \in c.proposals + 1 .. n.proposals

\* Nothing is shown, and d is the only decision.
Mute(d, F) ==
    \A f \in F : ~Shows(f) /\ (f.type = "RequestRenderPlan" => f.decision = d)

Turns(c, d, t) == Goes(c, t.next) /\ Mute(d, Range(t.effects))

\* A proposal that is applied is answered or given up.
Ends(c, e) == Answers(c, e) \/ Aborts(e)

\* What the handling t of e in c, with decision d, must do.
Steers(c, e, d, t) ==
    /\ c.proposals <= t.next.proposals /\ t.next.proposals \in Nat
    /\ t.next.phase = "Planning" =>
          \/ c.phase = "Planning" /\ t.next.proposal = c.proposal
          \/ t.next.proposal.id \in c.proposals + 1 .. t.next.proposals
    /\ t.next.phase = "Applying" =>
          \/ c.phase = "Applying" /\ t.next.proposal = c.proposal
          \/ Computed(c, e) /\ t.next.proposal = e.proposal
    /\ c.phase = "Applying" => t.next.phase = "Applying" \/ Ends(c, e)
    /\ \A f \in Range(t.effects) :
          /\ Shows(f) => t.effects = <<f>>
          /\ IsApply(f) => /\ Computed(c, e) /\ t.next.phase = "Applying"
                           /\ t.next.proposal = e.proposal
                           /\ f.proposal = e.proposal
          /\ f.type = "RequestRenderPlan" => f.decision = d
    /\ t.next.ledger.kind = "Consistent" =>
          \/ t.next.ledger = c.ledger /\ ~Distrusts(c, e)
          \/ /\ e.type = "ApplyReported" /\ e.outcome = "full" /\ Answers(c, e)
             /\ t.next.ledger.frame = c.proposal.target
    /\ t.next.phase = "Idle" => c.phase = "Idle" /\ t.next.ledger = c.ledger

\* Nothing is done, or one thing after another,
LEMMA GoesThen ==
    ASSUME NEW c, c.proposals \in Nat
    PROVE  /\ Goes(c, c)
           /\ \A n, m : Goes(c, n) /\ Goes(n, m) => Goes(c, m)
<1>1. Goes(c, c)
  BY DEF Goes
<1>2. ASSUME NEW n, NEW m, Goes(c, n), Goes(n, m)
      PROVE  Goes(c, m)
  <2>1. /\ m.ledger = c.ledger /\ c.proposals <= m.proposals
        /\ n.proposals \in Nat /\ m.proposals \in Nat
        /\ c.proposals <= n.proposals /\ n.proposals <= m.proposals
    BY <1>2 DEF Goes
  <2> QED BY <1>2, <2>1 DEF Goes
<1> QED BY <1>1, <1>2
\* ... muted effects one after the other,
LEMMA MuteJoined ==
    ASSUME NEW d, NEW a \in Seq(Effects), NEW b \in Seq(Effects),
           Mute(d, Range(a)), Mute(d, Range(b))
    PROVE  a \o b \in Seq(Effects) /\ Mute(d, Range(a \o b))
<1>1. a \o b \in Seq(Effects) /\ Range(a \o b) = Range(a) \cup Range(b)
  BY RangeOfParts, EffectSequences
<1> QED BY <1>1 DEF Mute

\* ... which is how a handler steers that is not asked about the screen,
LEMMA TurnsSteers ==
    ASSUME NEW c, Sane(c), NEW e, NEW d, NEW t, Turns(c, d, t),
           c.phase = "Applying" => t.next.phase = "Applying" \/ Ends(c, e),
           c.ledger.kind = "Consistent" => ~Distrusts(c, e)
    PROVE  Steers(c, e, d, t)
<1>1. \A f \in Range(t.effects) :
         /\ ~Shows(f) /\ ~IsApply(f)
         /\ f.type = "RequestRenderPlan" => f.decision = d
  BY DEF Turns, Mute, Shows, IsApply
<1>2. Goes(c, t.next)
  BY DEF Turns
<1>3. /\ c.proposals <= t.next.proposals /\ t.next.proposals \in Nat
      /\ t.next.phase = "Planning" =>
            \/ c.phase = "Planning" /\ t.next.proposal = c.proposal
            \/ t.next.proposal.id \in c.proposals + 1 .. t.next.proposals
      /\ t.next.phase = "Applying" => c.phase = "Applying" /\ t.next.proposal = c.proposal
      /\ t.next.phase = "Idle" => c.phase = "Idle" /\ t.next.ledger = c.ledger
      /\ t.next.ledger = c.ledger
  BY <1>2 DEF Goes
<1> QED BY <1>1, <1>3 DEF Steers

\* ... and one that asks for cleanup alone.
LEMMA ShowsSteers ==
    ASSUME NEW c, Sane(c), NEW e, NEW d, NEW t, Goes(c, t.next),
           NEW f, t.effects = <<f>>, f.type = "ApplyRenderCleanup",
           c.phase = "Applying" => t.next.phase = "Applying",
           c.ledger.kind = "Consistent" => ~Distrusts(c, e)
    PROVE  Steers(c, e, d, t)
<1>1. Range(t.effects) = {f} /\ ~IsApply(f) /\ f.type # "RequestRenderPlan"
  BY FewEffects DEF IsApply
<1>2. /\ c.proposals <= t.next.proposals /\ t.next.proposals \in Nat
      /\ t.next.phase = "Planning" =>
            \/ c.phase = "Planning" /\ t.next.proposal = c.proposal
            \/ t.next.proposal.id \in c.proposals + 1 .. t.next.proposals
      /\ t.next.phase = "Applying" => c.phase = "Applying" /\ t.next.proposal = c.proposal
      /\ t.next.phase = "Idle" => c.phase = "Idle" /\ t.next.ledger = c.ledger
      /\ t.next.ledger = c.ledger
  BY DEF Goes
<1> QED BY <1>1, <1>2 DEF Steers

\* Only three kinds of event change what is trusted.
LEMMA OthersTrust ==
    ASSUME NEW c, NEW e,
           e.type \notin {"RenderCleanupApplied", "ApplyReported", "EffectFailed"}
    PROVE  ~Distrusts(c, e)
  BY DEF Distrusts, Answers, IsAnswer

-----------------------------------------------------------------------------
(* Timers and cleanup. *)

\* Timers are asked for and nothing else; the ledger is left alone.
Schedules(c, t) ==
    /\ t.next.ledger = c.ledger
    /\ \A f \in Range(t.effects) : IsSchedule(f)

\* One timer is,
LEMMA ScheduleSchedules ==
    ASSUME NEW c \in CoreStates, NEW x
    PROVE  Schedules(c, ScheduleTimerWithDelay(c, x)) /\ Schedules(c, Stay(c))
<1> DEFINE gen == c.timers[x].gen + 1
           n   == [c EXCEPT !.timers[x] = [gen |-> gen, armed |-> TRUE]]
           t   == ScheduleTimerWithDelay(c, x)
<1>1. t.next = n /\ t.effects = <<Request(x, gen)>>
  BY DEF ScheduleTimerWithDelay, Request
<1>2. n.ledger = c.ledger
  BY DEF CoreStates
<1> HIDE DEF n, t, gen
<1>3. Schedules(c, t)
  BY <1>1, <1>2, FewEffects DEF Schedules, IsSchedule, Request
<1>4. Schedules(c, Stay(c))
  BY FewEffects DEF Schedules, Stay
<1> QED BY <1>3, <1>4 DEF t

\* ... for cleanup that is owed,
LEMMA ArmSchedules ==
    ASSUME NEW c \in CoreStates
    PROVE  Schedules(c, ArmRenderCleanupTimer(c))
<1> DEFINE k == [c.cleanup EXCEPT !.pushed = FALSE]
           n == [c EXCEPT !.cleanup = k]
<1>1. k \in Cleanups
  BY FieldTypes, CleanupValues
<1>2. n \in CoreStates /\ n.ledger = c.ledger
  BY <1>1, CleanupUpdated DEF CoreStates
<1>3. ArmRenderCleanupTimer(c) \in {Stay(c), ScheduleTimerWithDelay(n, "Cleanup")}
  BY DEF ArmRenderCleanupTimer
<1> HIDE DEF n
<1> QED BY <1>2, <1>3, ScheduleSchedules DEF Schedules

\* ... for a new deadline,
LEMMA EnterHotSchedules ==
    ASSUME NEW c \in CoreStates
    PROVE  Schedules(c, EnterHotCleanup(c))
<1> DEFINE hot == [thermal |-> "Hot", quiesced |-> FALSE, pushed |-> FALSE]
           n   == [c EXCEPT !.cleanup = hot]
           k   == [n.cleanup EXCEPT !.pushed = TRUE]
           m   == [n EXCEPT !.cleanup = k]
<1>1. hot \in Cleanups
  BY FieldTypes, CleanupValues
<1>2. EnterHotCleanup(c) \in {Stay(m), ArmRenderCleanupTimer(n)}
  BY DEF EnterHotCleanup, ArmUnlessActive
<1> HIDE DEF hot
<1>3. n \in CoreStates /\ n.ledger = c.ledger
  BY <1>1, CleanupUpdated DEF CoreStates
<1> HIDE DEF n
<1>4. k \in Cleanups
  BY <1>3, FieldTypes, CleanupValues
<1> HIDE DEF k
<1>5. m \in CoreStates /\ m.ledger = c.ledger
  BY <1>3, <1>4, CleanupUpdated DEF CoreStates
<1> HIDE DEF m
<1> QED BY <1>2, <1>3, <1>5, ScheduleSchedules, ArmSchedules DEF Schedules

\* ... for a proposal.
LEMMA AdvanceSchedules ==
    ASSUME NEW c \in CoreStates, NEW action \in {"NoAction", "Invalidate", "Schedule"}
    PROVE  Schedules(c, AdvanceCleanupForProposal(c, action))
<1> DEFINE k == [c.cleanup EXCEPT !.quiesced = FALSE]
           n == [c EXCEPT !.cleanup = k]
<1>1. k \in Cleanups
  BY FieldTypes, CleanupValues
<1>2. n \in CoreStates /\ n.ledger = c.ledger
  BY <1>1, CleanupUpdated DEF CoreStates
<1>3. AdvanceCleanupForProposal(c, action)
        \in {Stay(c), EnterHotCleanup(c), Stay(n), ArmRenderCleanupTimer(n)}
  BY DEF AdvanceCleanupForProposal
<1> HIDE DEF n
<1> QED BY <1>2, <1>3, ScheduleSchedules, ArmSchedules, EnterHotSchedules DEF Schedules

\* What asks for timers alone goes on with what there was.
LEMMA SchedulesTurns ==
    ASSUME NEW c \in CoreStates, NEW d, NEW t, Schedules(c, t),
           t.next.phase = c.phase, t.next.proposal = c.proposal,
           t.next.proposals = c.proposals
    PROVE  Turns(c, d, t)
<1>1. Mute(d, Range(t.effects))
  BY DEF Schedules, Mute, IsSchedule, Shows
<1> QED BY <1>1, FieldTypes DEF Schedules, Turns, Goes

-----------------------------------------------------------------------------
(* Observations, plans and recovery. *)

\* Nothing is done, or something after it,
LEMMA StayTurns ==
    ASSUME NEW c \in CoreStates, NEW d
    PROVE  /\ Turns(c, d, Stay(c))
           /\ \A n, t : Goes(c, n) /\ Turns(n, d, t) => Turns(c, d, t)
<1>1. c.proposals \in Nat
  BY FieldTypes
<1>2. Stay(c).next = c /\ Range(Stay(c).effects) = {}
  BY FewEffects DEF Stay
<1> QED BY <1>1, <1>2, GoesThen DEF Turns, Mute

\* ... an observation is asked for,
LEMMA CollectsTurns ==
    ASSUME NEW c \in CoreStates, NEW d, NEW t, Collects(c, t), Spares(c, t.next)
    PROVE  Turns(c, d, t)
<1>1. Mute(d, Range(t.effects))
  BY DEF Collects, Mute, Shows
<1>2. Goes(c, t.next)
  BY FieldTypes DEF Collects, Spares, Goes
<1> QED BY <1>1, <1>2 DEF Turns

\* ... or a plan,
LEMMA PlansTurns ==
    ASSUME NEW c \in CoreStates, NEW d, NEW t, Plans(c, d, t), Spares(c, t.next)
    PROVE  Turns(c, d, t)
<1>1. Mute(d, Range(t.effects))
  BY DEF Plans, Mute, Shows
<1>2. Goes(c, t.next)
  BY FieldTypes DEF Plans, Spares, Goes
<1> QED BY <1>1, <1>2 DEF Turns

\* ... the oldest queued demand's observation,
LEMMA StartNextTurns ==
    ASSUME NEW c \in CoreStates, AcceptsObservation(c), NEW d
    PROVE  Turns(c, d, StartNextObservation(c))
  BY StartNextCollects, StartNextSpares, CollectsTurns, StayTurns

\* ... the boundary refresh's,
LEMMA BoundaryTurns ==
    ASSUME NEW c \in CoreStates, AcceptsObservation(c), NEW d
    PROVE  Turns(c, d, StartBoundaryRefreshObservation(c))
  BY BoundaryCollects, BoundarySpares, CollectsTurns

\* ... a plan of what was observed,
LEMMA PlanReadyTurns ==
    ASSUME NEW c \in CoreStates, NEW d \in Decisions
    PROVE  Turns(c, d, PlanReadyState(c, d))
  BY PlanReadyPlans, PlanReadySpares, PlansTurns, StayTurns

\* ... any of these,
LEMMA ObserveOrPlanTurns ==
    ASSUME NEW c \in CoreStates, AcceptsObservation(c), NEW d \in Decisions
    PROVE  Turns(c, d, ObserveOrPlan(c, d))
  BY ObserveOrPlanMoves, ObserveOrPlanSpares, CollectsTurns, PlansTurns, StayTurns

\* ... or a recovery.
LEMMA EnterRecoveringTurns ==
    ASSUME NEW c \in CoreStates, NEW d
    PROVE  Turns(c, d, EnterRecovering(c))
<1> DEFINE n == [c EXCEPT !.phase = "Recovering", !.demand = NoDemand,
                          !.refresh = NoRefreshes, !.proposal = NoProposal]
           t == ScheduleTimerWithDelay(n, "Recovery")
<1>1. n \in CoreStates
  BY EmptyValues, Phases DEF CoreStates
<1>2. EnterRecovering(c) = t
  BY DEF EnterRecovering
<1> HIDE DEF n
<1>3. \A f \in Range(t.effects) : IsSchedule(f)
  BY <1>1, ScheduleSchedules DEF Schedules
<1> HIDE DEF t
<1>4. Recovers(c, t) /\ Spares(c, t.next)
  BY <1>2, EnterRecoveringRecovers, EnterRecoveringSpares
<1>5. Goes(c, t.next)
  BY <1>4, FieldTypes DEF Recovers, Spares, Goes
<1>6. Mute(d, Range(t.effects))
  BY <1>3 DEF Mute, IsSchedule, Shows
<1> QED BY <1>2, <1>5, <1>6 DEF Turns

\* An update of what is neither planned nor shown.
Aside(c, n) ==
    /\ n.phase = c.phase /\ n.proposal = c.proposal /\ n.proposals = c.proposals
    /\ n.ledger = c.ledger

\* It goes on with what there was.
LEMMA AsideGoes ==
    ASSUME NEW c \in CoreStates, NEW n, Aside(c, n)
    PROVE  Goes(c, n)
  BY FieldTypes DEF Aside, Goes

-----------------------------------------------------------------------------
(* The handlers. *)

\* Initialize.
LEMMA InitializeSteers ==
    ASSUME NEW c, Sane(c), NEW e, e.type = "Initialize", NEW d
    PROVE  Steers(c, e, d, ReduceInitialize(c))
<1> DEFINE n == [c EXCEPT !.phase = "Primed"]
           t == ReduceInitialize(c)
<1>1. c \in CoreStates
  BY DEF Sane, CoreInv
<1>2. n.phase = "Primed" /\ n.ledger = c.ledger /\ n.proposals = c.proposals
  BY <1>1 DEF CoreStates
<1>3. t = IF c.phase = "Idle" THEN Stay(n) ELSE Stay(c)
  BY DEF ReduceInitialize
<1>4. /\ Stay(n).next = n /\ Stay(c).next = c
      /\ Range(Stay(n).effects) = {} /\ Range(Stay(c).effects) = {}
  BY FewEffects DEF Stay
<1> SUFFICES Steers(c, e, d, t)
  OBVIOUS
<1> HIDE DEF n, t
<1>5. Goes(c, n)
  BY <1>1, <1>2, FieldTypes DEF Goes
<1>6. Turns(c, d, t)
  BY <1>1, <1>3, <1>4, <1>5, StayTurns DEF Turns, Mute
<1>7. c.phase = "Applying" => t.next.phase = "Applying"
  BY <1>3, <1>4
<1> QED BY <1>6, <1>7, TurnsSteers, OthersTrust

\* A demand that is held back.
LEMMA DelayedTurns ==
    ASSUME NEW c \in CoreStates, NEW d
    PROVE  /\ Turns(c, d, DelayedCursorIngress(c))
           /\ DelayedCursorIngress(c).next.phase = c.phase
<1> DEFINE longer == [c EXCEPT !.delay = "extended"]
           armed  == [c EXCEPT !.delay = "armed"]
<1>1. /\ armed \in CoreStates /\ longer \in CoreStates
      /\ Aside(c, armed) /\ Aside(c, longer)
  BY DEF CoreStates, Delays, Aside
<1>2. DelayedCursorIngress(c) \in {Stay(longer), ScheduleTimerWithDelay(armed, "Ingress")}
  BY DEF DelayedCursorIngress
<1> HIDE DEF longer, armed
<1>3. Turns(armed, d, ScheduleTimerWithDelay(armed, "Ingress"))
      /\ ScheduleTimerWithDelay(armed, "Ingress").next.phase = c.phase
  <2> DEFINE t == ScheduleTimerWithDelay(armed, "Ingress")
  <2>1. SameRest(armed, t.next) /\ Schedules(armed, t)
    BY <1>1, ScheduleArms, ScheduleSchedules DEF TimerIds
  <2> HIDE DEF t
  <2>2. Turns(armed, d, t) /\ t.next.phase = c.phase
    BY <1>1, <2>1, SchedulesTurns DEF SameRest, SameProtocol, Aside
  <2> QED BY <2>2 DEF t
<1>4. Turns(longer, d, Stay(longer)) /\ Stay(longer).next.phase = c.phase
  BY <1>1, StayTurns DEF Stay, Aside
<1> QED BY <1>1, <1>2, <1>3, <1>4, StayTurns, AsideGoes

\* The cleanup timer is armed at most.
LEMMA CleansTurns ==
    ASSUME NEW c \in CoreStates, NEW d, NEW t, Cleans(c, t), Schedules(c, t)
    PROVE  /\ Turns(c, d, t) /\ t.next.phase = c.phase
           /\ t.next \in CoreStates /\ t.effects \in Seq(Effects)
<1>1. /\ t.next.phase = c.phase /\ t.next.proposal = c.proposal
      /\ t.next.proposals = c.proposals
  BY DEF Cleans, SameRest, SameProtocol
<1> QED BY <1>1, SchedulesTurns DEF Cleans

\* Ingress.
LEMMA ExternalDemandQueuedSteers ==
    ASSUME NEW c, Sane(c), NEW e \in Events, e.type = "ExternalDemandQueued", NEW d
    PROVE  Steers(c, e, d, ReduceExternalDemandQueued(c, e))
<1> DEFINE queue  == [c.queue EXCEPT ![e.kind] = c.seq + 1]
           queued == [c EXCEPT !.seq = c.seq + 1, !.queue = queue]
           hot    == EnterHotCleanup(queued)
           b      == hot.next
           p      == PresentationEffects(c, e)
           start  == IF ~AcceptsObservation(c) THEN Stay(b)
                     ELSE IF e.kind = CursorKind /\ DelaysCursor
                     THEN DelayedCursorIngress(b) ELSE StartNextObservation(b)
           rest   == start.effects \o hot.effects
           t      == ReduceExternalDemandQueued(c, e)
<1>1. c \in CoreStates /\ CoreInv(c)
  BY DEF Sane, CoreInv
<1>2. e.kind \in DemandKinds /\ c.seq + 1 \in Nat /\ c.queue \in Queues
  BY <1>1, EventFields, FieldTypes DEF DemandKinds
<1>3. queue \in Queues
  BY <1>2 DEF Queues
<1>4. t = IF c.phase = "Idle" THEN Stay(c)
          ELSE [next |-> start.next, effects |-> p \o rest]
  BY DEF ReduceExternalDemandQueued, QueueExternalDemand
<1> SUFFICES Steers(c, e, d, t)
  OBVIOUS
<1> HIDE DEF queue, t
<1>5. queued \in CoreStates /\ Aside(c, queued)
  BY <1>1, <1>2, <1>3 DEF CoreStates, Aside
<1> HIDE DEF queued
<1>6. /\ Turns(c, d, hot) /\ b.phase = c.phase /\ b \in CoreStates
      /\ hot.effects \in Seq(Effects)
  <2>1. Cleans(queued, hot) /\ Schedules(queued, hot)
    BY <1>5, EnterHotCleans, EnterHotSchedules
  <2> HIDE DEF hot
  <2> QED BY <1>1, <1>5, <2>1, CleansTurns, StayTurns, AsideGoes DEF Aside
<1> HIDE DEF hot
<1>7. p \in Seq(Effects) /\ Mute(d, Range(p))
  <2> DEFINE f == [type |-> "ApplyIngressCursorPresentation"]
             g == [type |-> "RecordMetric"]
  <2>1. f \in Effects /\ g \in Effects
    BY DEF Effects
  <2>2. Range(<<f, g>>) = {f, g} /\ <<f, g>> \in Seq(Effects)
    BY <2>1 DEF Range
  <2>3. p \in {<<>>, <<f, g>>, <<f>>}
    BY DEF PresentationEffects
  <2> HIDE DEF p
  <2>4. <<f>> \in Seq(Effects) /\ <<>> \in Seq(Effects)
    BY <2>1
  <2>5. \A x \in {f, g} : ~Shows(x) /\ x.type # "RequestRenderPlan"
    BY DEF Shows
  <2> HIDE DEF f, g
  <2>6. p \in Seq(Effects) /\ Range(p) \subseteq {f, g}
    BY <2>2, <2>3, <2>4, FewEffects
  <2> QED BY <2>5, <2>6 DEF Mute
<1> HIDE DEF p
<1>8. /\ Turns(b, d, start) /\ start.effects \in Seq(Effects)
      /\ c.phase = "Applying" => start.next.phase = "Applying"
  <2>1. CASE ~AcceptsObservation(c)
    <3>1. start = Stay(b)
      BY <2>1
    <3> HIDE DEF start, b
    <3>2. start.next = b /\ start.effects = <<>>
      BY <3>1 DEF Stay
    <3> QED BY <1>6, <3>1, <3>2, StayTurns, EffectSequences
  <2>2. CASE AcceptsObservation(c)
    <3>1. CoreInv(b) /\ AcceptsObservation(b) /\ c.phase # "Applying"
      BY <1>6, <2>2 DEF CoreInv, AcceptsObservation
    <3>2. start \in {DelayedCursorIngress(b), StartNextObservation(b)}
      BY <2>2
    <3> HIDE DEF start, b
    <3>3. /\ DelayedCursorIngress(b).effects \in Seq(Effects)
          /\ StartNextObservation(b).effects \in Seq(Effects)
      BY <3>1, DelayedCursorIngressTyped, StartNextTyped DEF IsTransition
    <3> QED BY <1>6, <3>1, <3>2, <3>3, DelayedTurns, StartNextTurns
  <2> QED BY <2>1, <2>2
<1> HIDE DEF start
<1>9. CASE c.phase = "Idle"
  BY <1>1, <1>4, <1>9, StayTurns, TurnsSteers, OthersTrust
<1>10. CASE c.phase # "Idle"
  <2>1. t.next = start.next /\ t.effects = p \o rest
    BY <1>4, <1>10
  <2>2. rest \in Seq(Effects) /\ Mute(d, Range(rest))
    BY <1>6, <1>8, MuteJoined DEF Turns
  <2> HIDE DEF rest
  <2>3. Mute(d, Range(t.effects))
    BY <1>7, <2>1, <2>2, MuteJoined
  <2>4. Goes(c, t.next)
    BY <1>1, <1>6, <1>8, <2>1, GoesThen, FieldTypes DEF Turns
  <2>5. Turns(c, d, t)
    BY <2>3, <2>4 DEF Turns
  <2> QED BY <1>8, <2>1, <2>5, TurnsSteers, OthersTrust
<1> QED BY <1>9, <1>10

\* A base.
LEMMA ObservationBaseCollectedSteers ==
    ASSUME NEW c, Sane(c), NEW e \in Events, NEW d \in Decisions,
           e.type = "ObservationBaseCollected"
    PROVE  Steers(c, e, d, ReduceObservationBaseCollected(c, e, d))
<1> DEFINE obs   == [kind |-> c.demand.kind, seq |-> c.demand.seq,
                     color |-> IF SamplesCursorColor /\ e.samples
                               THEN "pending" ELSE "done",
                     chunks |-> e.chunks, inexact |-> e.inexact]
           base  == [c EXCEPT !.obs = obs, !.demand = NoDemand]
           look  == [base EXCEPT !.phase = "Observing"]
           ready == [base EXCEPT !.phase = "Ready", !.refresh = NoRefreshes]
           seen  == [next |-> look, effects |-> NextPendingProbeEffects(obs)]
           t     == ReduceObservationBaseCollected(c, e, d)
<1>1. c \in CoreStates
  BY DEF Sane, CoreInv
<1>2. obs \in Observations
  BY <1>1, EventFields, FieldTypes DEF Observations, Demands
<1>3. t = IF c.phase # "Collecting" \/ c.demand.seq # e.id THEN Stay(c)
          ELSE IF NextPendingProbeEffects(obs) # <<>> THEN seen
          ELSE PlanReadyState(ready, d)
  BY DEF ReduceObservationBaseCollected
<1> SUFFICES Steers(c, e, d, t)
  OBVIOUS
<1> HIDE DEF obs, t
<1>4. /\ look.phase = "Observing" /\ look.ledger = c.ledger
      /\ look.proposals = c.proposals
      /\ ready \in CoreStates /\ ready.phase = "Ready" /\ ready.ledger = c.ledger
      /\ ready.proposals = c.proposals
  BY <1>1, <1>2, EmptyValues, Phases DEF CoreStates
<1> HIDE DEF look, ready
<1>5. Goes(c, look) /\ Goes(c, ready)
  BY <1>1, <1>4, FieldTypes DEF Goes
<1>6. Turns(c, d, seen)
  BY <1>5, ProbesAreProbes DEF Turns, Mute, Shows
<1> HIDE DEF seen
<1>7. Turns(c, d, t)
  BY <1>1, <1>3, <1>4, <1>5, <1>6, PlanReadyTurns, StayTurns
<1>8. c.phase = "Applying" => t.next.phase = "Applying"
  BY <1>3 DEF Stay
<1> QED BY <1>7, <1>8, TurnsSteers, OthersTrust

\* An outdated basis.
LEMMA RefreshRequiredTurns ==
    ASSUME NEW c \in CoreStates, NEW p \in ProbeKinds, NEW d \in Decisions
    PROVE  /\ Turns(c, d, ReduceRefreshRequired(c, p, d))
           /\ c.phase = "Applying" =>
                 ReduceRefreshRequired(c, p, d).next.phase = "Applying"
<1> DEFINE primed == [c EXCEPT !.phase = "Primed", !.obs = NoObservation,
                               !.refresh = NoRefreshes]
           demand == ActiveDemand(c)
           tried  == [c.refresh EXCEPT ![p] = c.refresh[p] + 1]
           again  == [c EXCEPT !.phase = "Collecting", !.demand = demand,
                               !.refresh = tried]
           f      == RequestObservationBase(demand)
           asked  == [next |-> again, effects |-> <<f>>]
           t      == ReduceRefreshRequired(c, p, d)
<1>1. t = IF c.phase # "Observing" THEN Stay(c)
          ELSE IF c.refresh[p] = MaxProbeRefreshRetries THEN ObserveOrPlan(primed, d)
          ELSE asked
  BY DEF ReduceRefreshRequired
<1> SUFFICES Turns(c, d, t) /\ (c.phase = "Applying" => t.next.phase = "Applying")
  OBVIOUS
<1> HIDE DEF demand, tried, t
<1>2. /\ primed \in CoreStates /\ primed.phase = "Primed" /\ primed.ledger = c.ledger
      /\ primed.proposals = c.proposals
      /\ again.phase = "Collecting" /\ again.ledger = c.ledger
      /\ again.proposals = c.proposals
  BY EmptyValues, Phases DEF CoreStates
<1>3. Range(<<f>>) = {f} /\ f.type = "RequestObservationBase"
  BY FewEffects DEF RequestObservationBase
<1> HIDE DEF primed, again, f
<1>4. Goes(c, primed) /\ Goes(c, again)
  BY <1>2, FieldTypes DEF Goes
<1>5. Turns(c, d, asked)
  BY <1>3, <1>4 DEF Turns, Mute, Shows
<1> HIDE DEF asked
<1>6. Turns(c, d, ObserveOrPlan(primed, d))
  BY <1>2, <1>4, ObserveOrPlanTurns, StayTurns DEF AcceptsObservation
<1>7. c.phase = "Applying" => t.next.phase = "Applying"
  BY <1>1 DEF Stay
<1> QED BY <1>1, <1>5, <1>6, <1>7, StayTurns

\* The report of a probe.
LEMMA ProbeReportedSteers ==
    ASSUME NEW c, Sane(c), NEW e \in Events, NEW d \in Decisions,
           e.type = "ProbeReported"
    PROVE  Steers(c, e, d, ReduceProbeReported(c, e, d))
<1> DEFINE obs     == ApplyProbeReport(c.obs, e)
           updated == [c EXCEPT !.obs = obs]
           ready   == [updated EXCEPT !.phase = "Ready", !.refresh = NoRefreshes]
           fits    == /\ c.phase \in {"Observing", "Ready", "Planning", "Applying"}
                      /\ AcceptsProbeReport(c.obs, e)
           more    == [next |-> updated, effects |-> NextPendingProbeEffects(updated.obs)]
           t       == ReduceProbeReported(c, e, d)
<1>1. c \in CoreStates /\ e.probe \in ProbeKinds
  BY EventFields DEF Sane, CoreInv
<1>2. t = IF ~fits THEN Stay(c)
          ELSE IF e.outcome = "refresh" THEN ReduceRefreshRequired(c, e.probe, d)
          ELSE IF NextPendingProbeEffects(updated.obs) # <<>> THEN more
          ELSE IF c.phase = "Observing" THEN PlanReadyState(ready, d)
          ELSE Stay(updated)
  BY DEF ReduceProbeReported
<1> SUFFICES Steers(c, e, d, t)
  OBVIOUS
<1>3. fits /\ e.outcome # "refresh" => obs \in Observations
  BY <1>1, FieldTypes, ApplyProbeReportTyped
<1> HIDE DEF obs, t
<1>4. obs \in Observations =>
         /\ updated \in CoreStates /\ Aside(c, updated)
         /\ ready \in CoreStates /\ ready.phase = "Ready" /\ ready.ledger = c.ledger
         /\ ready.proposals = c.proposals
  BY <1>1, EmptyValues, Phases DEF CoreStates, Aside
<1> HIDE DEF updated, ready
<1>5. CASE ~fits \/ e.outcome = "refresh"
  <2>1. Turns(c, d, t) /\ (c.phase = "Applying" => t.next.phase = "Applying")
    <3>1. Stay(c).next = c
      BY DEF Stay
    <3> HIDE DEF fits, more
    <3> QED BY <1>1, <1>2, <1>5, <3>1, StayTurns, RefreshRequiredTurns
  <2> QED BY <2>1, TurnsSteers, OthersTrust
<1>6. CASE fits /\ e.outcome # "refresh"
  <2>0. /\ updated \in CoreStates /\ Aside(c, updated)
        /\ ready \in CoreStates /\ ready.phase = "Ready" /\ ready.ledger = c.ledger
        /\ ready.proposals = c.proposals
    BY <1>3, <1>4, <1>6
  <2>1. Goes(c, updated) /\ Goes(c, ready)
    BY <1>1, <2>0, AsideGoes, FieldTypes DEF Goes
  <2>2. Turns(c, d, more) /\ more.next = updated
    BY <2>1, ProbesAreProbes DEF Turns, Mute, Shows
  <2> HIDE DEF more
  <2>3. Turns(c, d, Stay(updated)) /\ Stay(updated).next = updated
    BY <1>1, <2>0, <2>1, StayTurns DEF Stay
  <2>4. Turns(c, d, PlanReadyState(ready, d))
    BY <1>1, <2>0, <2>1, PlanReadyTurns, StayTurns
  <2>5. t \in {more, Stay(updated)} \/ (c.phase = "Observing" /\ t = PlanReadyState(ready, d))
    BY <1>2, <1>6
  <2>6. Turns(c, d, t) /\ (c.phase = "Applying" => t.next.phase = "Applying")
    BY <2>0, <2>2, <2>3, <2>4, <2>5 DEF Aside
  <2> QED BY <2>6, TurnsSteers, OthersTrust
<1> QED BY <1>5, <1>6

\* A plan, computed,
LEMMA RenderPlanComputedSteers ==
    ASSUME NEW c, Sane(c), NEW e \in Events, NEW d, e.type = "RenderPlanComputed"
    PROVE  Steers(c, e, d, ReduceRenderPlanComputed(c, e))
<1> DEFINE n == [c EXCEPT !.phase = "Applying", !.proposal = e.proposal]
           f == [type |-> "ApplyProposal", proposal |-> e.proposal]
           t == ReduceRenderPlanComputed(c, e)
<1>1. c \in CoreStates /\ c.proposals \in Nat
  BY FieldTypes DEF Sane, CoreInv
<1>2. /\ n.phase = "Applying" /\ n.proposal = e.proposal /\ n.ledger = c.ledger
      /\ n.proposals = c.proposals
  BY <1>1 DEF CoreStates
<1>3. f.type = "ApplyProposal" /\ f.proposal = e.proposal /\ Range(<<f>>) = {f}
  BY FewEffects
<1>4. t = IF c.phase # "Planning" \/ c.proposal.id # e.proposal.id THEN Stay(c)
          ELSE [next |-> n, effects |-> <<f>>]
  BY DEF ReduceRenderPlanComputed
<1> SUFFICES Steers(c, e, d, t)
  OBVIOUS
<1> HIDE DEF n, f, t
<1>5. CASE Computed(c, e)
  <2>1. t.next = n /\ t.effects = <<f>> /\ ~Distrusts(c, e)
    BY <1>4, <1>5, OthersTrust DEF Computed
  <2> QED BY <1>1, <1>2, <1>3, <1>5, <2>1 DEF Steers, IsApply, Computed
<1>6. CASE ~Computed(c, e)
  <2>1. t = Stay(c)
    BY <1>4, <1>6 DEF Computed
  <2> QED BY <1>1, <2>1, StayTurns, TurnsSteers, OthersTrust DEF Stay
<1> QED BY <1>5, <1>6

\* ... or failed.
LEMMA RenderPlanFailedSteers ==
    ASSUME NEW c, Sane(c), NEW e, NEW d, e.type = "RenderPlanFailed"
    PROVE  Steers(c, e, d, ReduceRenderPlanFailed(c, e))
<1> DEFINE t == ReduceRenderPlanFailed(c, e)
<1>1. c \in CoreStates
  BY DEF Sane, CoreInv
<1>2. CASE c.phase # "Planning" \/ c.proposal.id # e.id
  <2>1. t = Stay(c)
    BY <1>2 DEF ReduceRenderPlanFailed
  <2> HIDE DEF t
  <2>2. Steers(c, e, d, t)
    BY <1>1, <2>1, StayTurns, TurnsSteers, OthersTrust DEF Stay
  <2> QED BY <2>2 DEF t
<1>3. CASE c.phase = "Planning" /\ c.proposal.id = e.id
  <2>1. t = EnterRecovering(c)
    BY <1>3 DEF ReduceRenderPlanFailed
  <2> HIDE DEF t
  <2>2. Steers(c, e, d, t)
    BY <1>1, <1>3, <2>1, EnterRecoveringTurns, TurnsSteers, OthersTrust
  <2> QED BY <2>2 DEF t
<1> QED BY <1>2, <1>3

\* What ends with a screen that is not trusted.
LEMMA DoubtsSteer ==
    ASSUME NEW c, c.phase # "Idle", NEW m, m.phase = c.phase,
           m.proposal = c.proposal, m.proposals = c.proposals,
           m.ledger.kind # "Consistent", NEW e, NEW d, NEW t, Turns(m, d, t),
           c.phase = "Applying" => t.next.phase = "Applying" \/ Ends(c, e)
    PROVE  Steers(c, e, d, t)
<1>1. \A f \in Range(t.effects) :
         /\ ~Shows(f) /\ ~IsApply(f)
         /\ f.type = "RequestRenderPlan" => f.decision = d
  BY DEF Turns, Mute, Shows, IsApply
<1>2. Goes(m, t.next)
  BY DEF Turns
<1>3. /\ c.proposals <= t.next.proposals /\ t.next.proposals \in Nat
      /\ t.next.phase = "Planning" =>
            \/ c.phase = "Planning" /\ t.next.proposal = c.proposal
            \/ t.next.proposal.id \in c.proposals + 1 .. t.next.proposals
      /\ t.next.phase = "Applying" => c.phase = "Applying" /\ t.next.proposal = c.proposal
      /\ t.next.phase # "Idle"
      /\ t.next.ledger.kind # "Consistent"
  BY <1>2 DEF Goes
<1> QED BY <1>1, <1>3 DEF Steers

\* ... where a cleanup may follow at once.
LEMMA DoubtsShow ==
    ASSUME NEW c, c.phase # "Idle", NEW m, m.phase = c.phase, c.proposals \in Nat,
           m.proposal = c.proposal, m.proposals = c.proposals,
           m.ledger.kind # "Consistent", NEW e, NEW d, NEW f,
           f.type = "ApplyRenderCleanup"
    PROVE  Steers(c, e, d, [next |-> m, effects |-> <<f>>])
<1>1. Range(<<f>>) = {f} /\ ~IsApply(f) /\ f.type # "RequestRenderPlan"
  BY FewEffects DEF IsApply
<1> QED BY <1>1 DEF Steers

\* Cleanup is done alone, or its timer is armed.
LEMMA EmitTurns ==
    ASSUME NEW c \in CoreStates, NEW due, NEW d
    PROVE  LET t == EmitCleanupOrArm(c, due)
           IN /\ t.next.phase = c.phase
              /\ \/ Turns(c, d, t)
                 \/ \E f : f.type = "ApplyRenderCleanup"
                           /\ t = [next |-> c, effects |-> <<f>>]
<1> DEFINE f == [type |-> "ApplyRenderCleanup",
                 execution |-> IF c.cleanup.thermal = "Hot" THEN "SoftClear"
                                                            ELSE "Compact"]
           a == ArmRenderCleanupTimer(c)
<1>1. EmitCleanupOrArm(c, due) \in {[next |-> c, effects |-> <<f>>], a}
  BY DEF EmitCleanupOrArm, CleanupEffects
<1>2. f.type = "ApplyRenderCleanup"
  OBVIOUS
<1>3. Cleans(c, a) /\ Schedules(c, a)
  BY ArmCleans, ArmSchedules
<1> HIDE DEF f, a
<1>4. Turns(c, d, a) /\ a.next.phase = c.phase
  BY <1>3, CleansTurns
<1> QED BY <1>1, <1>2, <1>4

\* An apply that is completed,
LEMMA ApplyCompletedSteers ==
    ASSUME NEW c, Sane(c), c.phase = "Applying", NEW e \in Events, NEW d,
           e.type = "ApplyReported", e.outcome = "full", c.proposal.id = e.id
    PROVE  Steers(c, e, d, ReduceApplyCompleted(c, e))
<1> DEFINE p       == c.proposal
           ledger  == Acknowledge(p.target)
           ready   == [c EXCEPT !.phase = "Ready", !.proposal = NoProposal,
                                !.ledger = ledger]
           cleanup == AdvanceCleanupForProposal(ready, p.cleanup)
           c1      == cleanup.next
           observe == IF /\ QueuedKinds(c1) = {}
                         /\ ~p.animate
                         /\ ExactBoundaryRefreshRequired(c1)
                      THEN StartBoundaryRefreshObservation(c1)
                      ELSE StartNextObservation(c1)
           o       == observe.next
           animate == IF p.animate
                      THEN ScheduleTimerWithDelay(observe.next, "Animation")
                      ELSE Stay(observe.next)
           redraw  == RedrawEffects(e)
           before  == cleanup.effects \o redraw
           mid     == before \o observe.effects
           t       == ReduceApplyCompleted(c, e)
<1>1. p \in Proposals /\ c \in CoreStates /\ c.proposals \in Nat
  BY FieldTypes DEF Sane, CoreInv
<1>2. /\ ready \in CoreStates /\ ready.phase = "Ready" /\ ready.ledger = ledger
      /\ ready.proposals = c.proposals
  BY <1>1, ProposalFields, EmptyValues, Phases DEF CoreStates
<1>3. ledger.kind = "Consistent" => ledger.frame = p.target
  BY DEF Acknowledge
<1>4. t = [next |-> animate.next, effects |-> mid \o animate.effects]
  BY DEF ReduceApplyCompleted
<1> SUFFICES Steers(c, e, d, t)
  OBVIOUS
<1> HIDE DEF ready, t, ledger
<1>5. Turns(ready, d, cleanup) /\ c1 \in CoreStates /\ c1.phase = "Ready"
      /\ cleanup.effects \in Seq(Effects)
  <2>1. Cleans(ready, cleanup) /\ Schedules(ready, cleanup)
    BY <1>1, <1>2, ProposalFields, AdvanceCleans, AdvanceSchedules
  <2> HIDE DEF cleanup
  <2> QED BY <1>2, <2>1, CleansTurns
<1>6. redraw \in Seq(Effects) /\ Mute(d, Range(redraw))
  BY RedrawTyped, FewEffects DEF RedrawEffects, Mute, Shows
<1> HIDE DEF cleanup, redraw
<1>7. before \in Seq(Effects) /\ Mute(d, Range(before))
  BY <1>5, <1>6, MuteJoined DEF Turns
<1> HIDE DEF c1, before
<1>8. Turns(c1, d, observe) /\ IsTransition(observe) /\ o.phase \notin {"Planning", "Applying"}
  <2>1. CoreInv(c1) /\ AcceptsObservation(c1)
    BY <1>5 DEF CoreInv, AcceptsObservation
  <2>2. o.phase \notin {"Planning", "Applying"}
    <3>1. \/ Collects(c1, observe)
          \/ observe = Stay(c1)
      BY <1>5, <2>1, StartNextCollects, BoundaryCollects
    <3> HIDE DEF observe
    <3> QED BY <1>5, <3>1 DEF Collects, Stay
  <2>3. Turns(c1, d, observe) /\ IsTransition(observe)
    BY <1>5, <2>1, StartNextTurns, BoundaryTurns, StartNextTyped, StartBoundaryRefreshTyped
  <2> QED BY <2>2, <2>3
<1> HIDE DEF observe
<1>9. o \in CoreStates /\ observe.effects \in Seq(Effects)
  BY <1>8 DEF IsTransition, CoreInv
<1>10. mid \in Seq(Effects) /\ Mute(d, Range(mid))
  BY <1>7, <1>8, <1>9, MuteJoined DEF Turns
<1> HIDE DEF mid
<1>11. Turns(o, d, animate) /\ animate.effects \in Seq(Effects)
  <2> HIDE DEF o
  <2>1. "Animation" \in TimerIds
    BY DEF TimerIds
  <2>2. CASE p.animate
    <3>1. animate = ScheduleTimerWithDelay(o, "Animation")
      BY <2>2 DEF o
    <3> HIDE DEF animate
    <3>2. SameRest(o, animate.next) /\ Schedules(o, animate)
      BY <1>9, <2>1, <3>1, ScheduleArms, ScheduleSchedules
    <3>3. animate.effects \in Seq(Effects)
      BY <1>9, <2>1, <3>1, ScheduleTimerTyped DEF TimersOnly
    <3> QED BY <1>9, <3>2, <3>3, SchedulesTurns DEF SameRest, SameProtocol
  <2>3. CASE ~p.animate
    <3>1. animate = Stay(o)
      BY <2>3 DEF o
    <3> HIDE DEF animate
    <3> QED BY <1>9, <3>1, StayTurns, EffectSequences DEF Stay
  <2> QED BY <2>2, <2>3
<1> HIDE DEF animate, o
<1>12. /\ t.next = animate.next /\ Mute(d, Range(t.effects))
  BY <1>4, <1>10, <1>11, MuteJoined DEF Turns
<1>13. Goes(ready, t.next)
  BY <1>1, <1>2, <1>5, <1>8, <1>11, <1>12, GoesThen DEF Turns, c1, o
<1>14. \A f \in Range(t.effects) :
          /\ ~Shows(f) /\ ~IsApply(f)
          /\ f.type = "RequestRenderPlan" => f.decision = d
  BY <1>12 DEF Mute, Shows, IsApply
<1>15. Answers(c, e)
  BY DEF Answers, IsAnswer
<1>16. /\ c.proposals <= t.next.proposals /\ t.next.proposals \in Nat
       /\ t.next.phase = "Planning" =>
             t.next.proposal.id \in c.proposals + 1 .. t.next.proposals
       /\ t.next.phase \notin {"Idle", "Applying"} /\ t.next.ledger = ledger
  BY <1>2, <1>13 DEF Goes
<1> QED BY <1>3, <1>14, <1>15, <1>16 DEF Steers, Ends

\* ... failed or degraded,
LEMMA ApplyNonSuccessSteers ==
    ASSUME NEW c, Sane(c), c.phase = "Applying", NEW e, Ends(c, e), NEW d
    PROVE  Steers(c, e, d, ReduceApplyNonSuccess(c, e))
<1> DEFINE m       == [c EXCEPT !.ledger = Diverged]
           cleanup == AdvanceCleanupForProposal(m, c.proposal.cleanup)
           b       == cleanup.next
           recover == EnterRecovering(b)
           redraw  == RedrawEffects(e)
           before  == cleanup.effects \o redraw
           t       == ReduceApplyNonSuccess(c, e)
<1>1. c.proposal \in Proposals /\ c \in CoreStates
  BY DEF Sane, CoreInv
<1>2. /\ m \in CoreStates /\ m.phase = "Applying" /\ m.ledger.kind # "Consistent"
      /\ m.proposal = c.proposal /\ m.proposals = c.proposals
  BY <1>1, EmptyValues DEF CoreStates, Diverged
<1>3. t = [next |-> recover.next, effects |-> before \o recover.effects]
  BY DEF ReduceApplyNonSuccess
<1> SUFFICES Steers(c, e, d, t)
  OBVIOUS
<1> HIDE DEF m, t
<1>4. /\ Turns(m, d, cleanup) /\ b \in CoreStates /\ cleanup.effects \in Seq(Effects)
      /\ CoreInv(b)
  <2>1. Cleans(m, cleanup) /\ Schedules(m, cleanup)
    BY <1>1, <1>2, ProposalFields, AdvanceCleans, AdvanceSchedules
  <2> HIDE DEF cleanup
  <2>2. CoreInv(b)
    BY <1>1, <1>2, <2>1 DEF Cleans, SameRest, SameProtocol, CoreInv
  <2> QED BY <1>2, <2>1, <2>2, CleansTurns
<1>5. redraw \in Seq(Effects) /\ Mute(d, Range(redraw))
  BY RedrawTyped, FewEffects DEF RedrawEffects, Mute, Shows
<1> HIDE DEF cleanup, redraw
<1>6. before \in Seq(Effects) /\ Mute(d, Range(before))
  BY <1>4, <1>5, MuteJoined DEF Turns
<1> HIDE DEF b, before
<1>7. Turns(b, d, recover) /\ recover.effects \in Seq(Effects)
  BY <1>4, EnterRecoveringTurns, EnterRecoveringTyped DEF IsTransition
<1> HIDE DEF recover
<1>8. t.next = recover.next /\ Mute(d, Range(t.effects))
  BY <1>3, <1>6, <1>7, MuteJoined DEF Turns
<1>9. Turns(m, d, t)
  BY <1>2, <1>4, <1>7, <1>8, GoesThen, FieldTypes DEF Turns, b
<1> QED BY <1>2, <1>9, DoubtsSteer

\* An apply report.
LEMMA ApplyReportedSteers ==
    ASSUME NEW c, Sane(c), NEW e \in Events, NEW d, e.type = "ApplyReported"
    PROVE  Steers(c, e, d, ReduceApplyReported(c, e))
<1> DEFINE t == ReduceApplyReported(c, e)
<1>1. c \in CoreStates
  BY DEF Sane, CoreInv
<1>2. t = IF c.phase # "Applying" \/ c.proposal.id # e.id THEN Stay(c)
          ELSE IF e.outcome = "full" THEN ReduceApplyCompleted(c, e)
          ELSE ReduceApplyNonSuccess(c, e)
  BY DEF ReduceApplyReported
<1> SUFFICES Steers(c, e, d, t)
  OBVIOUS
<1> HIDE DEF t
<1>3. CASE c.phase = "Applying" /\ c.proposal.id = e.id
  <2>1. Ends(c, e)
    BY <1>3 DEF Ends, Answers, IsAnswer
  <2> QED BY <1>2, <1>3, <2>1, ApplyCompletedSteers, ApplyNonSuccessSteers
<1>4. CASE ~(c.phase = "Applying" /\ c.proposal.id = e.id)
  <2>1. ~Distrusts(c, e) /\ t = Stay(c)
    BY <1>2, <1>4 DEF Distrusts, Answers
  <2> QED BY <1>1, <2>1, StayTurns, TurnsSteers DEF Stay
<1> QED BY <1>3, <1>4

\* A failure of any other effect.
LEMMA EffectFailedSteers ==
    ASSUME NEW c, Sane(c), NEW e \in Events, NEW d, e.type = "EffectFailed"
    PROVE  Steers(c, e, d, ReduceEffectFailed(c, e))
<1> DEFINE requeued == RequeueActiveDemand(c)
           cleared  == [requeued EXCEPT !.obs = NoObservation]
           n        == IF c.phase = "Observing" THEN cleared ELSE requeued
           t        == ReduceEffectFailed(c, e)
<1>1. c \in CoreStates /\ CoreInv(c)
  BY DEF Sane, CoreInv
<1>2. t = IF c.phase = "Idle" THEN Stay(c)
          ELSE IF e.id # 0
          THEN IF c.phase # "Applying" \/ c.proposal.id # e.id THEN Stay(c)
               ELSE ReduceApplyNonSuccess(c, e)
          ELSE EnterRecovering(n)
  BY DEF ReduceEffectFailed
<1> SUFFICES Steers(c, e, d, t)
  OBVIOUS
<1> HIDE DEF t
<1>3. n \in CoreStates /\ Aside(c, n)
  <2>1. requeued \in CoreStates /\ Aside(c, requeued)
    <3> DEFINE demand == ActiveDemand(c)
               queue  == [c.queue EXCEPT ![demand.kind] = demand.seq]
               m      == [c EXCEPT !.queue = queue]
    <3>1. requeued \in {c, m}
      BY DEF RequeueActiveDemand
    <3> HIDE DEF queue
    <3>2. Aside(c, m)
      BY <1>1 DEF CoreStates, Aside
    <3> HIDE DEF m
    <3>3. requeued \in CoreStates
      BY <1>1, RequeueTyped DEF CoreInv
    <3> QED BY <3>1, <3>2, <3>3 DEF Aside
  <2> HIDE DEF requeued
  <2>2. cleared \in CoreStates /\ Aside(requeued, cleared)
    BY <2>1, EmptyValues DEF CoreStates, Aside
  <2> HIDE DEF cleared
  <2> QED BY <2>1, <2>2 DEF Aside
<1> HIDE DEF n
<1>4. CASE c.phase = "Applying" /\ c.proposal.id = e.id /\ e.id # 0
  <2>1. Ends(c, e) /\ t = ReduceApplyNonSuccess(c, e)
    BY <1>2, <1>4 DEF Ends, Answers, IsAnswer
  <2> QED BY <1>4, <2>1, ApplyNonSuccessSteers
<1>5. CASE ~(c.phase = "Applying" /\ c.proposal.id = e.id /\ e.id # 0)
  <2>1. ~Distrusts(c, e)
    BY <1>5 DEF Distrusts, Answers, Sane
  <2>2. CASE t = Stay(c)
    BY <1>1, <2>1, <2>2, StayTurns, TurnsSteers DEF Stay
  <2>3. CASE t = EnterRecovering(n) /\ e.id = 0
    <3>1. Aborts(e)
      BY <2>3 DEF Aborts
    <3>2. Turns(c, d, t)
      BY <1>1, <1>3, <2>3, EnterRecoveringTurns, AsideGoes, StayTurns
    <3> QED BY <2>1, <3>1, <3>2, TurnsSteers DEF Ends
  <2> QED BY <1>2, <1>5, <2>2, <2>3
<1> QED BY <1>4, <1>5

\* What was hidden or torn down is no longer what the ledger says.
LEMMA RenderCleanupAppliedSteers ==
    ASSUME NEW c, Sane(c), NEW e \in Events, NEW d, e.type = "RenderCleanupApplied"
    PROVE  Steers(c, e, d, ReduceRenderCleanupApplied(c, e))
<1> DEFINE k       == CleanupStateAfterApplied(c.cleanup, e.action)
           l       == LedgerAfterCleanup(c.ledger)
           applied == [c EXCEPT !.cleanup = k, !.ledger = l]
           dueNow  == \/ e.action = "SoftClearedNone"
                      \/ e.action = "NoProgress" /\ e.due
           t       == ReduceRenderCleanupApplied(c, e)
<1>1. c \in CoreStates /\ k \in Cleanups /\ l \in Ledgers /\ l.kind # "Consistent"
  <2>1. c \in CoreStates
    BY DEF Sane, CoreInv
  <2> QED BY <2>1, FieldTypes, CleanupAppliedTyped, LedgerAfterCleanupTyped
          DEF LedgerAfterCleanup, Diverged
<1>2. t = IF c.phase = "Idle" THEN Stay(c)
          ELSE IF applied.cleanup.quiesced THEN Stay(applied)
          ELSE EmitCleanupOrArm(applied, dueNow)
  BY DEF ReduceRenderCleanupApplied
<1> SUFFICES Steers(c, e, d, t)
  OBVIOUS
<1> HIDE DEF k, l, dueNow, t
<1>3. /\ applied \in CoreStates /\ applied.phase = c.phase /\ applied.ledger = l
      /\ applied.proposal = c.proposal /\ applied.proposals = c.proposals
  BY <1>1 DEF CoreStates
<1> HIDE DEF applied
<1>4. CASE c.phase = "Idle"
  BY <1>1, <1>2, <1>4, StayTurns, TurnsSteers DEF Stay, Sane
<1>5. CASE c.phase # "Idle"
  <2>1. t.next.phase = c.phase
        /\ \/ Turns(applied, d, t)
           \/ \E f : f.type = "ApplyRenderCleanup"
                     /\ t = [next |-> applied, effects |-> <<f>>]
    BY <1>2, <1>3, <1>5, EmitTurns, StayTurns DEF Stay
  <2> QED BY <1>1, <1>3, <1>5, <2>1, DoubtsSteer, DoubtsShow, FieldTypes
<1> QED BY <1>4, <1>5

\* Nor is it with resources that were retained.
LEMMA RetainedResourcesSteers ==
    ASSUME NEW c, Sane(c), NEW e \in Events, NEW d,
           e.type = "RetainedResourcesObserved"
    PROVE  Steers(c, e, d, ReduceRetainedResourcesObserved(c, e))
<1> DEFINE hot   == c.cleanup.thermal = "Hot"
           k     == IF hot THEN c.cleanup
                    ELSE [c.cleanup EXCEPT !.thermal = "Cooling", !.pushed = FALSE]
           l     == LedgerAfterCleanup(c.ledger)
           next  == [c EXCEPT !.cleanup = k, !.ledger = l]
           due   == hot /\ e.due
           t     == ReduceRetainedResourcesObserved(c, e)
<1>1. c \in CoreStates /\ k \in Cleanups /\ l \in Ledgers /\ l.kind # "Consistent"
  <2>1. c \in CoreStates
    BY DEF Sane, CoreInv
  <2> QED BY <2>1, FieldTypes, CleanupValues, LedgerAfterCleanupTyped
          DEF LedgerAfterCleanup, Diverged
<1>2. t = IF c.phase = "Idle" THEN Stay(c)
          ELSE IF k.quiesced \/ (hot /\ c.timers["Cleanup"].armed) THEN Stay(next)
          ELSE EmitCleanupOrArm(next, due)
  BY DEF ReduceRetainedResourcesObserved
<1> SUFFICES Steers(c, e, d, t)
  OBVIOUS
<1> HIDE DEF k, l, due, t, hot
<1>3. /\ next \in CoreStates /\ next.phase = c.phase /\ next.ledger = l
      /\ next.proposal = c.proposal /\ next.proposals = c.proposals
  BY <1>1 DEF CoreStates
<1> HIDE DEF next
<1>4. CASE c.phase = "Idle"
  BY <1>1, <1>2, <1>4, StayTurns, TurnsSteers, OthersTrust DEF Stay
<1>5. CASE c.phase # "Idle"
  <2>1. t.next.phase = c.phase
        /\ \/ Turns(next, d, t)
           \/ \E f : f.type = "ApplyRenderCleanup"
                     /\ t = [next |-> next, effects |-> <<f>>]
    BY <1>2, <1>3, <1>5, EmitTurns, StayTurns DEF Stay
  <2> QED BY <1>1, <1>3, <1>5, <2>1, DoubtsSteer, DoubtsShow, FieldTypes
<1> QED BY <1>4, <1>5

\* A disarmed timer is all there is to a timer's end.
LEMMA DisarmAside ==
    ASSUME NEW c \in CoreStates, NEW x \in TimerIds
    PROVE  Disarm(c, x) \in CoreStates /\ Aside(c, Disarm(c, x))
<1>1. Disarm(c, x) \in CoreStates
  BY DisarmTyped
<1>2. Aside(c, Disarm(c, x))
  BY DEF Disarm, CoreStates, Aside
<1> QED BY <1>1, <1>2

\* The ingress delay ends, or its timer is armed again.
LEMMA IngressTurns ==
    ASSUME NEW c \in CoreStates, NEW d
    PROVE  /\ Turns(c, d, IngressDelayOver(c))
           /\ c.phase = "Applying" => IngressDelayOver(c).next.phase = "Applying"
           /\ \A due \in BOOLEAN :
                 LET t == IngressTimerSignal(c, due)
                 IN /\ Turns(c, d, t)
                    /\ c.phase = "Applying" => t.next.phase = "Applying"
<1> DEFINE over  == [c EXCEPT !.delay = "none"]
           armed == [c EXCEPT !.delay = "armed"]
           again == ScheduleTimerWithDelay(armed, "Ingress")
<1>1. /\ over \in CoreStates /\ Aside(c, over)
      /\ armed \in CoreStates /\ Aside(c, armed)
  BY DEF CoreStates, Delays, Aside
<1>2. IngressDelayOver(c) = IF AcceptsObservation(c) THEN StartNextObservation(over)
                            ELSE Stay(over)
  BY DEF IngressDelayOver
<1>3. ASSUME NEW due \in BOOLEAN
      PROVE  IngressTimerSignal(c, due) \in {Stay(c), again, IngressDelayOver(c)}
  BY DEF IngressTimerSignal
<1> HIDE DEF over, armed
<1>4. /\ Turns(c, d, IngressDelayOver(c))
      /\ c.phase = "Applying" => IngressDelayOver(c).next.phase = "Applying"
  <2>1. CASE AcceptsObservation(c)
    <3>1. AcceptsObservation(over) /\ c.phase # "Applying"
      BY <1>1, <2>1 DEF AcceptsObservation, Aside
    <3> QED BY <1>1, <1>2, <2>1, <3>1, StartNextTurns, AsideGoes, StayTurns
  <2>2. CASE ~AcceptsObservation(c)
    <3>1. IngressDelayOver(c) = Stay(over) /\ Stay(over).next = over
      BY <1>2, <2>2 DEF Stay
    <3> QED BY <1>1, <3>1, AsideGoes, StayTurns DEF Aside
  <2> QED BY <2>1, <2>2
<1>5. Turns(c, d, again) /\ again.next.phase = c.phase
  <2>1. SameRest(armed, again.next) /\ Schedules(armed, again)
    BY <1>1, ScheduleArms, ScheduleSchedules DEF TimerIds
  <2> HIDE DEF again
  <2>2. Turns(armed, d, again) /\ again.next.phase = c.phase
    BY <1>1, <2>1, SchedulesTurns DEF SameRest, SameProtocol, Aside
  <2> QED BY <1>1, <2>2, AsideGoes, StayTurns
<1> HIDE DEF again
<1>6. Turns(c, d, Stay(c)) /\ Stay(c).next = c
  BY StayTurns DEF Stay
<1>7. ASSUME NEW due \in BOOLEAN
      PROVE  LET t == IngressTimerSignal(c, due)
             IN /\ Turns(c, d, t)
                /\ c.phase = "Applying" => t.next.phase = "Applying"
  BY <1>3, <1>4, <1>5, <1>6
<1> QED BY <1>4, <1>7

\* An animation tick, and the end of a recovery.
LEMMA TickTurns ==
    ASSUME NEW c \in CoreStates, NEW d \in Decisions
    PROVE  /\ Turns(c, d, AnimationTick(c, d))
           /\ c.phase = "Applying" => AnimationTick(c, d).next.phase = "Applying"
           /\ c.phase = "Recovering" =>
                 /\ SettleRecovery(c) \in CoreStates /\ Goes(c, SettleRecovery(c))
                 /\ Turns(c, d, Stay(SettleRecovery(c)))
                 /\ Turns(c, d, ObserveOrPlan(SettleRecovery(c), d))
<1> DEFINE n == SettleRecovery(c)
<1>1. /\ Turns(c, d, AnimationTick(c, d))
      /\ c.phase = "Applying" => AnimationTick(c, d).next.phase = "Applying"
  <2>1. CASE AcceptsObservation(c)
    <3>1. AnimationTick(c, d)
            \in {StartBoundaryRefreshObservation(c), ObserveOrPlan(c, d)}
      BY <2>1 DEF AnimationTick
    <3>2. c.phase # "Applying"
      BY <2>1 DEF AcceptsObservation
    <3> QED BY <2>1, <3>1, <3>2, BoundaryTurns, ObserveOrPlanTurns
  <2>2. CASE ~AcceptsObservation(c)
    <3>1. AnimationTick(c, d) = Stay(c) /\ Stay(c).next = c
      BY <2>2 DEF AnimationTick, Stay
    <3> QED BY <3>1, StayTurns
  <2> QED BY <2>1, <2>2
<1>2. ASSUME c.phase = "Recovering"
      PROVE  /\ n \in CoreStates /\ Goes(c, n)
             /\ Turns(c, d, Stay(n)) /\ Turns(c, d, ObserveOrPlan(n, d))
  <2>1. n \in CoreStates /\ n.phase \in {"Primed", "Ready"}
        /\ n.ledger = c.ledger /\ n.proposals = c.proposals
    BY Phases DEF SettleRecovery, CoreStates
  <2> HIDE DEF n
  <2>2. Goes(c, n) /\ AcceptsObservation(n)
    BY <2>1, FieldTypes DEF Goes, AcceptsObservation
  <2> QED BY <2>1, <2>2, StayTurns, ObserveOrPlanTurns
<1> QED BY <1>1, <1>2

\* A timer that fires.
LEMMA TimerFiredSteers ==
    ASSUME NEW c, Sane(c), NEW e \in Events, NEW d \in Decisions,
           e.type = "TimerFired"
    PROVE  Steers(c, e, d, ReduceTimerFired(c, e, d))
<1> DEFINE b == Disarm(c, e.timer)
           t == ReduceTimerFired(c, e, d)
<1>1. /\ e.timer \in TimerIds /\ e.due \in BOOLEAN
      /\ c \in CoreStates /\ b \in CoreStates /\ Aside(c, b)
  BY EventFields, DisarmAside DEF Sane, CoreInv
<1>2. t = IF ~IsActive(c, e) THEN Stay(c)
          ELSE CASE e.timer = "Animation" -> AnimationTick(b, d)
                 [] e.timer = "Ingress"   -> IngressTimerSignal(b, e.due)
                 [] e.timer = "Recovery"  ->
                       IF c.phase = "Recovering"
                       THEN ObserveOrPlan(SettleRecovery(b), d)
                       ELSE Stay(b)
                 [] e.timer = "Cleanup"   -> EmitCleanupOrArm(b, e.due)
  BY DEF ReduceTimerFired
<1> SUFFICES Steers(c, e, d, t)
  OBVIOUS
<1> HIDE DEF b, t
<1>3. Goes(c, b) /\ b.phase = c.phase /\ ~Distrusts(c, e)
  BY <1>1, AsideGoes, OthersTrust DEF Aside
<1>4. CASE IsActive(c, e) /\ e.timer = "Cleanup"
  <2>1. t = EmitCleanupOrArm(b, e.due)
    BY <1>2, <1>4
  <2>2. t.next.phase = c.phase
        /\ \/ Turns(b, d, t)
           \/ \E f : f.type = "ApplyRenderCleanup"
                     /\ t = [next |-> b, effects |-> <<f>>]
    BY <1>1, <1>3, <2>1, EmitTurns
  <2>3. CASE Turns(b, d, t)
    BY <1>1, <1>3, <2>2, <2>3, StayTurns, TurnsSteers
  <2>4. CASE \E f : f.type = "ApplyRenderCleanup" /\ t = [next |-> b, effects |-> <<f>>]
    <3>1. PICK f : f.type = "ApplyRenderCleanup" /\ t = [next |-> b, effects |-> <<f>>]
      BY <2>4
    <3>2. t.next = b /\ t.effects = <<f>>
      BY <3>1
    <3> QED BY <1>3, <3>1, <3>2, ShowsSteers
  <2> QED BY <2>2, <2>3, <2>4
<1>5. CASE ~IsActive(c, e)
  BY <1>1, <1>2, <1>3, <1>5, StayTurns, TurnsSteers DEF Stay
<1>6. CASE IsActive(c, e) /\ e.timer # "Cleanup"
  <2>1. Turns(b, d, t) /\ (b.phase = "Applying" => t.next.phase = "Applying")
    <3>1. CASE e.timer = "Animation"
      BY <1>1, <1>2, <1>6, <3>1, TickTurns
    <3>2. CASE e.timer = "Ingress"
      BY <1>1, <1>2, <1>6, <3>2, IngressTurns
    <3>3. CASE e.timer = "Recovery"
      BY <1>1, <1>2, <1>3, <1>6, <3>3, TickTurns, StayTurns DEF Stay
    <3> QED BY <1>1, <1>6, <3>1, <3>2, <3>3 DEF TimerIds
  <2> QED BY <1>1, <1>3, <2>1, StayTurns, TurnsSteers
<1> QED BY <1>4, <1>5, <1>6

\* A timer that is lost.
LEMMA TimerLostSteers ==
    ASSUME NEW c, Sane(c), NEW e \in Events, NEW d \in Decisions,
           e.type = "TimerLost"
    PROVE  Steers(c, e, d, ReduceTimerLost(c, e))
<1> DEFINE b     == Disarm(c, e.timer)
           still == [b EXCEPT !.animating = FALSE]
           owed  == b.cleanup.thermal # "Cold"
           k     == [b.cleanup EXCEPT !.quiesced = owed]
           quiet == [b EXCEPT !.cleanup = k]
           f     == [type |-> "ApplyRenderCleanup", execution |-> "SoftClear"]
           g     == [type |-> "ApplyRenderCleanup",
                     execution |-> IF b.cleanup.thermal = "Hot" THEN "SoftClear"
                                                                ELSE "Compact"]
           clean == CleanupEffects(b, e.due)
           t     == ReduceTimerLost(c, e)
<1>1. /\ e.timer \in TimerIds /\ e.due \in BOOLEAN
      /\ c \in CoreStates /\ b \in CoreStates /\ Aside(c, b)
  BY EventFields, DisarmAside DEF Sane, CoreInv
<1>2. t = IF ~IsActive(c, e) THEN Stay(c)
          ELSE CASE e.timer = "Animation" ->
                       IF ~AcceptsObservation(c) THEN Stay(b)
                       ELSE [next |-> still, effects |-> <<f>>]
                 [] e.timer = "Ingress"   -> IngressDelayOver(b)
                 [] e.timer = "Recovery"  ->
                       Stay(IF c.phase = "Recovering" THEN SettleRecovery(b) ELSE b)
                 [] e.timer = "Cleanup"   ->
                       [next |-> quiet, effects |-> clean]
  BY DEF ReduceTimerLost
<1>3. clean \in {<<>>, <<g>>} /\ f.type = "ApplyRenderCleanup"
      /\ g.type = "ApplyRenderCleanup"
  BY DEF CleanupEffects
<1> SUFFICES Steers(c, e, d, t)
  OBVIOUS
<1> HIDE DEF b, t, f, g, clean, owed
<1>4. /\ Goes(c, b) /\ b.phase = c.phase /\ ~Distrusts(c, e)
      /\ Goes(c, still) /\ still.phase = c.phase
      /\ Goes(c, quiet) /\ quiet.phase = c.phase
  <2>1. Aside(b, still) /\ Aside(b, quiet)
    <3> HIDE DEF k
    <3> QED BY <1>1 DEF CoreStates, Aside
  <2> HIDE DEF still, quiet
  <2>2. Aside(c, still) /\ Aside(c, quiet)
    BY <1>1, <2>1 DEF Aside
  <2> QED BY <1>1, <2>2, AsideGoes, OthersTrust DEF Aside
<1> HIDE DEF still, quiet, k
<1>5. CASE ~IsActive(c, e)
  BY <1>1, <1>2, <1>4, <1>5, StayTurns, TurnsSteers DEF Stay
<1>6. CASE IsActive(c, e) /\ e.timer = "Animation" /\ AcceptsObservation(c)
  <2>1. t.next = still /\ t.effects = <<f>>
    BY <1>2, <1>6
  <2> QED BY <1>3, <1>4, <2>1, ShowsSteers
<1>7. CASE IsActive(c, e) /\ e.timer = "Cleanup"
  <2>1. t.next = quiet /\ t.effects = clean
    BY <1>2, <1>7
  <2>2. CASE clean = <<g>>
    BY <1>3, <1>4, <2>1, <2>2, ShowsSteers
  <2>3. CASE clean = <<>>
    <3>1. Turns(c, d, t)
      BY <1>4, <2>1, <2>3, FewEffects DEF Turns, Mute
    <3> QED BY <1>4, <2>1, <3>1, TurnsSteers
  <2> QED BY <1>3, <2>2, <2>3
<1>8. CASE /\ IsActive(c, e) /\ e.timer # "Cleanup"
           /\ ~(e.timer = "Animation" /\ AcceptsObservation(c))
  <2>1. Turns(b, d, t) /\ (b.phase = "Applying" => t.next.phase = "Applying")
    <3>1. CASE e.timer = "Animation"
      BY <1>1, <1>2, <1>8, <3>1, StayTurns DEF Stay
    <3>2. CASE e.timer = "Ingress"
      BY <1>1, <1>2, <1>8, <3>2, IngressTurns
    <3>3. CASE e.timer = "Recovery"
      <4>1. CASE c.phase = "Recovering"
        BY <1>1, <1>2, <1>4, <1>8, <3>3, <4>1, TickTurns
      <4>2. CASE c.phase # "Recovering"
        BY <1>1, <1>2, <1>8, <3>3, <4>2, StayTurns DEF Stay
      <4> QED BY <4>1, <4>2
    <3> QED BY <1>1, <1>8, <3>1, <3>2, <3>3 DEF TimerIds
  <2> QED BY <1>1, <1>4, <2>1, StayTurns, TurnsSteers
<1> QED BY <1>5, <1>6, <1>7, <1>8

\* Whatever is handled, the screen is asked for by what the core waits for.
THEOREM ReduceSteers ==
    ASSUME NEW c, Sane(c), NEW e \in Events, NEW d \in Decisions
    PROVE  Steers(c, e, d, Reduce(c, e, d))
<1>1. e.type \in {"Initialize", "ExternalDemandQueued",
                  "ObservationBaseCollected", "ProbeReported",
                  "RenderPlanComputed", "RenderPlanFailed", "ApplyReported",
                  "RenderCleanupApplied", "RetainedResourcesObserved",
                  "EffectFailed", "TimerFired", "TimerLost"}
  BY DEF Events, EditorEvents, ShellEvents
<1> QED BY <1>1, InitializeSteers, ExternalDemandQueuedSteers,
           ObservationBaseCollectedSteers, ProbeReportedSteers,
           RenderPlanComputedSteers, RenderPlanFailedSteers, ApplyReportedSteers,
           RenderCleanupAppliedSteers, RetainedResourcesSteers,
           EffectFailedSteers, TimerFiredSteers, TimerLostSteers
        DEF Reduce

-----------------------------------------------------------------------------
(* The queue. *)

\* What touches the screen is a batch of its own,
Solo(s) == (\E f \in Range(s) : Shows(f)) => Len(s) = 1

\* ... throughout the queue,
AllSolo(w) == \A x \in Range(w) : x.item = "batch" => Solo(x.effects)

NoApply(F) == \A f \in F : ~IsApply(f)

\* ... and one batch of the queue applies a proposal at most.
HoldsApply(x) == x.item = "batch" /\ ~NoApply(Range(x.effects))

Single(w) ==
    \A i, j \in DOMAIN w : HoldsApply(w[i]) /\ HoldsApply(w[j]) => i = j

\* A proposal is queued where a batch applies it.
LEMMA AppliesAreHeld ==
    ASSUME NEW w
    PROVE  NoApply(QueuedEffects(w)) <=> \A i \in DOMAIN w : ~HoldsApply(w[i])
<1>1. ASSUME NoApply(QueuedEffects(w)), NEW i \in DOMAIN w
      PROVE  ~HoldsApply(w[i])
  <2>1. w[i].item = "batch" => Range(w[i].effects) \subseteq QueuedEffects(w)
    BY DEF QueuedEffects
  <2> QED BY <1>1, <2>1 DEF HoldsApply, NoApply
<1>2. ASSUME \A i \in DOMAIN w : ~HoldsApply(w[i])
      PROVE  NoApply(QueuedEffects(w))
  BY <1>2 DEF HoldsApply, NoApply, QueuedEffects
<1> QED BY <1>1, <1>2

\* The oldest item is taken,
LEMMA SingleRest ==
    ASSUME NEW w \in Seq(WorkItems), w # <<>>, Single(w)
    PROVE  /\ Single(Tail(w))
           /\ HoldsApply(Head(w)) => NoApply(QueuedEffects(Tail(w)))
<1> DEFINE r == Tail(w)
<1>1. /\ DOMAIN w = 1 .. Len(w) /\ Len(w) \in Nat \ {0}
      /\ DOMAIN r = 1 .. Len(w) - 1
      /\ Head(w) = w[1] /\ \A i \in DOMAIN r : r[i] = w[i + 1]
  BY HeadTailProperties, LenProperties
<1> HIDE DEF r
<1>2. ASSUME NEW i \in DOMAIN r, NEW j \in DOMAIN r, HoldsApply(r[i]), HoldsApply(r[j])
      PROVE  i = j
  <2>1. i + 1 \in DOMAIN w /\ j + 1 \in DOMAIN w /\ w[i + 1] = r[i] /\ w[j + 1] = r[j]
    BY <1>1
  <2>2. i + 1 = j + 1
    BY <1>2, <2>1 DEF Single
  <2> QED BY <1>1, <2>2
<1>3. ASSUME HoldsApply(Head(w)), NEW i \in DOMAIN r
      PROVE  ~HoldsApply(r[i])
  <2>1. i + 1 \in DOMAIN w /\ w[i + 1] = r[i] /\ 1 \in DOMAIN w /\ i + 1 # 1
    BY <1>1
  <2> QED BY <1>1, <1>3, <2>1 DEF Single
<1>4. Single(r) /\ (HoldsApply(Head(w)) => NoApply(QueuedEffects(r)))
  BY <1>2, <1>3, AppliesAreHeld DEF Single
<1> QED BY <1>4 DEF r

\* ... newer ones go to the back,
LEMMA SingleJoined ==
    ASSUME NEW w \in Seq(WorkItems), NEW v \in Seq(WorkItems),
           Single(w), Single(v),
           NoApply(QueuedEffects(w)) \/ NoApply(QueuedEffects(v))
    PROVE  Single(w \o v)
<1> DEFINE q == w \o v
<1>1. /\ DOMAIN w = 1 .. Len(w) /\ Len(w) \in Nat
      /\ DOMAIN v = 1 .. Len(v) /\ Len(v) \in Nat
      /\ DOMAIN q = 1 .. Len(w) + Len(v)
      /\ \A i \in DOMAIN w : q[i] = w[i]
      /\ \A i \in DOMAIN q : i \notin DOMAIN w => i - Len(w) \in DOMAIN v /\ q[i] = v[i - Len(w)]
  BY ConcatProperties, LenProperties
<1> HIDE DEF q
<1>2. \/ \A i \in DOMAIN w : ~HoldsApply(w[i])
      \/ \A i \in DOMAIN v : ~HoldsApply(v[i])
  BY AppliesAreHeld
<1>3. ASSUME NEW i \in DOMAIN q, NEW j \in DOMAIN q, HoldsApply(q[i]), HoldsApply(q[j])
      PROVE  i = j
  <2>1. CASE i \in DOMAIN w /\ j \in DOMAIN w
    BY <1>1, <1>3, <2>1 DEF Single
  <2>2. CASE i \notin DOMAIN w /\ j \notin DOMAIN w
    <3>1. i - Len(w) = j - Len(w)
      BY <1>1, <1>3, <2>2 DEF Single
    <3> QED BY <1>1, <3>1
  <2>3. CASE i \in DOMAIN w /\ j \notin DOMAIN w
    BY <1>1, <1>2, <1>3, <2>3
  <2>4. CASE i \notin DOMAIN w /\ j \in DOMAIN w
    BY <1>1, <1>2, <1>3, <2>4
  <2> QED BY <2>1, <2>2, <2>3, <2>4
<1>4. Single(q)
  BY <1>3 DEF Single
<1> QED BY <1>4 DEF q

\* ... and what touches the screen is not split.
LEMMA SplitIsSolo ==
    ASSUME NEW s \in Seq(Effects), \A f \in Range(s) : Shows(f) => s = <<f>>
    PROVE  AllSolo(SplitEffectBatch(s)) /\ Single(SplitEffectBatch(s))
<1> DEFINE v == SplitEffectBatch(s)
<1>1. CASE \A f \in Range(s) : ~Shows(f)
  <2>1. QueuedEffects(v) \subseteq Range(s)
    BY SplitAddsNothing
  <2> HIDE DEF v
  <2>2. ASSUME NEW x \in Range(v), x.item = "batch"
        PROVE  Range(x.effects) \subseteq QueuedEffects(v)
    BY <2>2 DEF QueuedEffects, Range
  <2>3. AllSolo(v)
    BY <1>1, <2>1, <2>2 DEF AllSolo, Solo
  <2>4. NoApply(QueuedEffects(v))
    BY <1>1, <2>1 DEF NoApply, IsApply, Shows
  <2>5. Single(v)
    BY <2>4, AppliesAreHeld DEF Single
  <2> QED BY <2>3, <2>5 DEF v
<1>2. ASSUME NEW f \in Range(s), Shows(f)
      PROVE  AllSolo(v) /\ Single(v)
  <2> DEFINE b == SubSeq(s, 1, Len(s))
             x == Batch(b)
  <2>1. s = <<f>>
    BY <1>2
  <2>2. Len(s) = 1 /\ s[1] = f /\ DOMAIN s = {1}
    BY <2>1
  <2>3. \A j \in DOMAIN s : s[j].type \notin ShellOnlyEffects
    BY <1>2, <2>2 DEF Shows, ShellOnlyEffects
  <2>4. {j \in DOMAIN s : s[j].type \in ShellOnlyEffects} = {}
    BY <2>3
  <2>5. v = <<x>>
    BY <2>2, <2>4 DEF SplitEffectBatch
  <2>6. Len(b) = 1
    BY <2>2, SubSeqProperties, LenProperties
  <2> HIDE DEF b
  <2>7. x.item = "batch" /\ x.effects = b
    BY DEF Batch
  <2> HIDE DEF x, v
  <2>8. Range(v) = {x} /\ DOMAIN v = {1}
    BY <2>5, FewEffects
  <2> QED BY <2>6, <2>7, <2>8 DEF AllSolo, Solo, Single
<1> QED BY <1>1, <1>2

-----------------------------------------------------------------------------
(* The invariant. *)

\* Reports after which the ledger may be another.
Settles(e) == IsAnswer(e) \/ e.type = "RenderCleanupApplied"

\* A failure of the drain is alone at the front of the queue.
FailureLeads ==
    /\ batch = <<>> /\ followUps = <<>> /\ NoApply(QueuedEffects(work))
    /\ Head(work).item = "event"
    /\ \A r \in QueuedEvents(Tail(work)) : ~Aborts(r)

\* What touches the screen is done alone, and one proposal is on its way.
Lined ==
    /\ AllSolo(work) /\ Single(work) /\ Solo(batch)
    /\ NoApply(Range(batch)) \/ NoApply(QueuedEffects(work))
    /\ \A r \in Range(followUps) : Settles(r) => batch = <<>>
    /\ \A r \in QueuedEvents(work) : r.type = "ProbeReported" \/ Aborts(r)
    /\ \A r \in QueuedEvents(work) : Aborts(r) => FailureLeads

\* It is the one the core waits for, until it is answered.
Current ==
    /\ core.phase \in {"Planning", "Applying"} => core.proposal.id \in 1 .. core.proposals
    /\ \A f \in PendingEffects : IsApply(f) =>
          core.phase = "Applying" /\ f.proposal = core.proposal
    /\ \A r \in Range(followUps) : IsAnswer(r) =>
          /\ r.id \in 1 .. core.proposals
          /\ core.phase = "Planning" => r.id # core.proposal.id
          /\ Answers(core, r) => NoApply(PendingEffects)
    /\ core.phase = "Idle" => core.ledger.kind # "Consistent"

ProposalInv == TypeInv /\ Lined /\ Current

\* Events that come from outside the queue.
IsOutside(e) == e.type \in {"Initialize", "ExternalDemandQueued", "TimerFired"}

\* Event e, next in turn, is reduced between two batches.
Steered(e, d) ==
    /\ e \in Events /\ d \in PlanChoices
    /\ core' = Reduce(core, e, d).next
    /\ batch = <<>> /\ batch' = <<>> /\ screen' = screen
    /\ \A r \in Range(followUps') : r \in Range(followUps) \/ r.type = "ProbeReported"
    /\ Range(followUps) \subseteq {e} \cup Range(followUps')
    /\ PendingEffects' \subseteq PendingEffects \cup Range(Reduce(core, e, d).effects)
    /\ \/ IsOutside(e)
       \/ e \in Range(followUps)
       \/ e \in QueuedEvents(work) /\ followUps = <<>>
    /\ Lined'

\* The core is in a state its handlers are meant for.
LEMMA CurrentIsSane ==
    ASSUME ProposalInv
    PROVE  Sane(core) /\ core.proposals \in Nat
<1>1. CoreInv(core)
  BY DEF ProposalInv, TypeInv
<1>2. core.proposals \in Nat
  BY <1>1, FieldTypes DEF CoreInv
<1>3. core.phase = "Applying" => core.proposal.id # 0
  BY <1>2 DEF ProposalInv, Current
<1> QED BY <1>1, <1>2, <1>3 DEF ProposalInv, Current, Sane

\* Nothing is given up that is still to be applied.
LEMMA EndsNothing ==
    ASSUME ProposalInv, NEW e, Ends(core, e),
           \/ IsOutside(e)
           \/ e \in Range(followUps)
           \/ e \in QueuedEvents(work) /\ followUps = <<>>
    PROVE  /\ NoApply(PendingEffects)
           /\ Aborts(e) => e \in QueuedEvents(work) /\ followUps = <<>>
           /\ Answers(core, e) /\ ~Aborts(e) => e \in Range(followUps)
<1>1. ~IsOutside(e)
  BY DEF Ends, Answers, IsAnswer, Aborts, IsOutside
<1>2. CASE e \in Range(followUps)
  <2>1. IsAnswer(e)
    BY DEF Ends, Answers, IsAnswer, Aborts
  <2>2. e.id \in 1 .. core.proposals /\ (Answers(core, e) => NoApply(PendingEffects))
    BY <1>2, <2>1 DEF ProposalInv, Current
  <2>3. ~Aborts(e)
    BY <2>2 DEF Aborts
  <2> QED BY <1>2, <2>2, <2>3 DEF Ends
<1>3. CASE e \in QueuedEvents(work) /\ followUps = <<>>
  <2>1. Aborts(e)
    <3>1. e.type = "ProbeReported" => ~Ends(core, e)
      BY DEF Ends, Answers, IsAnswer, Aborts
    <3> QED BY <1>3, <3>1 DEF ProposalInv, Lined
  <2>2. FailureLeads
    BY <1>3, <2>1 DEF ProposalInv, Lined
  <2>3. NoApply(PendingEffects)
    BY <2>2, PendingIs, FewEffects DEF FailureLeads, NoApply
  <2> QED BY <1>3, <2>1, <2>3
<1> QED BY <1>1, <1>2, <1>3

\* A plan is computed by the running unit.
LEMMA ComputedFollows ==
    ASSUME ProposalInv, NEW e, Computed(core, e),
           \/ IsOutside(e)
           \/ e \in Range(followUps)
           \/ e \in QueuedEvents(work) /\ followUps = <<>>
    PROVE  e \in Range(followUps)
  BY DEF Computed, IsOutside, ProposalInv, Lined, Aborts

\* Reducing an event keeps what is applied current.
LEMMA SteeredCurrent ==
    ASSUME ProposalInv, NEW e, NEW d, Steered(e, d)
    PROVE  Current'
<1> DEFINE t == Reduce(core, e, d)
<1>1. /\ Steers(core, e, d, t) /\ core' = t.next
      /\ PendingEffects' \subseteq PendingEffects \cup Range(t.effects)
      /\ \A r \in Range(followUps') : IsAnswer(r) => r \in Range(followUps)
  <2>1. d \in Decisions
    BY BoundsAssumption DEF Steered, PlanChoices
  <2>2. Steers(core, e, d, t)
    BY <2>1, CurrentIsSane, ReduceSteers DEF Steered
  <2> QED BY <2>2 DEF Steered, IsAnswer
<1>2. /\ Ends(core, e) => NoApply(PendingEffects)
      /\ core.proposals \in Nat
  BY EndsNothing, CurrentIsSane DEF Steered
<1> HIDE DEF t
<1>3. core'.phase = "Applying" /\ core.phase = "Planning" =>
         core'.proposal.id = core.proposal.id
  BY <1>1 DEF Steers, Computed
<1>4. core'.phase = "Applying" =>
         \/ core.phase = "Applying" /\ core'.proposal = core.proposal
         \/ core.phase = "Planning"
  BY <1>1 DEF Steers, Computed
<1>5. /\ core'.proposals \in Nat /\ core.proposals <= core'.proposals
      /\ core'.phase \in {"Planning", "Applying"} =>
            core'.proposal.id \in 1 .. core'.proposals
  <2>1. core'.proposals \in Nat /\ core.proposals <= core'.proposals
    BY <1>1 DEF Steers
  <2>2. CASE core'.phase = "Planning"
    BY <1>1, <1>2, <2>1, <2>2 DEF Steers, ProposalInv, Current
  <2>3. CASE core'.phase = "Applying"
    BY <1>2, <1>3, <1>4, <2>1, <2>3 DEF ProposalInv, Current
  <2> QED BY <2>1, <2>2, <2>3
<1>6. ASSUME NEW f \in PendingEffects', IsApply(f)
      PROVE  core'.phase = "Applying" /\ f.proposal = core'.proposal
  <2>1. CASE f \in PendingEffects
    <3>1. core.phase = "Applying" /\ f.proposal = core.proposal
      BY <1>6, <2>1 DEF ProposalInv, Current
    <3>2. ~Ends(core, e)
      BY <1>2, <1>6, <2>1 DEF NoApply
    <3>3. core'.phase = "Applying"
      BY <1>1, <3>1, <3>2 DEF Steers
    <3> QED BY <1>4, <3>1, <3>3
  <2>2. CASE f \in Range(t.effects)
    BY <1>1, <1>6, <2>2 DEF Steers
  <2> QED BY <1>1, <2>1, <2>2
<1>7. ASSUME NEW r \in Range(followUps'), IsAnswer(r)
      PROVE  /\ r.id \in 1 .. core'.proposals
             /\ core'.phase = "Planning" => r.id # core'.proposal.id
             /\ Answers(core', r) => NoApply(PendingEffects')
  <2>1. /\ r.id \in 1 .. core.proposals
        /\ core.phase = "Planning" => r.id # core.proposal.id
        /\ Answers(core, r) => NoApply(PendingEffects)
    BY <1>1, <1>7 DEF ProposalInv, Current
  <2>2. core'.phase = "Planning" => r.id # core'.proposal.id
    <3>1. core'.phase = "Planning" =>
             \/ core.phase = "Planning" /\ core'.proposal = core.proposal
             \/ core'.proposal.id \in core.proposals + 1 .. core'.proposals
      BY <1>1 DEF Steers
    <3> QED BY <1>2, <1>5, <2>1, <3>1
  <2>3. ASSUME Answers(core', r)
        PROVE  NoApply(PendingEffects')
    <3>1. core'.phase = "Applying" /\ r.id = core'.proposal.id
      BY <2>3 DEF Answers
    <3>2. core.phase = "Applying" /\ core'.proposal = core.proposal
      BY <1>3, <1>4, <2>1, <3>1
    <3>3. NoApply(PendingEffects)
      BY <1>7, <2>1, <3>1, <3>2 DEF Answers
    <3>4. NoApply(Range(t.effects))
      BY <1>1, <3>2 DEF Steers, Computed, NoApply
    <3> QED BY <1>1, <3>3, <3>4 DEF NoApply
  <2> QED BY <1>2, <1>5, <2>1, <2>2, <2>3
<1>8. core'.phase = "Idle" => core'.ledger.kind # "Consistent"
  BY <1>1 DEF Steers, ProposalInv, Current
<1> QED BY <1>5, <1>6, <1>7, <1>8 DEF Current

-----------------------------------------------------------------------------
(* The steps that reduce an event. *)

\* What a handler stages goes to the back of the queue, one batch at most to
\* touch the screen.
LEMMA StagedSolo ==
    ASSUME ProposalInv, NEW e \in Events, NEW d \in PlanChoices,
           Reduced(e, Reduce(core, e, d)),
           \/ IsOutside(e)
           \/ e \in Range(followUps)
           \/ e \in QueuedEvents(work) /\ followUps = <<>>
    PROVE  LET s == Reduce(core, e, d).effects
               v == SplitEffectBatch(s)
               w == StageBatch(s)
           IN /\ v \in Seq(WorkItems) /\ w = work \o v /\ w \in Seq(WorkItems)
              /\ AllSolo(w) /\ Single(w)
              /\ QueuedEvents(v) = {} /\ QueuedEvents(w) = QueuedEvents(work)
              /\ QueuedEffects(v) \subseteq Range(s)
              /\ QueuedEffects(w) = QueuedEffects(work) \cup QueuedEffects(v)
              /\ \A r \in QueuedEvents(work) : Aborts(r) => NoApply(QueuedEffects(w))
<1> DEFINE s == Reduce(core, e, d).effects
           v == SplitEffectBatch(s)
           w == work \o v
<1>1. s \in Seq(Effects) /\ work \in Seq(WorkItems)
  BY ReducedTyped DEF ProposalInv, TypeInv, TypeOK
<1>2. Steers(core, e, d, Reduce(core, e, d))
  BY BoundsAssumption, CurrentIsSane, ReduceSteers DEF PlanChoices
<1>3. /\ \A f \in Range(s) : Shows(f) => s = <<f>>
      /\ ~NoApply(Range(s)) => Computed(core, e)
  BY <1>2 DEF Steers, NoApply
<1> HIDE DEF s
<1>4. /\ v \in Seq(WorkItems) /\ QueuedEvents(v) = {} /\ QueuedEffects(v) \subseteq Range(s)
      /\ AllSolo(v) /\ Single(v)
  BY <1>1, <1>3, SplitTyped, SplitStagesNoEvent, SplitAddsNothing, SplitIsSolo
<1> HIDE DEF v
<1>5. /\ w \in Seq(WorkItems) /\ Range(w) = Range(work) \cup Range(v)
      /\ QueuedEvents(w) = QueuedEvents(work) \cup QueuedEvents(v)
      /\ QueuedEffects(w) = QueuedEffects(work) \cup QueuedEffects(v)
  <2>1. work \in Seq(WorkItems) /\ v \in Seq(WorkItems)
    BY <1>1, <1>4
  <2>2. Range(w) = Range(work) \cup Range(v)
    BY <2>1, RangeOfParts
  <2>3. w \in Seq(WorkItems)
    BY <2>1
  <2> QED BY <2>1, <2>2, <2>3, JoinedQueues
<1>6. ~NoApply(QueuedEffects(v)) => Computed(core, e)
  BY <1>3, <1>4 DEF NoApply
<1>7. Computed(core, e) => NoApply(QueuedEffects(work)) /\ followUps # <<>>
  <2>1. Computed(core, e) => NoApply(PendingEffects)
    BY DEF Computed, ProposalInv, Current, NoApply
  <2>2. Computed(core, e) => e \in Range(followUps)
    BY ComputedFollows
  <2> QED BY <2>1, <2>2, PendingIs, FewEffects DEF NoApply
<1>8. Single(w)
  BY <1>1, <1>4, <1>6, <1>7, SingleJoined DEF ProposalInv, Lined
<1>9. AllSolo(w)
  BY <1>4, <1>5 DEF ProposalInv, Lined, AllSolo
<1>10. ASSUME NEW r \in QueuedEvents(work), Aborts(r)
       PROVE  NoApply(QueuedEffects(w))
  <2>1. followUps = <<>> /\ NoApply(QueuedEffects(work))
    BY <1>10 DEF ProposalInv, Lined, FailureLeads
  <2>2. NoApply(QueuedEffects(v))
    BY <1>6, <1>7, <2>1
  <2> QED BY <1>5, <2>1, <2>2 DEF NoApply
<1>11. StageBatch(s) = w
  BY DEF StageBatch, v
<1>12. QueuedEvents(w) = QueuedEvents(work)
  BY <1>4, <1>5
<1> QED BY <1>4, <1>5, <1>8, <1>9, <1>10, <1>11, <1>12 DEF v, s

\* An event of the editor or of a timer,
LEMMA DispatchSteered ==
    ASSUME ProposalInv, NEW e \in Events, IsOutside(e), Dispatch(e), BetweenUnits,
           UNCHANGED <<batch, followUps, screen>>
    PROVE  \E d \in PlanChoices : Steered(e, d)
<1>1. PICK d \in PlanChoices : /\ Reduced(e, Reduce(core, e, d))
                               /\ work' = StageBatch(Reduce(core, e, d).effects)
  BY DEF Dispatch
<1> DEFINE t == Reduce(core, e, d)
           v == SplitEffectBatch(t.effects)
<1>2. /\ v \in Seq(WorkItems) /\ work' = work \o v /\ work' \in Seq(WorkItems)
      /\ AllSolo(work') /\ Single(work')
      /\ QueuedEvents(v) = {} /\ QueuedEvents(work') = QueuedEvents(work)
      /\ QueuedEffects(v) \subseteq Range(t.effects)
      /\ QueuedEffects(work') = QueuedEffects(work) \cup QueuedEffects(v)
      /\ \A r \in QueuedEvents(work) : Aborts(r) => NoApply(QueuedEffects(work'))
  BY <1>1, StagedSolo
<1>3. batch = <<>> /\ batch' = <<>> /\ followUps = <<>> /\ followUps' = <<>>
  BY DEF BetweenUnits
<1>4. core' = t.next
  BY <1>1 DEF Reduced
<1> HIDE DEF t, v
<1>5. PendingEffects' \subseteq PendingEffects \cup Range(t.effects)
  BY <1>2, <1>3, PendingIs DEF PendingEffects, QueuedEffects
<1>6. ASSUME NEW r \in QueuedEvents(work), Aborts(r)
      PROVE  FailureLeads'
  <2>1. Head(work).item = "event" /\ \A q \in QueuedEvents(Tail(work)) : ~Aborts(q)
    BY <1>6 DEF ProposalInv, Lined, FailureLeads
  <2>2. work # <<>> /\ work \in Seq(WorkItems)
    BY <1>6 DEF QueuedEvents, ProposalInv, TypeInv, TypeOK
  <2>3. Head(work') = Head(work) /\ Tail(work') = Tail(work) \o v
        /\ Tail(work) \in Seq(WorkItems)
    BY <1>2, <2>2
  <2>4. QueuedEvents(Tail(work')) = QueuedEvents(Tail(work)) \cup QueuedEvents(v)
    BY <1>2, <2>3, JoinedQueues
  <2> QED BY <1>2, <1>3, <1>6, <2>1, <2>3, <2>4 DEF FailureLeads, QueuedEffects, QueuedEvents
<1>7. Lined'
  <2>1. Solo(<<>>) /\ NoApply(Range(<<>>)) /\ Range(<<>>) = {}
    BY FewEffects DEF Solo, NoApply
  <2>2. \A r \in QueuedEvents(work)' : r \in QueuedEvents(work)
    BY <1>2 DEF QueuedEvents
  <2> QED BY <1>2, <1>3, <1>6, <2>1, <2>2 DEF Lined, ProposalInv, AllSolo, Single, QueuedEvents
<1> QED BY <1>3, <1>4, <1>5, <1>7, FewEffects DEF Steered, t

\* ... a staged event, which leaves the queue with the failure it may be,
LEMMA DispatchStagedSteered ==
    ASSUME ProposalInv, DispatchStaged
    PROVE  \E e \in Events, d \in PlanChoices : Steered(e, d)
<1> DEFINE e == Head(work).event
<1>1. PICK d \in PlanChoices :
         /\ Reduced(e, Reduce(core, e, d))
         /\ work' = Tail(StageBatch(Reduce(core, e, d).effects))
  BY DEF DispatchStaged
<1> DEFINE t == Reduce(core, e, d)
           v == SplitEffectBatch(t.effects)
           w == StageBatch(t.effects)
<1>2. /\ work # <<>> /\ Head(work).item = "event" /\ e \in Events
      /\ work \in Seq(WorkItems)
      /\ batch = <<>> /\ batch' = <<>> /\ followUps = <<>> /\ followUps' = <<>>
      /\ screen' = screen
  BY HeadsTyped, ShellEventsAreEvents
  DEF DispatchStaged, BetweenUnits, ProposalInv, TypeInv, TypeOK
<1>3. e \in QueuedEvents(work)
  BY <1>2, OldestTaken
<1>4. core' = t.next
  BY <1>1 DEF Reduced
<1>5. /\ v \in Seq(WorkItems) /\ w = work \o v /\ w \in Seq(WorkItems)
      /\ AllSolo(w) /\ Single(w)
      /\ QueuedEvents(v) = {} /\ QueuedEvents(w) = QueuedEvents(work)
      /\ QueuedEffects(v) \subseteq Range(t.effects)
      /\ QueuedEffects(w) = QueuedEffects(work) \cup QueuedEffects(v)
  BY <1>1, <1>2, <1>3, StagedSolo
<1>6. work' = Tail(w)
  BY <1>1
<1> HIDE DEF t, v, w
<1>7. /\ w # <<>> /\ Head(w) = Head(work) /\ Tail(w) = Tail(work) \o v
      /\ Tail(work) \in Seq(WorkItems) /\ Tail(w) \in Seq(WorkItems)
  BY <1>2, <1>5
<1>8. /\ QueuedEffects(w) = QueuedEffects(work') /\ Single(work')
      /\ Range(w) = {Head(w)} \cup Range(work')
  BY <1>2, <1>5, <1>6, <1>7, OldestTaken, SingleRest, RangeOfParts
<1>9. QueuedEvents(work') = QueuedEvents(Tail(work))
  <2>1. work' = Tail(work) \o v /\ v \in Seq(WorkItems) /\ Tail(work) \in Seq(WorkItems)
    BY <1>5, <1>6, <1>7
  <2>2. QueuedEvents(Tail(work) \o v) = QueuedEvents(Tail(work)) \cup QueuedEvents(v)
    BY <2>1, JoinedQueues
  <2> QED BY <1>5, <2>1, <2>2
<1>10. QueuedEvents(Tail(work)) \subseteq QueuedEvents(work)
  BY <1>2, OldestTaken
<1>11. \A r \in QueuedEvents(work') : r.type = "ProbeReported" /\ ~Aborts(r)
  <2>1. \A r \in QueuedEvents(Tail(work)) : ~Aborts(r)
    BY <1>10 DEF ProposalInv, Lined, FailureLeads
  <2> QED BY <1>9, <1>10, <2>1 DEF ProposalInv, Lined
<1>12. Lined'
  <2>1. Solo(<<>>) /\ NoApply(Range(<<>>)) /\ Range(<<>>) = {}
    BY FewEffects DEF Solo, NoApply
  <2>2. \A r \in QueuedEvents(work)' : r.type = "ProbeReported" /\ ~Aborts(r)
    BY <1>11 DEF QueuedEvents
  <2>3. AllSolo(work')
    BY <1>5, <1>8 DEF AllSolo
  <2> QED BY <1>2, <1>8, <2>1, <2>2, <2>3 DEF Lined, AllSolo, Single, HoldsApply, NoApply
<1>13. PendingEffects' \subseteq PendingEffects \cup Range(t.effects)
  <2>1. PendingEffects' = Range(batch') \cup QueuedEffects(work')
    BY DEF PendingEffects, QueuedEffects
  <2> QED BY <1>2, <1>5, <1>8, <2>1, PendingIs
<1> HIDE DEF e
<1>14. Steered(e, d)
  BY <1>2, <1>3, <1>4, <1>12, <1>13, FewEffects DEF Steered, t
<1> QED BY <1>2, <1>14

\* ... and a follow-up event, with a probe that is answered in the same wave.
LEMMA DispatchFollowUpSteered ==
    ASSUME ProposalInv, DispatchFollowUp
    PROVE  \E e \in Events, d \in PlanChoices : Steered(e, d)
<1> DEFINE e == Head(followUps)
<1>1. PICK d \in PlanChoices :
         LET t == Reduce(core, e, d)
         IN /\ Reduced(e, t)
            /\ IF IsSameWaveProbe(e, t.effects)
               THEN \E report \in SameWaveReports(Head(t.effects), t.next.obs) :
                       /\ followUps' = <<report>> \o Tail(followUps)
                       /\ UNCHANGED work
               ELSE /\ followUps' = Tail(followUps)
                    /\ work' = StageBatch(t.effects)
  BY DEF DispatchFollowUp
<1> DEFINE t == Reduce(core, e, d)
           s == t.effects
           w == StageBatch(s)
<1>2. /\ followUps # <<>> /\ e \in Events
      /\ batch = <<>> /\ batch' = <<>> /\ screen' = screen
      /\ followUps \in Seq(ShellEvents) /\ Tail(followUps) \in Seq(ShellEvents)
      /\ work \in Seq(WorkItems)
  BY HeadsTyped, ShellEventsAreEvents
  DEF DispatchFollowUp, ProposalInv, TypeInv, TypeOK
<1>3. s \in Seq(Effects) /\ Reduced(e, t) /\ core' = t.next
  BY <1>1, <1>2, ReducedTyped DEF ProposalInv, Reduced
<1>4. Range(followUps) = {e} \cup Range(Tail(followUps))
  BY <1>2, RangeOfParts
<1>5. PendingEffects' = Range(batch') \cup QueuedEffects(work')
  BY DEF PendingEffects, QueuedEffects
<1>6. \A r \in QueuedEvents(work) : r.type = "ProbeReported" /\ ~Aborts(r)
  BY <1>2 DEF ProposalInv, Lined, FailureLeads
<1>7. CASE IsSameWaveProbe(e, s)
  <2>1. PICK report \in SameWaveReports(Head(s), t.next.obs) :
           followUps' = <<report>> \o Tail(followUps) /\ work' = work
    BY <1>1, <1>7
  <2>2. Len(s) = 1 /\ Head(s).type = "RequestProbe"
    BY <1>7 DEF IsSameWaveProbe
  <2> HIDE DEF t
  <2>3. report.type = "ProbeReported" /\ report \in ShellEvents
    <3>1. Head(s) \in Effects
      BY <1>3, <2>2
    <3> HIDE DEF s
    <3> QED BY <2>1, <2>2, <3>1, ProbeReportsTyped DEF SameWaveReports, ProbeReports
  <2> HIDE DEF s
  <2>4. Range(followUps') = {report} \cup Range(Tail(followUps))
    <3> DEFINE one  == <<report>>
               rest == Tail(followUps)
    <3>1. one \in Seq(ShellEvents) /\ rest \in Seq(ShellEvents) /\ Range(one) = {report}
      BY <1>2, <2>3, OneReply
    <3>2. followUps' = one \o rest
      BY <2>1
    <3> HIDE DEF one, rest
    <3>3. Range(one \o rest) = Range(one) \cup Range(rest)
      BY <3>1, RangeOfParts
    <3>4. Range(followUps') = {report} \cup Range(rest)
      BY <3>1, <3>2, <3>3
    <3> QED BY <3>4 DEF rest
  <2> HIDE DEF e
  <2>5. Lined'
    <3>1. \A r \in QueuedEvents(work)' : r.type = "ProbeReported" /\ ~Aborts(r)
      BY <1>6, <2>1 DEF QueuedEvents
    <3> QED BY <1>2, <2>1, <3>1
            DEF ProposalInv, Lined, AllSolo, Single, HoldsApply, NoApply, QueuedEffects
  <2>6. Steered(e, d)
    BY <1>2, <1>3, <1>4, <1>5, <2>1, <2>3, <2>4, <2>5, PendingIs DEF Steered, s, t
  <2> QED BY <1>2, <2>6
<1>8. CASE ~IsSameWaveProbe(e, s)
  <2>1. followUps' = Tail(followUps) /\ work' = w
    BY <1>1, <1>8
  <2>2. /\ AllSolo(w) /\ Single(w) /\ QueuedEvents(w) = QueuedEvents(work)
        /\ QueuedEffects(w) \subseteq QueuedEffects(work) \cup Range(s)
    BY <1>2, <1>3, <1>4, StagedSolo
  <2> HIDE DEF t, s, w, e
  <2>3. Lined'
    <3>1. \A r \in QueuedEvents(work)' : r.type = "ProbeReported" /\ ~Aborts(r)
      BY <1>6, <2>1, <2>2 DEF QueuedEvents
    <3>2. Solo(<<>>) /\ NoApply(Range(<<>>))
      BY FewEffects DEF Solo, NoApply
    <3> QED BY <1>2, <2>1, <2>2, <3>1, <3>2
            DEF Lined, AllSolo, Single, HoldsApply, NoApply
  <2>4. Steered(e, d)
    BY <1>2, <1>3, <1>4, <1>5, <2>1, <2>2, <2>3, PendingIs DEF Steered, s, t
  <2> QED BY <1>2, <2>4
<1> QED BY <1>7, <1>8

-----------------------------------------------------------------------------
(* The steps that execute an effect. *)

\* What the execution of f, answered with s, must do.
Answering(f, s) ==
    /\ ~Shows(f) => screen' = screen
    /\ \A r \in Range(s) :
          /\ Settles(r) => Shows(f)
          /\ IsAnswer(r) => IsApply(f) /\ r.id = f.proposal.id
          /\ r.type = "ApplyReported" /\ r.outcome = "full" =>
                screen' = ScreenAfter(f.proposal)
          /\ r.type = "RenderPlanComputed" =>
                f.type = "RequestRenderPlan" /\ r.proposal.exec = f.decision.exec
    /\ Shows(f) => \E r \in Range(s) :
          IF IsApply(f) THEN IsAnswer(r) ELSE r.type = "RenderCleanupApplied"

\* The first effect of the batch is executed and answered with s.
Executes(s) ==
    /\ batch # <<>> /\ s \in Seq(ShellEvents) /\ FollowedBy(s)
    /\ core' = core
    /\ Answering(Head(batch), s)

\* The batch is lost with all that is queued.
GivesUp == batch # <<>> /\ DrainFails /\ core' = core /\ screen' = screen

\* A report of retained resources may follow.
LEMMA RetainedExecutes ==
    ASSUME batch # <<>>, core' = core, NEW s \in Seq(ShellEvents),
           FollowedByWithRetained(s), Answering(Head(batch), s)
    PROVE  \E u : Executes(u)
<1>1. CASE FollowedBy(s)
  BY <1>1 DEF Executes
<1>2. ASSUME NEW due \in BOOLEAN, FollowedBy(Append(s, RetainedObserved(due)))
      PROVE  \E u : Executes(u)
  <2> DEFINE last == <<RetainedObserved(due)>>
             more == Append(s, RetainedObserved(due))
  <2>1. /\ RetainedObserved(due) \in ShellEvents
        /\ RetainedObserved(due).type = "RetainedResourcesObserved"
    BY DEF RetainedObserved, ShellEvents
  <2>2. /\ more = s \o last /\ more \in Seq(ShellEvents) /\ last \in Seq(ShellEvents)
        /\ Range(last) = {RetainedObserved(due)}
    BY <2>1, AppendIsConcat, OneReply
  <2>3. FollowedBy(more)
    BY <1>2
  <2> HIDE DEF more, last
  <2>4. Range(more) = Range(s) \cup {RetainedObserved(due)}
    BY <2>2, RangeOfParts
  <2>5. Answering(Head(batch), more)
    BY <2>1, <2>4 DEF Answering, Settles, IsAnswer
  <2> QED BY <2>2, <2>3, <2>5 DEF Executes
<1> QED BY <1>1, <1>2 DEF FollowedByWithRetained

\* Each effect is answered for what it did, or the drain fails.
LEMMA ExecuteAnswers ==
    ASSUME ProposalInv, ExecuteEffect
    PROVE  (\E s : Executes(s)) \/ GivesUp
<1> DEFINE f == Head(batch)
           Goal == (\E s : Executes(s)) \/ GivesUp
<1>1. batch # <<>> /\ f \in Effects /\ core' = core
  <2>1. batch # <<>> /\ core' = core
    BY DEF ExecuteEffect, ExecuteRequestObservationBase, ExecuteRequestProbe,
           ExecuteRequestRenderPlan, ExecuteApplyProposal, ExecuteApplyRenderCleanup,
           ExecuteScheduleTimer, ExecuteIngressCursorPresentation, Executing
  <2> QED BY <2>1, HeadsTyped DEF ProposalInv
<1> SUFFICES Goal
  OBVIOUS
<1>2. ASSUME NEW e \in ShellEvents, FollowedBy(<<e>>), screen' = screen, ~Shows(f),
             e.type \notin {"ApplyReported", "EffectFailed", "RenderCleanupApplied",
                            "RenderPlanComputed"}
      PROVE  Goal
  <2>1. Answering(f, <<e>>)
    BY <1>2, OneReply DEF Answering, Settles, IsAnswer
  <2> HIDE DEF f
  <2> QED BY <1>1, <1>2, <2>1, OneReply DEF Executes, f
<1>3. CASE ExecuteRequestObservationBase
  <2>1. f.type = "RequestObservationBase" /\ f.id \in Nat /\ screen' = screen
    BY <1>1, <1>3 DEF ExecuteRequestObservationBase, Executing, Effects
  <2>2. ASSUME NEW chunks \in 0 .. MaxChunks, NEW samples \in BOOLEAN,
               NEW inexact \in BOOLEAN,
               FollowedBy(<<[type |-> "ObservationBaseCollected", id |-> f.id,
                             chunks |-> chunks, samples |-> samples,
                             inexact |-> inexact]>>)
        PROVE  Goal
    <3> DEFINE e == [type |-> "ObservationBaseCollected", id |-> f.id,
                     chunks |-> chunks, samples |-> samples, inexact |-> inexact]
    <3>1. e \in ShellEvents /\ e.type = "ObservationBaseCollected"
      BY <2>1 DEF ShellEvents
    <3> HIDE DEF e, Goal
    <3> QED BY <1>2, <2>1, <2>2, <3>1 DEF e, Shows
  <2>3. CASE DrainFails
    BY <1>1, <2>1, <2>3 DEF GivesUp
  <2> HIDE DEF Goal
  <2> QED BY <1>3, <2>2, <2>3 DEF ExecuteRequestObservationBase
<1>4. CASE ExecuteRequestProbe
  <2>1. f.type = "RequestProbe" /\ screen' = screen
    BY <1>4 DEF ExecuteRequestProbe, Executing
  <2>2. PICK e \in ProbeReports(f, core.obs) : FollowedBy(<<e>>)
    BY <1>4 DEF ExecuteRequestProbe
  <2>3. e \in ShellEvents /\ e.type = "ProbeReported"
    BY <1>1, <2>1, ProbeReportsTyped DEF ProbeReports
  <2> HIDE DEF Goal
  <2> QED BY <1>2, <2>1, <2>2, <2>3 DEF Shows
<1>5. CASE ExecuteRequestRenderPlan
  <2> DEFINE computed == [type |-> "RenderPlanComputed", proposal |-> PlannedProposal(f)]
             failed   == [type |-> "RenderPlanFailed", id |-> f.id]
  <2>1. f.type = "RequestRenderPlan" /\ f.id \in Nat /\ screen' = screen
    BY <1>1, <1>5 DEF ExecuteRequestRenderPlan, Executing, Effects
  <2>2. computed \in ShellEvents /\ failed \in ShellEvents
    BY <1>1, <2>1, PlannedProposalTyped DEF ShellEvents
  <2>3. /\ computed.type = "RenderPlanComputed" /\ failed.type = "RenderPlanFailed"
        /\ computed.proposal.exec = f.decision.exec
    BY DEF PlannedProposal
  <2>4. FollowedBy(<<computed>>) \/ FollowedBy(<<failed>>)
    BY <1>5 DEF ExecuteRequestRenderPlan
  <2> HIDE DEF computed, failed
  <2>5. CASE FollowedBy(<<computed>>)
    <3>1. Answering(f, <<computed>>)
      BY <2>1, <2>2, <2>3, OneReply DEF Answering, Settles, IsAnswer, Shows
    <3> HIDE DEF f
    <3> QED BY <1>1, <2>2, <2>5, <3>1, OneReply DEF Executes, f
  <2> HIDE DEF Goal
  <2> QED BY <1>2, <2>1, <2>2, <2>3, <2>4, <2>5 DEF Shows
<1>6. CASE ExecuteApplyProposal
  <2> DEFINE p == f.proposal
  <2>1. IsApply(f) /\ Shows(f) /\ p.id \in Nat
    BY <1>1, <1>6 DEF ExecuteApplyProposal, Executing, Effects, Proposals, IsApply, Shows
  <2>2. \A redraw \in BOOLEAN, o \in {"full", "degraded", "failed"} :
           /\ ApplyReport(p, o, redraw) \in ShellEvents
           /\ ApplyReport(p, o, redraw).type = "ApplyReported"
           /\ ApplyReport(p, o, redraw).id = p.id
           /\ ApplyReport(p, o, redraw).outcome = o
    BY <2>1 DEF ApplyReport, ShellEvents
  <2>3. /\ EffectFailed(p.id) \in ShellEvents /\ EffectFailed(p.id).type = "EffectFailed"
        /\ EffectFailed(p.id).id = p.id
    BY <2>1, EffectFailedIsEvent DEF EffectFailed
  <2>4. \/ /\ screen' = ScreenAfter(p)
           /\ \E redraw \in BOOLEAN :
                 FollowedByWithRetained(<<ApplyReport(p, "full", redraw)>>)
        \/ \E e \in {ApplyReport(p, "degraded", FALSE),
                     ApplyReport(p, "failed", FALSE), EffectFailed(p.id)} :
              FollowedBy(<<e>>)
    BY <1>6 DEF ExecuteApplyProposal
  <2>5. ASSUME NEW redraw \in BOOLEAN, screen' = ScreenAfter(p),
               FollowedByWithRetained(<<ApplyReport(p, "full", redraw)>>)
        PROVE  Goal
    <3> DEFINE e == ApplyReport(p, "full", redraw)
    <3>1. e \in ShellEvents /\ e.type = "ApplyReported" /\ e.id = f.proposal.id
      BY <2>2
    <3>2. FollowedByWithRetained(<<e>>) /\ screen' = ScreenAfter(f.proposal)
      BY <2>5
    <3> HIDE DEF e, p, f
    <3>3. Answering(f, <<e>>)
      BY <2>1, <3>1, <3>2, OneReply DEF Answering, Settles, IsAnswer
    <3> QED BY <1>1, <3>1, <3>2, <3>3, OneReply, RetainedExecutes DEF f
  <2>6. ASSUME NEW e \in ShellEvents, FollowedBy(<<e>>), IsAnswer(e), e.id = f.proposal.id,
               ~(e.type = "ApplyReported" /\ e.outcome = "full")
        PROVE  Goal
    <3> HIDE DEF p, f
    <3>1. Answering(f, <<e>>)
      BY <2>1, <2>6, OneReply DEF Answering, Settles, IsAnswer
    <3> QED BY <1>1, <2>6, <3>1, OneReply DEF Executes, f
  <2>7. ASSUME NEW e \in {ApplyReport(p, "degraded", FALSE),
                          ApplyReport(p, "failed", FALSE), EffectFailed(p.id)},
               FollowedBy(<<e>>)
        PROVE  Goal
    <3>1. /\ e \in ShellEvents /\ IsAnswer(e) /\ e.id = f.proposal.id
          /\ ~(e.type = "ApplyReported" /\ e.outcome = "full")
      <4>1. CASE e = EffectFailed(p.id)
        BY <2>3, <4>1 DEF IsAnswer
      <4>2. CASE e # EffectFailed(p.id)
        BY <2>2, <2>7, <4>2 DEF IsAnswer
      <4> QED BY <4>1, <4>2
    <3> HIDE DEF Goal
    <3> QED BY <2>6, <2>7, <3>1
  <2> HIDE DEF Goal
  <2> QED BY <2>4, <2>5, <2>7
<1>7. CASE ExecuteApplyRenderCleanup
  <2>1. f.type = "ApplyRenderCleanup"
    BY <1>7 DEF ExecuteApplyRenderCleanup, Executing
  <2>2. PICK action \in {"SoftClearedNone", "SoftClearedRetained", "Converged",
                         "Progress", "NoProgress", "CleanupStalled"},
             due \in BOOLEAN : FollowedBy(<<CleanupApplied(action, due)>>)
    BY <1>7 DEF ExecuteApplyRenderCleanup
  <2> DEFINE e == CleanupApplied(action, due)
  <2>3. e \in ShellEvents /\ e.type = "RenderCleanupApplied" /\ FollowedBy(<<e>>)
    BY <2>2 DEF CleanupApplied, ShellEvents
  <2> HIDE DEF e
  <2>4. Answering(f, <<e>>)
    BY <2>1, <2>3, OneReply DEF Answering, Settles, IsAnswer, Shows, IsApply
  <2> HIDE DEF f
  <2> QED BY <1>1, <2>3, <2>4, OneReply DEF Executes, f
<1>8. CASE ExecuteScheduleTimer
  <2>1. /\ f.type = "ScheduleTimer" /\ f.timer \in TimerIds /\ f.gen \in Nat
        /\ screen' = screen
    BY <1>1, <1>8 DEF ExecuteScheduleTimer, Executing, Effects
  <2>2. CASE FollowedBy(<<>>)
    <3>1. <<>> \in Seq(ShellEvents) /\ Range(<<>>) = {}
      BY FewEffects
    <3>2. Answering(f, <<>>)
      BY <2>1, <3>1 DEF Answering, Shows
    <3> HIDE DEF f
    <3> QED BY <1>1, <2>2, <3>1, <3>2 DEF Executes, f
  <2>3. ASSUME NEW due \in BOOLEAN,
               FollowedBy(<<[type |-> "TimerLost", timer |-> f.timer, gen |-> f.gen,
                             due |-> due]>>)
        PROVE  Goal
    <3> DEFINE e == [type |-> "TimerLost", timer |-> f.timer, gen |-> f.gen, due |-> due]
    <3>1. e \in ShellEvents /\ e.type = "TimerLost"
      BY <2>1 DEF ShellEvents
    <3> HIDE DEF e, Goal
    <3> QED BY <1>2, <2>1, <2>3, <3>1 DEF e, Shows
  <2> HIDE DEF Goal
  <2> QED BY <1>8, <2>2, <2>3 DEF ExecuteScheduleTimer
<1>9. CASE ExecuteIngressCursorPresentation
  <2>1. /\ f.type = "ApplyIngressCursorPresentation" /\ FollowedByWithRetained(<<>>)
        /\ screen' = screen
    BY <1>9 DEF ExecuteIngressCursorPresentation, Executing
  <2>2. <<>> \in Seq(ShellEvents) /\ Range(<<>>) = {}
    BY FewEffects
  <2>3. Answering(f, <<>>)
    BY <2>1, <2>2 DEF Answering, Shows
  <2> QED BY <1>1, <2>1, <2>2, <2>3, RetainedExecutes
<1> HIDE DEF Goal
<1> QED BY <1>3, <1>4, <1>5, <1>6, <1>7, <1>8, <1>9 DEF ExecuteEffect

\* The proposal that is executed is answered, and nothing is on its way behind it.
LEMMA ExecutesCurrent ==
    ASSUME ProposalInv, NEW s, Executes(s)
    PROVE  Lined' /\ Current'
<1> DEFINE f == Head(batch)
<1>1. /\ batch \in Seq(Effects) /\ followUps \in Seq(ShellEvents) /\ s \in Seq(ShellEvents)
      /\ batch # <<>> /\ batch' = Tail(batch) /\ work' = work
      /\ followUps' = followUps \o s /\ core' = core
  BY DEF ProposalInv, TypeInv, TypeOK, Executes, FollowedBy
<1>2. /\ Range(batch) = {f} \cup Range(Tail(batch))
      /\ Range(followUps') = Range(followUps) \cup Range(s)
  BY <1>1, RangeOfParts
<1>3. /\ \A g \in Range(batch) : Shows(g) => Tail(batch) = <<>>
      /\ Range(<<>>) = {}
  <2>1. Len(batch) = 1 => Tail(batch) = <<>>
    BY <1>1
  <2> QED BY <2>1, FewEffects DEF ProposalInv, Lined, Solo
<1>4. \A r \in Range(followUps) : ~Settles(r)
  BY <1>1 DEF ProposalInv, Lined
<1>5. \A r \in QueuedEvents(work) : ~Aborts(r)
  BY <1>1 DEF ProposalInv, Lined, FailureLeads
<1>6. PendingEffects' = Range(Tail(batch)) \cup QueuedEffects(work)
  BY <1>1 DEF PendingEffects, QueuedEffects
<1>7. Solo(Tail(batch))
  BY <1>2, <1>3 DEF Solo
<1>8. \A r \in Range(s) : /\ Settles(r) => Shows(f)
                          /\ IsAnswer(r) => IsApply(f) /\ r.id = f.proposal.id
  BY DEF Executes, Answering
<1> HIDE DEF f
<1>9. Lined'
  <2>1. NoApply(Range(Tail(batch))) \/ NoApply(QueuedEffects(work))
    BY <1>2 DEF ProposalInv, Lined, NoApply
  <2>2. \A r \in Range(followUps') : Settles(r) => Tail(batch) = <<>>
    BY <1>2, <1>3, <1>4, <1>8
  <2>3. \A r \in QueuedEvents(work)' : r.type = "ProbeReported" /\ ~Aborts(r)
    BY <1>1, <1>5 DEF QueuedEvents, ProposalInv, Lined
  <2> QED BY <1>1, <1>7, <2>1, <2>2, <2>3
          DEF ProposalInv, Lined, AllSolo, Single, HoldsApply, NoApply, QueuedEffects
<1>10. ASSUME NEW r \in Range(followUps'), IsAnswer(r)
       PROVE  /\ r.id \in 1 .. core.proposals /\ core.phase = "Applying"
              /\ NoApply(PendingEffects')
  <2>1. IsApply(f) /\ r.id = f.proposal.id /\ f \in Range(batch)
    BY <1>2, <1>4, <1>8, <1>10 DEF Settles
  <2>2. core.phase = "Applying" /\ f.proposal = core.proposal
    BY <2>1, PendingIs DEF ProposalInv, Current
  <2>3. NoApply(QueuedEffects(work)) /\ Tail(batch) = <<>>
    BY <1>3, <2>1 DEF ProposalInv, Lined, NoApply, Shows, IsApply
  <2> QED BY <1>3, <1>6, <2>1, <2>2, <2>3 DEF ProposalInv, Current
<1>11. PendingEffects' \subseteq PendingEffects
  BY <1>2, <1>6, PendingIs
<1> QED BY <1>1, <1>9, <1>10, <1>11 DEF ProposalInv, Current

\* A failed drain leaves a failure that leads.
LEMMA GivesUpCurrent ==
    ASSUME ProposalInv, GivesUp
    PROVE  Lined' /\ Current' /\ PendingEffects' = {} /\ Range(followUps') = {}
<1> DEFINE e == EffectFailed(0)
           w == <<Staged(e)>>
<1>1. /\ w \in Seq(WorkItems) /\ QueuedEvents(w) = {e} /\ QueuedEffects(w) = {}
      /\ Head(w).item = "event" /\ Tail(w) = <<>> /\ Range(w) = {Staged(e)} /\ DOMAIN w = {1}
      /\ Aborts(e)
  <2>1. e \in ShellEvents /\ Aborts(e)
    BY EffectFailedIsEvent DEF EffectFailed, Aborts
  <2> HIDE DEF e
  <2> QED BY <2>1, StagedAlone, FewEffects DEF Staged
<1>2. work' = w /\ batch' = <<>> /\ followUps' = <<>> /\ core' = core
  BY DEF GivesUp, DrainFails
<1>3. AllSolo(w) /\ Single(w)
  BY <1>1 DEF AllSolo, Single, Staged
<1>4. QueuedEvents(Tail(w)) = {}
  BY <1>1 DEF QueuedEvents
<1> HIDE DEF w, e
<1>5. Range(<<>>) = {} /\ Solo(<<>>)
  BY FewEffects DEF Solo
<1>6. PendingEffects' = {}
  <2>1. PendingEffects' = Range(batch') \cup QueuedEffects(work')
    BY DEF PendingEffects, QueuedEffects
  <2> QED BY <1>1, <1>2, <1>5, <2>1
<1>7. FailureLeads'
  <2>1. NoApply(QueuedEffects(work)') /\ \A r \in QueuedEvents(Tail(work))' : ~Aborts(r)
    BY <1>1, <1>2, <1>4 DEF NoApply, QueuedEffects, QueuedEvents
  <2> QED BY <1>1, <1>2, <2>1 DEF FailureLeads
<1>8. Lined'
  <2>1. \A r \in QueuedEvents(work)' : Aborts(r)
    BY <1>1, <1>2 DEF QueuedEvents
  <2>2. NoApply(QueuedEffects(work))'
    BY <1>1, <1>2 DEF NoApply, QueuedEffects
  <2> QED BY <1>2, <1>3, <1>5, <1>7, <2>1, <2>2
          DEF Lined, AllSolo, Single, HoldsApply, NoApply
<1>9. Current'
  BY <1>2, <1>5, <1>6 DEF ProposalInv, Current
<1> QED BY <1>2, <1>5, <1>6, <1>8, <1>9

-----------------------------------------------------------------------------
(* The other steps. *)

\* What is queued moves on.
Queued ==
    /\ core' = core /\ screen' = screen
    /\ PendingEffects' = PendingEffects
    /\ Range(followUps') \subseteq Range(followUps)
    /\ \A r \in Range(followUps) : Settles(r) => r \in Range(followUps')
    /\ Lined'

\* What is applied stays current.
LEMMA QueuedCurrent ==
    ASSUME ProposalInv, Queued
    PROVE  Current'
  BY DEF ProposalInv, Current, Queued

\* The oldest batch is started, ...
LEMMA StartBatchQueued ==
    ASSUME ProposalInv, StartBatch
    PROVE  Queued
<1>1. /\ work \in Seq(WorkItems) /\ work # <<>> /\ Head(work).item = "batch"
      /\ batch = <<>> /\ followUps = <<>>
      /\ batch' = Head(work).effects /\ work' = Tail(work)
      /\ UNCHANGED <<core, followUps, screen>>
  BY DEF ProposalInv, TypeInv, TypeOK, StartBatch, BetweenUnits
<1>2. /\ QueuedEffects(work) = Range(batch') \cup QueuedEffects(work')
      /\ QueuedEvents(work) = QueuedEvents(work')
      /\ Range(work) = {Head(work)} \cup Range(work')
  BY <1>1, OldestTaken, RangeOfParts
<1>3. /\ Single(work')
      /\ NoApply(Range(batch')) \/ NoApply(QueuedEffects(work'))
  BY <1>1, SingleRest DEF ProposalInv, Lined, HoldsApply
<1>4. AllSolo(work') /\ Solo(batch')
  BY <1>1, <1>2 DEF ProposalInv, Lined, AllSolo
<1>5. \A r \in QueuedEvents(work) : r.type = "ProbeReported" /\ ~Aborts(r)
  BY <1>1 DEF ProposalInv, Lined, FailureLeads
<1>6. Range(<<>>) = {} /\ Range(batch) = {}
  BY <1>1, FewEffects
<1>7. Lined'
  <2>1. \A r \in QueuedEvents(work)' : r.type = "ProbeReported" /\ ~Aborts(r)
    BY <1>2, <1>5 DEF QueuedEvents
  <2> QED BY <1>1, <1>3, <1>4, <1>6, <2>1
          DEF Lined, AllSolo, Single, HoldsApply, NoApply, Solo, QueuedEffects
<1>8. PendingEffects' = PendingEffects
  <2>1. PendingEffects' = Range(batch') \cup QueuedEffects(work')
    BY DEF PendingEffects, QueuedEffects
  <2> QED BY <1>2, <1>6, <2>1, PendingIs
<1> QED BY <1>1, <1>7, <1>8 DEF Queued

\* ... a report of a refresh goes to the back, ...
LEMMA StageRefreshReportQueued ==
    ASSUME ProposalInv, StageRefreshReport
    PROVE  Queued
<1> DEFINE e == Head(followUps)
           x == Staged(e)
<1>1. /\ work \in Seq(WorkItems) /\ followUps # <<>> /\ batch = <<>>
      /\ work' = Append(work, x) /\ followUps' = Tail(followUps)
      /\ UNCHANGED <<core, batch, screen>>
  BY DEF ProposalInv, TypeInv, TypeOK, StageRefreshReport
<1>2. /\ e \in ShellEvents /\ e.type = "ProbeReported"
      /\ Range(followUps) = {e} \cup Range(followUps')
  <2>1. followUps \in Seq(ShellEvents)
    BY DEF ProposalInv, TypeInv, TypeOK
  <2> QED BY <1>1, <2>1, HeadsTyped, RangeOfParts
          DEF StageRefreshReport, IsRefresh, ProposalInv
<1> HIDE DEF e
<1>3. /\ QueuedEffects(work') = QueuedEffects(work)
      /\ QueuedEvents(work') = QueuedEvents(work) \cup {e}
  BY <1>1, <1>2, StagedBehind
<1>4. x \in WorkItems /\ x.item = "event"
  BY <1>2, StagedTyped DEF Staged
<1> HIDE DEF x
<1>5. AllSolo(work') /\ Single(work')
  <2>1. /\ DOMAIN work = 1 .. Len(work) /\ Len(work) \in Nat
        /\ DOMAIN work' = 1 .. Len(work) + 1
        /\ \A i \in DOMAIN work : work'[i] = work[i]
        /\ work'[Len(work) + 1] = x
    BY <1>1, <1>4, AppendProperties, LenProperties
  <2>2. \A i \in DOMAIN work' :
           work'[i].item = "batch" => i \in DOMAIN work /\ work'[i] = work[i]
    BY <1>4, <2>1
  <2>3. Single(work')
    BY <2>2 DEF ProposalInv, Lined, Single, HoldsApply
  <2>4. AllSolo(work')
    BY <2>2 DEF ProposalInv, Lined, AllSolo, Range
  <2> QED BY <2>3, <2>4
<1>6. \A r \in QueuedEvents(work') : r.type = "ProbeReported" /\ ~Aborts(r)
  BY <1>1, <1>2, <1>3 DEF ProposalInv, Lined, FailureLeads, Aborts
<1>7. Lined'
  <2>1. \A r \in QueuedEvents(work)' : r.type = "ProbeReported" /\ ~Aborts(r)
    BY <1>6 DEF QueuedEvents
  <2>2. Solo(<<>>) /\ NoApply(Range(<<>>))
    BY FewEffects DEF Solo, NoApply
  <2> QED BY <1>1, <1>5, <2>1, <2>2
          DEF Lined, AllSolo, Single, HoldsApply, NoApply, Solo, QueuedEffects
<1>8. PendingEffects' = PendingEffects
  <2>1. PendingEffects' = Range(batch') \cup QueuedEffects(work')
    BY DEF PendingEffects, QueuedEffects
  <2> QED BY <1>1, <1>3, <2>1, PendingIs
<1> QED BY <1>1, <1>2, <1>7, <1>8 DEF Queued, Settles, IsAnswer

\* ... or nothing happens.
LEMMA IdleQueued ==
    ASSUME ProposalInv, UNCHANGED vars
    PROVE  Queued
<1>1. UNCHANGED <<core, batch, followUps, work, screen>>
  BY DEF vars, shell
<1>2. PendingEffects' = PendingEffects
  BY <1>1 DEF PendingEffects
<1>3. Lined'
  BY <1>1 DEF ProposalInv, Lined, AllSolo, Single, Solo, HoldsApply, NoApply, FailureLeads,
              QueuedEvents, QueuedEffects
<1> QED BY <1>1, <1>2, <1>3 DEF Queued

\* Every step reduces an event, executes an effect, gives up, or moves the queue.
LEMMA ScreenSteps ==
    ASSUME "plugin" \notin FaultKinds, ProposalInv, [Next]_vars
    PROVE  \/ \E e \in Events : \E d \in PlanChoices : Steered(e, d)
           \/ \E s : Executes(s)
           \/ GivesUp
           \/ Queued
<1> DEFINE Dispatches == \E e \in Events : \E d \in PlanChoices : Steered(e, d)
<1>1. CASE Initialize
  <2> DEFINE e == [type |-> "Initialize"]
  <2>1. e \in Events /\ IsOutside(e)
    BY DEF Events, EditorEvents, IsOutside
  <2>2. Dispatch(e) /\ BetweenUnits /\ UNCHANGED <<batch, followUps, screen>>
    BY <1>1 DEF Initialize
  <2> HIDE DEF e
  <2>3. \E d \in PlanChoices : Steered(e, d)
    BY <2>1, <2>2, DispatchSteered
  <2> QED BY <2>1, <2>3
<1>2. ASSUME NEW kind \in ExternalKinds, Ingress(kind)
      PROVE  Dispatches
  <2>1. PICK presents \in BOOLEAN :
           Dispatch([type |-> "ExternalDemandQueued", kind |-> kind,
                     presents |-> presents])
    BY <1>2 DEF Ingress
  <2> DEFINE e == [type |-> "ExternalDemandQueued", kind |-> kind, presents |-> presents]
  <2>2. e \in Events /\ IsOutside(e) /\ Dispatch(e)
    BY <2>1 DEF Events, EditorEvents, IsOutside
  <2>3. BetweenUnits /\ UNCHANGED <<batch, followUps, screen>>
    BY <1>2 DEF Ingress
  <2> HIDE DEF e
  <2> QED BY <2>2, <2>3, DispatchSteered
<1>3. ASSUME NEW x \in TimerIds, TimerFires(x)
      PROVE  Dispatches
  <2>1. PICK due \in BOOLEAN :
           Dispatch([type |-> "TimerFired", timer |-> x, gen |-> host[x], due |-> due])
    BY <1>3 DEF TimerFires
  <2> DEFINE e == [type |-> "TimerFired", timer |-> x, gen |-> host[x], due |-> due]
  <2>2. e \in Events /\ IsOutside(e) /\ Dispatch(e)
    BY <2>1, ShellEventsAreEvents DEF ShellEvents, ProposalInv, TypeInv, TypeOK, IsOutside
  <2>3. BetweenUnits /\ UNCHANGED <<batch, followUps, screen>>
    BY <1>3 DEF TimerFires
  <2> HIDE DEF e
  <2> QED BY <2>2, <2>3, DispatchSteered
<1>4. ~PluginCallbackPanics
  BY DEF PluginCallbackPanics, Fault
<1>5. CASE DispatchStaged \/ DispatchFollowUp
  BY <1>5, DispatchStagedSteered, DispatchFollowUpSteered
<1>6. CASE ExecuteEffect
  BY <1>6, ExecuteAnswers
<1>7. CASE StartBatch \/ StageRefreshReport
  BY <1>7, StartBatchQueued, StageRefreshReportQueued
<1>8. CASE UNCHANGED vars
  BY <1>8, IdleQueued
<1> QED BY <1>1, <1>2, <1>3, <1>4, <1>5, <1>6, <1>7, <1>8 DEF Next, Drain

\* Steps keep what is applied current,
LEMMA NextProposal ==
    ASSUME "plugin" \notin FaultKinds, ProposalInv, [Next]_vars
    PROVE  ProposalInv'
<1>1. TypeInv'
  BY NextTyped DEF ProposalInv
<1>2. ASSUME NEW e \in Events, NEW d \in PlanChoices, Steered(e, d)
      PROVE  Lined' /\ Current'
  BY <1>2, SteeredCurrent DEF Steered
<1>3. ASSUME Queued
      PROVE  Lined' /\ Current'
  BY <1>3, QueuedCurrent DEF Queued
<1> QED BY <1>1, <1>2, <1>3, ScreenSteps, ExecutesCurrent, GivesUpCurrent DEF ProposalInv

\* ... as it is at the start.
LEMMA InitProposal ==
    ASSUME Init
    PROVE  ProposalInv
<1>1. TypeInv /\ PendingEffects = {} /\ PendingEvents = {}
  BY InitTimers, InitTyped, PendingIs, FewEffects DEF Init, QueuedEffects, QueuedEvents
<1>2. work = <<>> /\ batch = <<>> /\ followUps = <<>>
  BY DEF Init
<1>3. core.phase = "Idle" /\ core.ledger.kind # "Consistent"
  BY DEF Init, InitialCore
<1>4. Range(<<>>) = {} /\ Solo(<<>>) /\ Single(<<>>) /\ AllSolo(<<>>)
  BY FewEffects DEF Solo, Single, AllSolo
<1>5. QueuedEvents(work) = {} /\ QueuedEffects(work) = {}
  BY <1>2 DEF QueuedEvents, QueuedEffects
<1>6. Lined
  BY <1>2, <1>4, <1>5 DEF Lined, NoApply
<1>7. Current
  BY <1>1, <1>2, <1>3, <1>4 DEF Current
<1> QED BY <1>1, <1>6, <1>7 DEF ProposalInv

\* ShellAppliesCurrentProposal: what the shell is about to apply is the proposal
\* the reducer waits for, where no other callback of the plugin panics; a proposal
\* that was given up has left the queue, or was never the one to be given up.
THEOREM ShellAppliesTheCurrent ==
    ASSUME "plugin" \notin FaultKinds
    PROVE  Spec => []ShellAppliesCurrentProposal
<1>1. ProposalInv => ShellAppliesCurrentProposal
  <2>1. ASSUME ProposalInv, Executing("ApplyProposal")
        PROVE  core.phase = "Applying" /\ core.proposal = Head(batch).proposal
    <3>1. Head(batch) \in Range(batch) /\ IsApply(Head(batch))
      BY <2>1, RangeOfParts DEF Executing, IsApply, ProposalInv, TypeInv, TypeOK
    <3> QED BY <2>1, <3>1, PendingIs DEF ProposalInv, Current
  <2> QED BY <2>1 DEF ShellAppliesCurrentProposal
<1>2. ProposalInv /\ [Next]_vars => ProposalInv'
  BY NextProposal
<1> QED BY <1>1, <1>2, InitProposal, PTL DEF Spec

-----------------------------------------------------------------------------
(* The ledger. *)

IsFull(r) == r.type = "ApplyReported" /\ r.outcome = "full"

\* What the core trusts is on the screen, unless a report that ends the trust is
\* still to be dispatched.
Told ==
    core.ledger.kind = "Consistent" =>
        screen = core.ledger.frame \/ \E r \in Range(followUps) : Distrusts(core, r)

\* What is reported applied in full is on the screen.
Shown ==
    \A r \in Range(followUps) :
        IsFull(r) /\ Answers(core, r) => screen = core.proposal.target

\* No noop is planned or on its way.
NoNoop ==
    /\ \A f \in PendingEffects :
          /\ f.type = "RequestRenderPlan" => f.decision.exec # "Noop"
          /\ IsApply(f) => f.proposal.exec # "Noop"
    /\ \A r \in Range(followUps) :
          r.type = "RenderPlanComputed" => r.proposal.exec # "Noop"

ScreenInv == ProposalInv /\ Told /\ Shown /\ NoNoop

\* The decisions leave no target as it is.
AlwaysDraws == \A d \in PlanDecisions : d.exec # "Noop"

\* A trusted frame is trusted because it was shown, and an event that ends the
\* trust is the next to be reduced or stays in turn.
LEMMA SteeredTold ==
    ASSUME AlwaysDraws, ScreenInv, NEW e, NEW d, Steered(e, d)
    PROVE  Told' /\ Shown' /\ NoNoop'
<1> DEFINE t == Reduce(core, e, d)
<1>1. /\ Steers(core, e, d, t) /\ core' = t.next /\ screen' = screen
      /\ PendingEffects' \subseteq PendingEffects \cup Range(t.effects)
      /\ \A r \in Range(followUps') : r \in Range(followUps) \/ r.type = "ProbeReported"
      /\ Range(followUps) \subseteq {e} \cup Range(followUps')
      /\ d \in PlanDecisions
  <2>1. d \in Decisions /\ d \in PlanDecisions
    BY BoundsAssumption DEF Steered, PlanChoices
  <2>2. Steers(core, e, d, t)
    BY <2>1, CurrentIsSane, ReduceSteers DEF Steered, ScreenInv
  <2> QED BY <2>1, <2>2 DEF Steered
<1>2. /\ Aborts(e) => Range(followUps) = {}
      /\ Answers(core, e) /\ ~Aborts(e) => e \in Range(followUps)
      /\ Computed(core, e) => e \in Range(followUps)
  <2>1. Aborts(e) => followUps = <<>>
    BY EndsNothing DEF Steered, ScreenInv, Ends
  <2>2. Answers(core, e) /\ ~Aborts(e) => e \in Range(followUps)
    BY EndsNothing DEF Steered, ScreenInv, Ends
  <2>3. Computed(core, e) => e \in Range(followUps)
    BY ComputedFollows DEF Steered, ScreenInv
  <2> QED BY <2>1, <2>2, <2>3, FewEffects
<1> HIDE DEF t
<1>3. ASSUME core'.ledger.kind = "Consistent"
      PROVE  \/ screen = core'.ledger.frame
             \/ \E r \in Range(followUps') : Distrusts(core', r)
  <2>1. CASE core'.ledger = core.ledger /\ ~Distrusts(core, e)
    <3>1. ASSUME NEW r \in Range(followUps), Distrusts(core, r)
          PROVE  r \in Range(followUps') /\ Distrusts(core', r)
      <4>1. r \in Range(followUps')
        BY <1>1, <2>1, <3>1
      <4>2. CASE r.type = "RenderCleanupApplied"
        BY <4>1, <4>2 DEF Distrusts
      <4>3. CASE Answers(core, r)
        <5>1. core.phase = "Applying" /\ ~Ends(core, e)
          BY <1>2, <2>1, <4>3 DEF Answers, Ends, Distrusts
        <5>2. core'.phase = "Applying" /\ core'.proposal = core.proposal
          BY <1>1, <5>1 DEF Steers, Computed
        <5> QED BY <4>1, <4>3, <5>2 DEF Distrusts, Answers
      <4> QED BY <3>1, <4>2, <4>3 DEF Distrusts
    <3> QED BY <1>3, <2>1, <3>1 DEF ScreenInv, Told
  <2>2. CASE /\ e.type = "ApplyReported" /\ e.outcome = "full" /\ Answers(core, e)
             /\ core'.ledger.frame = core.proposal.target
    <3>1. e \in Range(followUps)
      BY <1>2, <2>2 DEF Aborts
    <3> QED BY <2>2, <3>1 DEF ScreenInv, Shown, IsFull
  <2> QED BY <1>1, <1>3, <2>1, <2>2 DEF Steers
<1>4. ASSUME NEW r \in Range(followUps'), IsFull(r), Answers(core', r)
      PROVE  screen = core'.proposal.target
  <2>1. r \in Range(followUps) /\ IsAnswer(r)
    BY <1>1, <1>4 DEF IsFull, IsAnswer
  <2>2. core'.phase = "Applying" /\ r.id = core'.proposal.id
    BY <1>4 DEF Answers
  <2>3. ~Computed(core, e) \/ core'.proposal # e.proposal
    BY <2>1, <2>2 DEF ScreenInv, ProposalInv, Current, Computed
  <2>4. core.phase = "Applying" /\ core'.proposal = core.proposal
    BY <1>1, <2>2, <2>3 DEF Steers
  <2> QED BY <1>4, <2>1, <2>2, <2>4 DEF ScreenInv, Shown, Answers
<1>5. ASSUME NEW f \in PendingEffects'
      PROVE  /\ f.type = "RequestRenderPlan" => f.decision.exec # "Noop"
             /\ IsApply(f) => f.proposal.exec # "Noop"
  <2>1. CASE f \in PendingEffects
    BY <2>1 DEF ScreenInv, NoNoop
  <2>2. CASE f \in Range(t.effects)
    <3>1. f.type = "RequestRenderPlan" => f.decision = d
      BY <1>1, <2>2 DEF Steers
    <3>2. IsApply(f) => Computed(core, e) /\ f.proposal = e.proposal
      BY <1>1, <2>2 DEF Steers
    <3> QED BY <1>1, <1>2, <3>1, <3>2 DEF AlwaysDraws, ScreenInv, NoNoop, Computed
  <2> QED BY <1>1, <2>1, <2>2
<1>6. \A r \in Range(followUps') : r.type = "RenderPlanComputed" => r.proposal.exec # "Noop"
  BY <1>1 DEF ScreenInv, NoNoop
<1> QED BY <1>1, <1>3, <1>4, <1>5, <1>6 DEF Told, Shown, NoNoop

\* What changes the screen is reported before the ledger is read.
LEMMA ExecutesTold ==
    ASSUME ScreenInv, NEW s, Executes(s)
    PROVE  Told' /\ Shown' /\ NoNoop'
<1> DEFINE f == Head(batch)
<1>1. /\ batch # <<>> /\ core' = core
      /\ Range(batch) = {f} \cup Range(Tail(batch))
      /\ Range(followUps') = Range(followUps) \cup Range(s)
      /\ PendingEffects' = Range(Tail(batch)) \cup QueuedEffects(work)
  <2>1. /\ batch \in Seq(Effects) /\ followUps \in Seq(ShellEvents) /\ s \in Seq(ShellEvents)
        /\ batch # <<>> /\ batch' = Tail(batch) /\ work' = work
        /\ followUps' = followUps \o s /\ core' = core
    BY DEF ScreenInv, ProposalInv, TypeInv, TypeOK, Executes, FollowedBy
  <2> QED BY <2>1, RangeOfParts DEF PendingEffects, QueuedEffects
<1>2. Answering(f, s)
  BY DEF Executes
<1> HIDE DEF f
<1>3. f \in PendingEffects /\ PendingEffects' \subseteq PendingEffects
  BY <1>1, PendingIs
<1>4. \A r \in Range(followUps) : ~Settles(r)
  BY <1>1 DEF ScreenInv, ProposalInv, Lined
<1>5. IsApply(f) => core.phase = "Applying" /\ f.proposal = core.proposal
                    /\ f.proposal.exec # "Noop"
  BY <1>3 DEF ScreenInv, ProposalInv, Current, NoNoop
<1>6. ASSUME core.ledger.kind = "Consistent"
      PROVE  screen' = core.ledger.frame \/ \E r \in Range(followUps') : Distrusts(core, r)
  <2>1. CASE ~Shows(f)
    BY <1>1, <1>2, <1>6, <2>1 DEF ScreenInv, Told, Answering
  <2>2. CASE Shows(f)
    <3>1. PICK r \in Range(s) :
             IF IsApply(f) THEN IsAnswer(r) ELSE r.type = "RenderCleanupApplied"
      BY <1>2, <2>2 DEF Answering
    <3>2. Distrusts(core, r)
      BY <1>2, <1>5, <3>1 DEF Distrusts, Answers, Answering
    <3> QED BY <1>1, <3>2
  <2> QED BY <2>1, <2>2
<1>7. ASSUME NEW r \in Range(followUps'), IsFull(r)
      PROVE  screen' = core.proposal.target
  <2>1. r \in Range(s) /\ IsAnswer(r)
    BY <1>1, <1>4, <1>7 DEF IsFull, IsAnswer, Settles
  <2>2. IsApply(f) /\ screen' = ScreenAfter(f.proposal)
    BY <1>2, <1>7, <2>1 DEF Answering, IsFull
  <2> QED BY <1>5, <2>2 DEF ScreenAfter
<1>8. \A r \in Range(followUps') : r.type = "RenderPlanComputed" => r.proposal.exec # "Noop"
  BY <1>1, <1>2, <1>3 DEF ScreenInv, NoNoop, Answering
<1> QED BY <1>1, <1>3, <1>6, <1>7, <1>8 DEF ScreenInv, Told, Shown, NoNoop

\* Steps keep the ledger true,
LEMMA NextScreen ==
    ASSUME "plugin" \notin FaultKinds, AlwaysDraws, ScreenInv, [Next]_vars
    PROVE  ScreenInv'
<1>1. ProposalInv'
  BY NextProposal DEF ScreenInv
<1>2. ASSUME GivesUp
      PROVE  Told' /\ Shown' /\ NoNoop'
  <2>1. PendingEffects' = {} /\ Range(followUps') = {} /\ core' = core /\ screen' = screen
    BY <1>2, GivesUpCurrent DEF ScreenInv, GivesUp
  <2>2. \A r \in Range(followUps) : ~Distrusts(core, r)
    BY <1>2 DEF GivesUp, ScreenInv, ProposalInv, Lined, Settles, Distrusts, Answers
  <2> QED BY <2>1, <2>2 DEF ScreenInv, Told, Shown, NoNoop
<1>3. ASSUME Queued
      PROVE  Told' /\ Shown' /\ NoNoop'
  <2>1. \A r \in Range(followUps) : Distrusts(core, r) => r \in Range(followUps')
    BY <1>3 DEF Queued, Settles, Distrusts, Answers
  <2> QED BY <1>3, <2>1 DEF Queued, ScreenInv, Told, Shown, NoNoop
<1>4. ProposalInv
  BY DEF ScreenInv
<1> QED BY <1>1, <1>2, <1>3, <1>4, ScreenSteps, SteeredTold, ExecutesTold DEF ScreenInv

\* LedgerTruth: between two units a frame the core trusts is the frame the shell
\* shows, where no other callback of the plugin panics and no decision leaves the
\* target as it is, whatever is lost, fails or is cleaned up.
THEOREM LedgerTellsTheTruth ==
    ASSUME "plugin" \notin FaultKinds, AlwaysDraws
    PROVE  Spec => []LedgerTruth
<1>1. ScreenInv => LedgerTruth
  BY FewEffects DEF ScreenInv, Told, LedgerTruth, BetweenUnits
<1>2. ScreenInv /\ [Next]_vars => ScreenInv'
  BY NextScreen
<1>3. Init => ScreenInv
  <2>1. ASSUME Init
        PROVE  ScreenInv
    <3>1. Range(followUps) = {} /\ PendingEffects = {}
      BY <2>1, FewEffects, PendingIs DEF Init, QueuedEffects
    <3>2. core.ledger.kind # "Consistent"
      BY <2>1 DEF Init, InitialCore
    <3> QED BY <2>1, <3>1, <3>2, InitProposal DEF ScreenInv, Told, Shown, NoNoop
  <2> QED BY <2>1
<1> QED BY <1>1, <1>2, <1>3, PTL DEF Spec

=============================================================================
