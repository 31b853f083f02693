---------------------------- MODULE SmearReducer ----------------------------
(***************************************************************************)
(* The core reducer of smear-cursor: `reduce_owned` maps the core state    *)
(* and one event to the next core state and a list of effects.  It is a    *)
(* pure function, and so it is modelled: `core` is a record, and every     *)
(* handler an operator that returns a transition [next, effects].          *)
(*                                                                         *)
(* Clock values are abstracted to what the handlers branch on.  An event   *)
(* carries `due`, the outcome of the comparison its handler makes between  *)
(* `observed_at` and a deadline; the fields `delay` and `cleanup.pushed`   *)
(* remember whether a deadline has moved since its timer was armed, which  *)
(* decides the outcomes that are possible.  Whatever the runtime reducer   *)
(* computes (springs, particles, frames) is the decision `d` handed to the *)
(* handlers that plan.                                                     *)
(***************************************************************************)
EXTENDS Integers, Sequences

CONSTANTS
    ExternalKinds,      \* kinds of demand the editor's ingress produces
    CursorKind,         \* ExternalDemandKind::ExternalCursor
    SamplesCursorColor, \* requires_cursor_color_sampling()
    DelaysCursor,       \* delay_event_to_smear > 0
    MaxChunks           \* chunks of a background probe plan; 0: no sampling

ASSUME KindsAssumption ==
    /\ CursorKind \in ExternalKinds
    /\ {"BoundaryRefresh", "None"} \cap ExternalKinds = {}

ASSUME ConfigAssumption ==
    /\ SamplesCursorColor \in BOOLEAN
    /\ DelaysCursor \in BOOLEAN
    /\ MaxChunks \in Nat

DemandKinds == ExternalKinds \cup {"BoundaryRefresh"}
ProbeKinds  == {"CursorColor", "Background"}
TimerIds    == {"Animation", "Ingress", "Recovery", "Cleanup"}

MaxProbeRefreshRetries == 2     \* MAX_PROBE_REFRESH_RETRIES_PER_OBSERVATION

NoDemand      == [kind |-> "None", seq |-> 0]
NoProposal    == [id |-> 0]
NoRefreshes   == [p \in ProbeKinds |-> 0]
NoObservation == [kind |-> "None", seq |-> 0, color |-> "done", chunks |-> 0,
                  inexact |-> FALSE]
NoFrame       == 0

-----------------------------------------------------------------------------
(* The core state. *)

PhaseKinds == {"Idle", "Primed", "Collecting", "Observing", "Ready",
               "Planning", "Applying", "Recovering"}

Demands      == [kind : DemandKinds \cup {"None"}, seq : Nat]
\* Color: the cursor-color slot waits for its probe or does not (any more).
\* Chunks: background chunks still to sample.  Inexact: a deferred cursor cell
\* or a reused color, which an exact boundary refresh would replace.
Observations == [kind : DemandKinds \cup {"None"}, seq : Nat,
                 color : {"pending", "done"}, chunks : 0 .. MaxChunks,
                 inexact : BOOLEAN]
Decisions    == [exec : {"Draw", "Clear", "Noop"},
                 cleanup : {"NoAction", "Invalidate", "Schedule"},
                 animate : BOOLEAN,     \* schedules the next frame
                 running : BOOLEAN]     \* leaves the animation running
Proposals    == [id : Nat, exec : {"Draw", "Clear", "Noop"},
                 cleanup : {"NoAction", "Invalidate", "Schedule"},
                 animate : BOOLEAN, basis : Nat, target : Nat]
Cleanups     == [thermal : {"Hot", "Cooling", "Cold"},
                 quiesced : BOOLEAN, pushed : BOOLEAN]
Ledgers      == [kind : {"Cleared", "Consistent", "Diverged"}, frame : Nat]

Refreshes    == [ProbeKinds -> 0 .. MaxProbeRefreshRetries]
Queues       == [DemandKinds -> Nat]    \* queued seq of each kind, 0 if none
Delays       == {"none", "armed", "extended"}
Timers       == [TimerIds -> [gen : Nat, armed : BOOLEAN]]

CoreStates ==
    [phase     : PhaseKinds,
     demand    : Demands,               \* Collecting.pending
     obs       : Observations,          \* the phase's active or retained one
     refresh   : Refreshes,
     proposal  : Proposals \cup [id : Nat],
     animating : BOOLEAN,               \* RuntimeState::is_animating
     queue     : Queues,
     delay     : Delays,                \* pending_delay_until
     seq       : Nat,                   \* last ingress seq allocated
     proposals : Nat,                   \* last proposal id allocated
     timers    : Timers,
     cleanup   : Cleanups,
     ledger    : Ledgers]

-----------------------------------------------------------------------------
(* The events the core reduces and the effects it asks the shell for. *)

\* These feed nothing back to the reducer.  A metric is kept only where it
\* stands between two other effects.
ShellOnlyEffects == {"RedrawCmdline", "RecordMetric"}

Effects ==
         [type : {"ScheduleTimer"}, timer : TimerIds, gen : Nat]
    \cup [type : {"ApplyRenderCleanup"}, execution : {"SoftClear", "Compact"}]
    \cup [type : {"RequestObservationBase"}, id : Nat,
          kind : DemandKinds \cup {"None"}]
    \cup [type : {"RequestProbe"}, id : Nat, probe : ProbeKinds]
    \cup [type : {"RequestRenderPlan"}, id : Nat, basis : Nat,
          decision : Decisions]
    \cup [type : {"ApplyProposal"}, proposal : Proposals]
    \cup [type : {"ApplyIngressCursorPresentation", "RedrawCmdline", "RecordMetric"}]

\* What the editor's callbacks dispatch ...
EditorEvents ==
         [type : {"Initialize"}]
    \cup [type : {"ExternalDemandQueued"}, kind : ExternalKinds,
          presents : BOOLEAN]

\* ... and what the shell reports of the effects it executes.
ShellEvents ==
         [type : {"ObservationBaseCollected"}, id : Nat,
          chunks : 0 .. MaxChunks, samples : BOOLEAN, inexact : BOOLEAN]
    \cup [type : {"ProbeReported"}, id : Nat, probe : ProbeKinds,
          outcome : {"exact", "compatible", "failed", "refresh"}]
    \cup [type : {"RenderPlanComputed"}, proposal : Proposals]
    \cup [type : {"RenderPlanFailed"}, id : Nat]
    \cup [type : {"ApplyReported"}, id : Nat, redraw : BOOLEAN,
          outcome : {"full", "degraded", "failed"}]
    \cup [type : {"RenderCleanupApplied"}, due : BOOLEAN,
          action : {"SoftClearedNone", "SoftClearedRetained", "Converged",
                    "Progress", "NoProgress", "CleanupStalled"}]
    \cup [type : {"RetainedResourcesObserved"}, due : BOOLEAN]
    \cup [type : {"EffectFailed"}, id : Nat, redraw : BOOLEAN]
    \cup [type : {"TimerFired", "TimerLost"}, timer : TimerIds, gen : Nat,
          due : BOOLEAN]

Events == EditorEvents \cup ShellEvents

-----------------------------------------------------------------------------
(* Transitions. *)

\* CoreState::default: the phase before Initialize.
InitialCore ==
    [phase     |-> "Idle",
     demand    |-> NoDemand,
     obs       |-> NoObservation,
     refresh   |-> NoRefreshes,
     proposal  |-> NoProposal,
     animating |-> FALSE,
     queue     |-> [k \in DemandKinds |-> 0],
     delay     |-> "none",
     seq       |-> 0,
     proposals |-> 0,
     timers    |-> [t \in TimerIds |-> [gen |-> 0, armed |-> FALSE]],
     cleanup   |-> [thermal |-> "Cold", quiesced |-> FALSE, pushed |-> FALSE],
     ledger    |-> [kind |-> "Cleared", frame |-> NoFrame]]

Stay(c) == [next |-> c, effects |-> <<>>]

AcceptsObservation(c) == c.phase \in {"Primed", "Ready"}

ActiveDemand(c) ==
    CASE c.phase = "Collecting" -> c.demand
      [] c.phase = "Observing"  -> [kind |-> c.obs.kind, seq |-> c.obs.seq]
      [] OTHER                  -> NoDemand

-----------------------------------------------------------------------------
(* Timers and the deferred render cleanup. *)

ScheduleTimerWithDelay(c, t) ==
    LET gen == c.timers[t].gen + 1
    IN [next    |-> [c EXCEPT !.timers[t] = [gen |-> gen, armed |-> TRUE]],
        effects |-> <<[type |-> "ScheduleTimer", timer |-> t, gen |-> gen]>>]

Disarm(c, t) == [c EXCEPT !.timers[t].armed = FALSE]

\* Nothing is armed while the cleanup is quiesced, nor in Cold, which has no
\* deadline.
ArmRenderCleanupTimer(c) ==
    IF c.cleanup.quiesced \/ c.cleanup.thermal = "Cold"
    THEN Stay(c)
    ELSE ScheduleTimerWithDelay([c EXCEPT !.cleanup.pushed = FALSE], "Cleanup")

\* A new deadline is covered by the timer that is armed already, which will be
\* early for it, or by a new one.
ArmUnlessActive(c) ==
    IF c.timers["Cleanup"].armed
    THEN Stay([c EXCEPT !.cleanup.pushed = TRUE])
    ELSE ArmRenderCleanupTimer(c)

EnterHotCleanup(c) ==
    ArmUnlessActive([c EXCEPT !.cleanup = [thermal |-> "Hot", quiesced |-> FALSE,
                                           pushed |-> FALSE]])

AdvanceCleanupForProposal(c, action) ==
    CASE action = "NoAction" -> Stay(c)
      [] action = "Invalidate" -> EnterHotCleanup(c)
      [] action = "Schedule" ->
            IF c.cleanup.thermal = "Cold" THEN EnterHotCleanup(c)
            ELSE LET revived == [c EXCEPT !.cleanup.quiesced = FALSE]
                 IN IF c.timers["Cleanup"].armed THEN Stay(revived)
                    ELSE ArmRenderCleanupTimer(revived)

\* The work a due deadline asks for: hide what is visible while Hot, tear
\* down pooled resources while Cooling.
CleanupEffects(c, due) ==
    IF ~due \/ c.cleanup.thermal = "Cold" THEN <<>>
    ELSE <<[type |-> "ApplyRenderCleanup",
            execution |-> IF c.cleanup.thermal = "Hot" THEN "SoftClear"
                                                       ELSE "Compact"]>>

\* Fault: a callback that finds nothing due forgets to arm the next one.
EmitCleanupOnly(c, due) == [next |-> c, effects |-> CleanupEffects(c, due)]

EmitCleanupOrArm(c, due) ==
    IF CleanupEffects(c, due) # <<>>
    THEN [next |-> c, effects |-> CleanupEffects(c, due)]
    ELSE ArmRenderCleanupTimer(c)

CleanupStateAfterApplied(cleanup, action) ==
    CASE action = "SoftClearedRetained" \/ action = "CleanupStalled" ->
            [cleanup EXCEPT !.thermal = "Cooling", !.pushed = FALSE]
      [] action = "Converged" ->
            [thermal |-> "Cold", quiesced |-> FALSE, pushed |-> FALSE]
      [] OTHER ->
            IF cleanup.thermal = "Cold" THEN cleanup
            ELSE [cleanup EXCEPT !.thermal = "Cooling", !.pushed = FALSE]

-----------------------------------------------------------------------------
(* The realization ledger: what the shell is trusted to show. *)

TrustedAcknowledged(ledger) ==
    IF ledger.kind = "Consistent" THEN ledger.frame ELSE NoFrame

Acknowledge(target) ==
    [kind |-> IF target = NoFrame THEN "Cleared" ELSE "Consistent",
     frame |-> target]

\* `last_consistent` is read by tests only and left out.
Diverged == [kind |-> "Diverged", frame |-> NoFrame]

\* Fault: a cleanup leaves the trust in the screen untouched.
LedgerKeptByCleanup(ledger) == ledger

LedgerAfterCleanup(ledger) ==
    IF ledger.kind = "Cleared" THEN ledger ELSE Diverged

-----------------------------------------------------------------------------
(* Observation requests. *)

RequestObservationBase(demand) ==
    [type |-> "RequestObservationBase", id |-> demand.seq, kind |-> demand.kind]

\* `unreachable!` where the code says so: no phase of PhaseKinds.
EnterObservingRequest(c, demand) ==
    [next    |-> IF AcceptsObservation(c)
                 THEN [c EXCEPT !.phase = "Collecting", !.demand = demand,
                                !.refresh = NoRefreshes]
                 ELSE [c EXCEPT !.phase = "Unreachable"],
     effects |-> <<RequestObservationBase(demand)>>]

QueuedKinds(c) == {k \in DemandKinds : c.queue[k] # 0}

\* The oldest queued demand starts.  An empty queue leaves everything alone.
StartNextObservation(c) ==
    IF QueuedKinds(c) = {} THEN Stay(c)
    ELSE LET k == CHOOSE k \in QueuedKinds(c) :
                      \A j \in QueuedKinds(c) : c.queue[k] <= c.queue[j]
         IN EnterObservingRequest([c EXCEPT !.queue[k] = 0, !.delay = "none"],
                                  [kind |-> k, seq |-> c.queue[k]])

ExactBoundaryRefreshRequired(c) == c.obs.inexact /\ ~c.animating

StartBoundaryRefreshObservation(c) ==
    EnterObservingRequest([c EXCEPT !.seq = @ + 1],
                          [kind |-> "BoundaryRefresh", seq |-> c.seq + 1])

\* Planning runs on a ready observation only; the decision is fixed now, and
\* with it the frame the ledger trusts now.
PlanReadyState(c, d) ==
    IF c.phase # "Ready" THEN Stay(c)
    ELSE LET id == c.proposals + 1
         IN [next    |-> [c EXCEPT !.phase = "Planning", !.proposals = id,
                                   !.proposal = [id |-> id],
                                   !.animating = d.running],
             effects |-> <<[type |-> "RequestRenderPlan", id |-> id,
                            basis |-> TrustedAcknowledged(c.ledger),
                            decision |-> d]>>]

ObserveOrPlan(c, d) ==
    IF ~AcceptsObservation(c) THEN Stay(c)
    ELSE IF QueuedKinds(c) # {} THEN StartNextObservation(c)
    ELSE PlanReadyState(c, d)

\* Fault: the background is forgotten once the color is known.
NextColorProbeEffects(obs) ==
    IF obs.color = "pending"
    THEN <<[type |-> "RequestProbe", id |-> obs.seq, probe |-> "CursorColor"]>>
    ELSE <<>>

NextPendingProbeEffects(obs) ==
    CASE obs.color = "pending" ->
            <<[type |-> "RequestProbe", id |-> obs.seq, probe |-> "CursorColor"]>>
      [] obs.color # "pending" /\ obs.chunks > 0 ->
            <<[type |-> "RequestProbe", id |-> obs.seq, probe |-> "Background"]>>
      [] OTHER -> <<>>

-----------------------------------------------------------------------------
(* Handlers: ingress and observation. *)

ReduceInitialize(c) ==
    Stay(IF c.phase = "Idle" THEN [c EXCEPT !.phase = "Primed"] ELSE c)

\* A burst of cursor demands extends one pending delay and arms one timer.
DelayedCursorIngress(c) ==
    IF c.delay # "none" THEN Stay([c EXCEPT !.delay = "extended"])
    ELSE ScheduleTimerWithDelay([c EXCEPT !.delay = "armed"], "Ingress")

\* Fault: ingress starts its observation whatever the core is doing.
QueueAndStartExternalDemand(c, kind) ==
    LET hot   == EnterHotCleanup([c EXCEPT !.seq = @ + 1, !.queue[kind] = c.seq + 1])
        start == StartNextObservation(hot.next)
    IN [next |-> start.next, effects |-> start.effects \o hot.effects]

QueueExternalDemand(c, kind) ==
    LET queued == [c EXCEPT !.seq = @ + 1, !.queue[kind] = c.seq + 1]
        hot    == EnterHotCleanup(queued)
        start  == IF ~AcceptsObservation(c) THEN Stay(hot.next)
                  ELSE IF kind = CursorKind /\ DelaysCursor
                       THEN DelayedCursorIngress(hot.next)
                       ELSE StartNextObservation(hot.next)
    IN [next |-> start.next, effects |-> start.effects \o hot.effects]

\* The demand replaces a queued one, overtakes the active one, or extends a
\* pending delay: each is counted by a metric.
CoalescesIngress(c, kind) ==
    \/ c.queue[kind] # 0
    \/ kind = CursorKind /\ ActiveDemand(c).kind = CursorKind
    \/ kind = CursorKind /\ DelaysCursor /\ AcceptsObservation(c) /\ c.delay # "none"

\* `presents`: ingress asked to hide the cursor and prepaint its cell, which an
\* animation in progress refuses.
PresentationEffects(c, e) ==
    IF ~e.presents \/ c.animating THEN <<>>
    ELSE IF CoalescesIngress(c, e.kind)
    THEN <<[type |-> "ApplyIngressCursorPresentation"], [type |-> "RecordMetric"]>>
    ELSE <<[type |-> "ApplyIngressCursorPresentation"]>>

ReduceExternalDemandQueued(c, e) ==
    IF c.phase = "Idle" THEN Stay(c)
    ELSE LET t == QueueExternalDemand(c, e.kind)
         IN [next    |-> t.next,
             effects |-> PresentationEffects(c, e) \o t.effects]

\* Fault: the base is planned without waiting for its probes.
PlanOnBaseCollected(c, e, d) ==
    IF c.phase # "Collecting" \/ c.demand.seq # e.id THEN Stay(c)
    ELSE PlanReadyState([c EXCEPT
             !.obs = [kind |-> c.demand.kind, seq |-> c.demand.seq,
                      color |-> IF SamplesCursorColor /\ e.samples
                                THEN "pending" ELSE "done",
                      chunks |-> e.chunks, inexact |-> e.inexact],
             !.demand = NoDemand, !.phase = "Ready", !.refresh = NoRefreshes], d)

\* The base answers the active request or nothing.  With probes to wait for
\* the observation becomes active, without it is planned at once.
ReduceObservationBaseCollected(c, e, d) ==
    IF c.phase # "Collecting" \/ c.demand.seq # e.id THEN Stay(c)
    ELSE LET obs  == [kind |-> c.demand.kind, seq |-> c.demand.seq,
                      color |-> IF SamplesCursorColor /\ e.samples
                                THEN "pending" ELSE "done",
                      chunks |-> e.chunks, inexact |-> e.inexact]
             base == [c EXCEPT !.obs = obs, !.demand = NoDemand]
         IN IF NextPendingProbeEffects(obs) # <<>>
            THEN [next    |-> [base EXCEPT !.phase = "Observing"],
                  effects |-> NextPendingProbeEffects(obs)]
            ELSE PlanReadyState([base EXCEPT !.phase = "Ready",
                                             !.refresh = NoRefreshes], d)

\* Does the report fit a slot of the observation?  RefreshRequired from the
\* background probe is accepted whatever the slot holds.
AcceptsProbeReport(obs, e) ==
    /\ obs.seq = e.id
    /\ \/ e.probe = "CursorColor" /\ obs.color = "pending"
       \/ e.probe = "Background" /\ (obs.chunks > 0 \/ e.outcome = "refresh")

ApplyProbeReport(obs, e) ==
    IF e.probe = "CursorColor"
    THEN [obs EXCEPT !.color = "done",
                     !.inexact = @ \/ e.outcome = "compatible"]
    ELSE [obs EXCEPT !.chunks = IF e.outcome = "failed" THEN 0 ELSE @ - 1]

\* Fault: a spent refresh budget does not give queued ingress its turn.
RefreshUntilIdle(c, probe, d) ==
    IF c.phase # "Observing" THEN Stay(c)
    ELSE IF c.refresh[probe] = MaxProbeRefreshRetries
    THEN Stay([c EXCEPT !.phase = "Primed", !.obs = NoObservation,
                        !.refresh = NoRefreshes])
    ELSE LET demand == ActiveDemand(c)
         IN [next    |-> [c EXCEPT !.phase = "Collecting", !.demand = demand,
                                   !.refresh[probe] = @ + 1],
             effects |-> <<RequestObservationBase(demand)>>]

\* The captured basis is outdated: collect it again, a bounded number of times,
\* then drop the demand so that queued ingress gets its turn.
ReduceRefreshRequired(c, probe, d) ==
    IF c.phase # "Observing" THEN Stay(c)
    ELSE IF c.refresh[probe] = MaxProbeRefreshRetries
    THEN ObserveOrPlan([c EXCEPT !.phase = "Primed", !.obs = NoObservation,
                                 !.refresh = NoRefreshes], d)
    ELSE LET demand == ActiveDemand(c)
         IN [next    |-> [c EXCEPT !.phase = "Collecting", !.demand = demand,
                                   !.refresh[probe] = @ + 1],
             effects |-> <<RequestObservationBase(demand)>>]

ReduceProbeReported(c, e, d) ==
    IF \/ c.phase \notin {"Observing", "Ready", "Planning", "Applying"}
       \/ ~AcceptsProbeReport(c.obs, e)
    THEN Stay(c)
    ELSE IF e.outcome = "refresh" THEN ReduceRefreshRequired(c, e.probe, d)
    ELSE LET updated == [c EXCEPT !.obs = ApplyProbeReport(c.obs, e)]
         IN IF NextPendingProbeEffects(updated.obs) # <<>>
            THEN [next    |-> updated,
                  effects |-> NextPendingProbeEffects(updated.obs)]
            ELSE IF c.phase = "Observing"
            THEN PlanReadyState([updated EXCEPT !.phase = "Ready",
                                                !.refresh = NoRefreshes], d)
            ELSE Stay(updated)

-----------------------------------------------------------------------------
(* Handlers: render plan, apply, cleanup reports and failures. *)

\* Fault: a recovery timer that is armed already is trusted to be running.
EnterRecoveringOnce(c) ==
    LET recovering == [c EXCEPT !.phase = "Recovering", !.demand = NoDemand,
                                !.refresh = NoRefreshes, !.proposal = NoProposal]
    IN IF c.timers["Recovery"].armed THEN Stay(recovering)
       ELSE ScheduleTimerWithDelay(recovering, "Recovery")

\* Whatever observation the phase holds is retained for the restart.
EnterRecovering(c) ==
    ScheduleTimerWithDelay([c EXCEPT !.phase = "Recovering", !.demand = NoDemand,
                                     !.refresh = NoRefreshes,
                                     !.proposal = NoProposal], "Recovery")

ReduceRenderPlanComputed(c, e) ==
    IF c.phase # "Planning" \/ c.proposal.id # e.proposal.id THEN Stay(c)
    ELSE [next    |-> [c EXCEPT !.phase = "Applying", !.proposal = e.proposal],
          effects |-> <<[type |-> "ApplyProposal", proposal |-> e.proposal]>>]

ReduceRenderPlanFailed(c, e) ==
    IF c.phase # "Planning" \/ c.proposal.id # e.id THEN Stay(c)
    ELSE EnterRecovering(c)

RedrawEffects(e) == IF e.redraw THEN <<[type |-> "RedrawCmdline"]>> ELSE <<>>

\* The applied target becomes the trusted frame, then the oldest queued demand
\* starts, or else the boundary refresh an idle animation owes.
ReduceApplyCompleted(c, e) ==
    LET p       == c.proposal
        ready   == [c EXCEPT !.phase = "Ready", !.proposal = NoProposal,
                             !.ledger = Acknowledge(p.target)]
        cleanup == AdvanceCleanupForProposal(ready, p.cleanup)
        c1      == cleanup.next
        observe == IF /\ QueuedKinds(c1) = {}
                      /\ ~p.animate
                      /\ ExactBoundaryRefreshRequired(c1)
                   THEN StartBoundaryRefreshObservation(c1)
                   ELSE StartNextObservation(c1)
        animate == IF p.animate
                   THEN ScheduleTimerWithDelay(observe.next, "Animation")
                   ELSE Stay(observe.next)
    IN [next    |-> animate.next,
        effects |-> cleanup.effects \o RedrawEffects(e) \o observe.effects
                    \o animate.effects]

ReduceApplyNonSuccess(c, e) ==
    LET cleanup == AdvanceCleanupForProposal([c EXCEPT !.ledger = Diverged],
                                             c.proposal.cleanup)
        recover == EnterRecovering(cleanup.next)
    IN [next    |-> recover.next,
        effects |-> cleanup.effects \o RedrawEffects(e) \o recover.effects]

ReduceApplyReported(c, e) ==
    IF c.phase # "Applying" \/ c.proposal.id # e.id THEN Stay(c)
    ELSE IF e.outcome = "full" THEN ReduceApplyCompleted(c, e)
    ELSE ReduceApplyNonSuccess(c, e)

ReduceRenderCleanupApplied(c, e) ==
    IF c.phase = "Idle" THEN Stay(c)
    ELSE LET applied == [c EXCEPT
                 !.cleanup = CleanupStateAfterApplied(c.cleanup, e.action),
                 !.ledger  = LedgerAfterCleanup(c.ledger)]
             dueNow  == \/ e.action = "SoftClearedNone"
                        \/ e.action = "NoProgress" /\ e.due
         IN IF applied.cleanup.quiesced THEN Stay(applied)
            ELSE EmitCleanupOrArm(applied, dueNow)

ReduceRetainedResourcesObserved(c, e) ==
    IF c.phase = "Idle" THEN Stay(c)
    ELSE LET cleanup == IF c.cleanup.thermal = "Hot" THEN c.cleanup
                        ELSE [c.cleanup EXCEPT !.thermal = "Cooling",
                                               !.pushed = FALSE]
             next    == [c EXCEPT !.cleanup = cleanup,
                                  !.ledger = LedgerAfterCleanup(c.ledger)]
         IN IF cleanup.quiesced \/ (c.cleanup.thermal = "Hot"
                                    /\ c.timers["Cleanup"].armed)
            THEN Stay(next)
            ELSE EmitCleanupOrArm(next, c.cleanup.thermal = "Hot" /\ e.due)

\* Faults: the demand is dropped with its observation; a retained observation,
\* settled long ago, is queued again.
DropActiveDemand(c) == c

RequeueRetained(c) ==
    LET demand == IF c.phase = "Collecting" THEN c.demand
                  ELSE [kind |-> c.obs.kind, seq |-> c.obs.seq]
    IN IF demand = NoDemand \/ c.queue[demand.kind] >= demand.seq THEN c
       ELSE [c EXCEPT !.queue[demand.kind] = demand.seq]

\* A demand whose observation failed goes back to its slot, unless a newer one
\* of its kind waits there.
RequeueActiveDemand(c) ==
    LET demand == ActiveDemand(c)
    IN IF demand = NoDemand \/ c.queue[demand.kind] >= demand.seq THEN c
       ELSE [c EXCEPT !.queue[demand.kind] = demand.seq]

ReduceEffectFailed(c, e) ==
    IF c.phase = "Idle" THEN Stay(c)
    ELSE IF e.id # 0
    THEN IF c.phase # "Applying" \/ c.proposal.id # e.id THEN Stay(c)
         ELSE ReduceApplyNonSuccess(c, e)
    ELSE LET requeued == RequeueActiveDemand(c)
         IN EnterRecovering(IF c.phase = "Observing"
                            THEN [requeued EXCEPT !.obs = NoObservation]
                            ELSE requeued)

-----------------------------------------------------------------------------
(* Handlers: timers. *)

SettleRecovery(c) ==
    [c EXCEPT !.phase = IF c.obs = NoObservation THEN "Primed" ELSE "Ready"]

\* Fault: a tick serves queued demands only.
AnimationTickForQueue(c, d) ==
    IF AcceptsObservation(c) THEN StartNextObservation(c) ELSE Stay(c)

AnimationTick(c, d) ==
    IF ~AcceptsObservation(c) THEN Stay(c)
    ELSE IF QueuedKinds(c) = {} /\ ExactBoundaryRefreshRequired(c)
    THEN StartBoundaryRefreshObservation(c)
    ELSE ObserveOrPlan(c, d)

\* Fault: the delay is over, so the demand starts, whatever the phase.
IngressDelayOverAtOnce(c) == StartNextObservation([c EXCEPT !.delay = "none"])

IngressDelayOver(c) ==
    IF AcceptsObservation(c) THEN StartNextObservation([c EXCEPT !.delay = "none"])
    ELSE Stay([c EXCEPT !.delay = "none"])

\* Fault: an early timer waits for the next one, which nobody arms.
IngressTimerSignalOnce(c, due) ==
    IF c.delay = "none" \/ (AcceptsObservation(c) /\ ~due) THEN Stay(c)
    ELSE IngressDelayOver(c)

IngressTimerSignal(c, due) ==
    IF c.delay = "none" THEN Stay(c)
    ELSE IF AcceptsObservation(c) /\ ~due
    THEN ScheduleTimerWithDelay([c EXCEPT !.delay = "armed"], "Ingress")
    ELSE IngressDelayOver(c)

IsActive(c, e) == c.timers[e.timer] = [gen |-> e.gen, armed |-> TRUE]

ReduceTimerFired(c, e, d) ==
    IF ~IsActive(c, e) THEN Stay(c)
    ELSE LET fired == Disarm(c, e.timer)
         IN CASE e.timer = "Animation" -> AnimationTick(fired, d)
              [] e.timer = "Ingress"   -> IngressTimerSignal(fired, e.due)
              [] e.timer = "Recovery"  ->
                    IF c.phase = "Recovering"
                    THEN ObserveOrPlan(SettleRecovery(fired), d)
                    ELSE Stay(fired)
              [] e.timer = "Cleanup"   -> EmitCleanupOrArm(fired, e.due)

\* A timer the host could not start.  Animation state is reset and the screen
\* cleared; cleanup stops re-arming itself.
ReduceTimerLost(c, e) ==
    IF ~IsActive(c, e) THEN Stay(c)
    ELSE LET lost == Disarm(c, e.timer)
         IN CASE e.timer = "Animation" ->
                    IF ~AcceptsObservation(c) THEN Stay(lost)
                    ELSE [next    |-> [lost EXCEPT !.animating = FALSE],
                          effects |-> <<[type |-> "ApplyRenderCleanup",
                                         execution |-> "SoftClear"]>>]
              [] e.timer = "Ingress"   -> IngressDelayOver(lost)
              [] e.timer = "Recovery"  ->
                    Stay(IF c.phase = "Recovering" THEN SettleRecovery(lost)
                                                   ELSE lost)
              [] e.timer = "Cleanup"   ->
                    [next    |-> [lost EXCEPT !.cleanup.quiesced =
                                     lost.cleanup.thermal # "Cold"],
                     effects |-> CleanupEffects(lost, e.due)]

-----------------------------------------------------------------------------

Reduce(c, e, d) ==
    CASE e.type = "Initialize"               -> ReduceInitialize(c)
      [] e.type = "ExternalDemandQueued"     -> ReduceExternalDemandQueued(c, e)
      [] e.type = "ObservationBaseCollected" -> ReduceObservationBaseCollected(c, e, d)
      [] e.type = "ProbeReported"            -> ReduceProbeReported(c, e, d)
      [] e.type = "RenderPlanComputed"       -> ReduceRenderPlanComputed(c, e)
      [] e.type = "RenderPlanFailed"         -> ReduceRenderPlanFailed(c, e)
      [] e.type = "ApplyReported"            -> ReduceApplyReported(c, e)
      [] e.type = "RenderCleanupApplied"     -> ReduceRenderCleanupApplied(c, e)
      [] e.type = "RetainedResourcesObserved" -> ReduceRetainedResourcesObserved(c, e)
      [] e.type = "EffectFailed"             -> ReduceEffectFailed(c, e)
      [] e.type = "TimerFired"               -> ReduceTimerFired(c, e, d)
      [] e.type = "TimerLost"                -> ReduceTimerLost(c, e)

=============================================================================
