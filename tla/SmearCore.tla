------------------------------ MODULE SmearCore ------------------------------
(***************************************************************************)
(* The reducer of SmearReducer with the shell around it: the scheduled     *)
(* queue its effects are staged on, the drain that executes them, the host *)
(* timers they start, and the editor whose events it reduces.              *)
(*                                                                         *)
(* Effects are executed unit by unit.  A unit is one ordered batch or one  *)
(* staged event; it runs to its end, follow-up events included, before     *)
(* anything else does.  Between two units anything may happen: the code    *)
(* bounds the units of one drain pass (dispatch_queue.rs), here a pass may *)
(* end after any unit.                                                     *)
(***************************************************************************)
EXTENDS SmearReducer, SequencesExt

CONSTANTS
    MaxDemands,     \* demands the editor makes in a run
    MaxAnimations,  \* proposals after which no decision keeps animating
    FaultKinds,     \* what may fail: "observe" "refresh" "plan" "apply"
                    \* "timer" "recovery" "plugin" "retained" "cleanup"
    MaxFaults,      \* failures in a run
    MaxCleanups,    \* cleanup timer callbacks in a run
    PlanDecisions   \* the decisions the runtime reducer may take

ASSUME BoundsAssumption ==
    /\ MaxDemands \in Nat /\ MaxAnimations \in Nat
    /\ MaxFaults \in Nat /\ MaxCleanups \in Nat
    /\ PlanDecisions \subseteq Decisions

VARIABLES
    core,       \* the reducer's state
    work,       \* the scheduled queue, oldest first
    batch,      \* effects of the running unit still to execute
    followUps,  \* events of the running unit still to dispatch
    host,       \* per timer id, the token generation of the live host timer
    screen,     \* the frame the shell shows, NoFrame when it is clear
    demands,    \* demands made so far
    faults,     \* failures so far
    cleanups,   \* cleanup callbacks so far
    latest,     \* per kind, seq of the newest demand ...
    settled     \* ... and of the newest one observed or dropped on purpose

shell  == <<work, batch, followUps>>
counts == <<demands, faults, cleanups>>
ghosts == <<latest, settled>>
vars   == <<core, shell, host, screen, counts, ghosts>>

Batch(effects) == [item |-> "batch", effects |-> effects]
Staged(event)  == [item |-> "event", event |-> event]

BetweenUnits == batch = <<>> /\ followUps = <<>>

-----------------------------------------------------------------------------
(* Staging. *)

\* Shell-only work splits the effects around it into two batches; no transition
\* has it in more than one place.  It feeds nothing back and is left out of the
\* queue.
SplitEffectBatch(effects) ==
    LET shellOnly  == {i \in DOMAIN effects : effects[i].type \in ShellOnlyEffects}
        cut        == CHOOSE i \in shellOnly : TRUE
        Part(m, n) == IF m > n THEN <<>> ELSE <<Batch(SubSeq(effects, m, n))>>
    IN IF shellOnly = {} THEN Part(1, Len(effects))
       ELSE Part(1, cut - 1) \o Part(cut + 1, Len(effects))

StageBatch(effects) == work \o SplitEffectBatch(effects)

\* What the runtime reducer may decide now; animations end within the bound.
PlanChoices == {d \in PlanDecisions : d.animate => core.proposals < MaxAnimations}

\* A demand is settled when its observation is complete or its refresh budget
\* spent: a report of its own ends it.
SettledAfter(event, next) ==
    LET d == ActiveDemand(core)
    IN IF /\ event.type \in {"ObservationBaseCollected", "ProbeReported"}
          /\ d # NoDemand /\ ActiveDemand(next) # d
       THEN [settled EXCEPT ![d.kind] = d.seq]
       ELSE settled

Reduced(event, t) ==
    /\ core' = t.next
    /\ settled' = SettledAfter(event, t.next)

\* dispatch_core_event: reduce now, stage the effects.
Dispatch(event) ==
    \E d \in PlanChoices :
        LET t == Reduce(core, event, d)
        IN /\ Reduced(event, t)
           /\ work' = StageBatch(t.effects)

EffectFailed(id) == [type |-> "EffectFailed", id |-> id, redraw |-> FALSE]

\* Fault: the queue is reset and nobody is told.
DrainFailsSilently ==
    /\ work' = <<>>
    /\ batch' = <<>>
    /\ followUps' = <<>>

\* handle_scheduled_work_drain_failure: nothing that was queued survives, and
\* one failure event is staged.
DrainFails ==
    /\ work' = <<Staged(EffectFailed(0))>>
    /\ batch' = <<>>
    /\ followUps' = <<>>

Fault(kind) ==
    /\ kind \in FaultKinds
    /\ faults < MaxFaults
    /\ faults' = faults + 1

-----------------------------------------------------------------------------
Init ==
    /\ core = InitialCore
    /\ work = <<>> /\ batch = <<>> /\ followUps = <<>>
    /\ host = [t \in TimerIds |-> 0]
    /\ screen = NoFrame
    /\ demands = 0 /\ faults = 0 /\ cleanups = 0
    /\ latest  = [k \in DemandKinds |-> 0]
    /\ settled = [k \in DemandKinds |-> 0]

(* The editor. *)

Initialize ==
    /\ BetweenUnits
    /\ core.phase = "Idle"
    /\ Dispatch([type |-> "Initialize"])
    /\ UNCHANGED <<batch, followUps, host, screen, counts, latest>>

Ingress(kind) ==
    /\ BetweenUnits
    /\ demands < MaxDemands
    /\ demands' = demands + 1
    /\ \E presents \in BOOLEAN :
          /\ presents => "retained" \in FaultKinds
          /\ Dispatch([type |-> "ExternalDemandQueued", kind |-> kind,
                       presents |-> presents])
    /\ latest' = IF core.phase = "Idle" THEN latest
                 ELSE [latest EXCEPT ![kind] = core'.seq]
    /\ UNCHANGED <<batch, followUps, host, screen, faults, cleanups>>

\* Elsewhere in the plugin a callback panics and record_effect_failure stages
\* the failure behind what is queued.
PluginCallbackPanics ==
    /\ BetweenUnits
    /\ Fault("plugin")
    /\ work' = Append(work, Staged(EffectFailed(0)))
    /\ UNCHANGED <<core, batch, followUps, host, screen, demands, cleanups,
                   ghosts>>

\* A live host timer fires and its callback is dispatched.  A timer is early
\* only for a deadline that was pushed back after it was armed.
TimerFires(t) ==
    /\ BetweenUnits
    /\ host[t] # 0
    /\ host' = [host EXCEPT ![t] = 0]
    /\ t = "Cleanup" => cleanups < MaxCleanups
    /\ cleanups' = IF t = "Cleanup" THEN cleanups + 1 ELSE cleanups
    /\ \E due \in BOOLEAN :
          /\ ~due => \/ t = "Cleanup" /\ core.cleanup.pushed
                     \/ t = "Ingress" /\ core.delay = "extended"
          /\ Dispatch([type |-> "TimerFired", timer |-> t, gen |-> host[t],
                       due |-> due])
    /\ UNCHANGED <<batch, followUps, screen, demands, faults, latest>>

-----------------------------------------------------------------------------
(* The drain: take the oldest unit. *)

StartBatch ==
    /\ BetweenUnits
    /\ work # <<>> /\ Head(work).item = "batch"
    /\ batch' = Head(work).effects
    /\ work' = Tail(work)
    /\ UNCHANGED <<core, followUps, host, screen, counts, ghosts>>

\* A staged event is reduced where it stands, behind the units before it.
DispatchStaged ==
    /\ BetweenUnits
    /\ work # <<>> /\ Head(work).item = "event"
    /\ \E d \in PlanChoices :
          LET t == Reduce(core, Head(work).event, d)
          IN /\ Reduced(Head(work).event, t)
             /\ work' = Tail(StageBatch(t.effects))
    /\ UNCHANGED <<batch, followUps, host, screen, counts, latest>>

(* The drain: execute the effects of a batch, collecting follow-up events. *)

Executing(type) == batch # <<>> /\ Head(batch).type = type

\* Fault: the follow-ups of the last effect replace those of the others.
FollowedByLast(events) ==
    /\ followUps' = events
    /\ batch' = Tail(batch)
    /\ UNCHANGED work

FollowedBy(events) ==
    /\ followUps' = followUps \o events
    /\ batch' = Tail(batch)
    /\ UNCHANGED work

RetainedObserved(due) ==
    [type |-> "RetainedResourcesObserved", due |-> due]

\* Zero or one report of retained resources.  Each that occurs counts.
FollowedByWithRetained(events) ==
    \/ FollowedBy(events) /\ UNCHANGED faults
    \/ /\ Fault("retained")
       /\ \E due \in BOOLEAN : FollowedBy(Append(events, RetainedObserved(due)))

\* Only a cursor demand may be answered inexactly: ProbePolicy::for_demand asks
\* for exact reads for every other kind.
ExecuteRequestObservationBase ==
    /\ Executing("RequestObservationBase")
    /\ \/ /\ \E chunks \in 0 .. MaxChunks, samples, inexact \in BOOLEAN :
                /\ inexact => Head(batch).kind = CursorKind
                /\ samples => SamplesCursorColor
                /\ FollowedBy(<<[type |-> "ObservationBaseCollected",
                                 id |-> Head(batch).id, chunks |-> chunks,
                                 samples |-> samples, inexact |-> inexact]>>)
          /\ UNCHANGED faults
       \/ Fault("observe") /\ DrainFails
    /\ UNCHANGED <<core, host, screen, demands, cleanups, ghosts>>

IsRefresh(event) == event.type = "ProbeReported" /\ event.outcome = "refresh"

\* A probe of the observation `obs` reports once.  `refresh`: what it saw no
\* longer fits the basis.
ProbeReports(effect, obs) ==
    {[type |-> "ProbeReported", id |-> effect.id, probe |-> effect.probe,
      outcome |-> o] :
         o \in {"exact", "failed", "refresh"} \cup
              IF effect.probe = "CursorColor" /\ obs.kind = CursorKind
              THEN {"compatible"} ELSE {}}

Reported(report) == IF IsRefresh(report) THEN Fault("refresh") ELSE UNCHANGED faults

ExecuteRequestProbe ==
    /\ Executing("RequestProbe")
    /\ \E report \in ProbeReports(Head(batch), core.obs) :
          FollowedBy(<<report>>) /\ Reported(report)
    /\ UNCHANGED <<core, host, screen, demands, cleanups, ghosts>>

\* A noop targets the frame that was trusted when it was planned.
PlannedProposal(effect) ==
    [id |-> effect.id, exec |-> effect.decision.exec,
     cleanup |-> effect.decision.cleanup, animate |-> effect.decision.animate,
     basis |-> effect.basis,
     target |-> CASE effect.decision.exec = "Draw"  -> effect.id
                  [] effect.decision.exec = "Clear" -> NoFrame
                  [] effect.decision.exec = "Noop"  -> effect.basis]

ExecuteRequestRenderPlan ==
    /\ Executing("RequestRenderPlan")
    /\ \/ /\ FollowedBy(<<[type |-> "RenderPlanComputed",
                           proposal |-> PlannedProposal(Head(batch))]>>)
          /\ UNCHANGED faults
       \/ /\ Fault("plan")
          /\ FollowedBy(<<[type |-> "RenderPlanFailed", id |-> Head(batch).id]>>)
    /\ UNCHANGED <<core, host, screen, demands, cleanups, ghosts>>

ApplyReport(p, outcome, redraw) ==
    [type |-> "ApplyReported", id |-> p.id, outcome |-> outcome, redraw |-> redraw]

\* The windows of the pool are set to the proposal's target, or left as they
\* are by a noop.
ScreenAfter(p) == IF p.exec = "Noop" THEN screen ELSE p.target

\* The proposal is executed whatever the reducer thinks of it by now.  A
\* degraded apply draws a part; a failed one nothing, a panicking one anything.
ExecuteApplyProposal ==
    /\ Executing("ApplyProposal")
    /\ LET p == Head(batch).proposal
       IN \/ /\ screen' = ScreenAfter(p)
             /\ \E redraw \in BOOLEAN :
                   /\ redraw => p.exec # "Noop"
                   /\ FollowedByWithRetained(<<ApplyReport(p, "full", redraw)>>)
          \/ /\ Fault("apply")
             /\ \E report \in {ApplyReport(p, "degraded", FALSE),
                              ApplyReport(p, "failed", FALSE),
                              EffectFailed(p.id)} : FollowedBy(<<report>>)
             /\ screen' \in {screen, ScreenAfter(p)}
    /\ UNCHANGED <<core, host, demands, cleanups, ghosts>>

CleanupApplied(action, due) ==
    [type |-> "RenderCleanupApplied", action |-> action, due |-> due]

\* A soft clear hides every frame; a compaction closes pooled windows and may
\* hide what is left.  Retained resources keep either from converging.
ExecuteApplyRenderCleanup ==
    /\ Executing("ApplyRenderCleanup")
    /\ \/ /\ Head(batch).execution = "SoftClear"
          /\ screen' = NoFrame
          /\ \/ /\ FollowedBy(<<CleanupApplied("SoftClearedNone", FALSE)>>)
                /\ UNCHANGED faults
             \/ /\ Fault("retained")
                /\ FollowedBy(<<CleanupApplied("SoftClearedRetained", FALSE)>>)
       \/ /\ Head(batch).execution = "Compact"
          /\ screen' \in {screen, NoFrame}
          /\ \/ FollowedBy(<<CleanupApplied("Converged", FALSE)>>) /\ UNCHANGED faults
             \/ /\ Fault("cleanup")
                /\ \E action \in {"Progress", "NoProgress", "CleanupStalled"},
                      due \in BOOLEAN :
                      FollowedBy(<<CleanupApplied(action, due)>>)
    /\ UNCHANGED <<core, host, demands, cleanups, ghosts>>

\* The new host timer takes the slot and the one it displaces is stopped.  A
\* timer that cannot be started leaves the slot to the old one.
ExecuteScheduleTimer ==
    /\ Executing("ScheduleTimer")
    /\ \/ /\ host' = [host EXCEPT ![Head(batch).timer] = Head(batch).gen]
          /\ FollowedBy(<<>>)
          /\ UNCHANGED faults
       \/ /\ Fault(IF Head(batch).timer = "Recovery" THEN "recovery" ELSE "timer")
          /\ \E due \in BOOLEAN :
                /\ due => Head(batch).timer = "Cleanup"
                /\ FollowedBy(<<[type |-> "TimerLost", timer |-> Head(batch).timer,
                                 gen |-> Head(batch).gen, due |-> due]>>)
          /\ UNCHANGED host
    /\ UNCHANGED <<core, screen, demands, cleanups, ghosts>>

ExecuteIngressCursorPresentation ==
    /\ Executing("ApplyIngressCursorPresentation")
    /\ FollowedByWithRetained(<<>>)
    /\ UNCHANGED <<core, host, screen, demands, cleanups, ghosts>>

ExecuteEffect ==
    \/ ExecuteRequestObservationBase
    \/ ExecuteRequestProbe
    \/ ExecuteRequestRenderPlan
    \/ ExecuteApplyProposal
    \/ ExecuteApplyRenderCleanup
    \/ ExecuteScheduleTimer
    \/ ExecuteIngressCursorPresentation

(* The drain: dispatch the follow-up events of a finished batch. *)

\* A refresh report goes to the back of the queue, so that one probe cannot
\* restart its observation over and over within a unit.
StageRefreshReport ==
    /\ batch = <<>> /\ followUps # <<>> /\ IsRefresh(Head(followUps))
    /\ work' = Append(work, Staged(Head(followUps)))
    /\ followUps' = Tail(followUps)
    /\ UNCHANGED <<core, batch, host, screen, counts, ghosts>>

\* The only effect is the cursor-color probe of a base just collected, without
\* background: it runs in the same wave, before the follow-ups that remain, and
\* takes the captured witness as it is.
IsSameWaveProbe(event, effects) ==
    /\ event.type = "ObservationBaseCollected"
    /\ core.phase = "Collecting" /\ core.demand.seq = event.id
    /\ MaxChunks = 0
    /\ Len(effects) = 1
    /\ Head(effects).type = "RequestProbe"
    /\ Head(effects).probe = "CursorColor"

SameWaveReports(effect, obs) ==
    {report \in ProbeReports(effect, obs) : report.outcome \in {"exact", "failed"}}

DispatchFollowUp ==
    /\ batch = <<>> /\ followUps # <<>> /\ ~IsRefresh(Head(followUps))
    /\ \E d \in PlanChoices :
          LET event == Head(followUps)
              t     == Reduce(core, event, d)
          IN /\ Reduced(event, t)
             /\ IF IsSameWaveProbe(event, t.effects)
                THEN \E report \in SameWaveReports(Head(t.effects), t.next.obs) :
                        /\ followUps' = <<report>> \o Tail(followUps)
                        /\ UNCHANGED work
                ELSE /\ followUps' = Tail(followUps)
                     /\ work' = StageBatch(t.effects)
    /\ UNCHANGED <<batch, host, screen, counts, latest>>

Drain == StartBatch \/ DispatchStaged \/ ExecuteEffect
         \/ StageRefreshReport \/ DispatchFollowUp

Next ==
    \/ Initialize
    \/ \E kind \in ExternalKinds : Ingress(kind)
    \/ PluginCallbackPanics
    \/ \E t \in TimerIds : TimerFires(t)
    \/ Drain

\* The host runs scheduled callbacks and fires its timers.
Fairness ==
    /\ WF_vars(Drain)
    /\ \A t \in TimerIds : WF_vars(TimerFires(t))
    /\ WF_vars(Initialize)

Spec == Init /\ [][Next]_vars /\ Fairness

-----------------------------------------------------------------------------
(* Properties. *)

WorkItems == [item : {"batch"}, effects : Seq(Effects)]
             \cup [item : {"event"}, event : ShellEvents]

\* The core is always in a state the code declares reachable, and what the
\* shell holds are effects and reports of the declared shapes.
TypeOK ==
    /\ core \in CoreStates
    /\ work \in Seq(WorkItems)
    /\ batch \in Seq(Effects)
    /\ followUps \in Seq(ShellEvents)
    /\ host \in [TimerIds -> Nat]
    /\ screen \in Nat
    /\ latest \in [DemandKinds -> Nat]
    /\ settled \in [DemandKinds -> Nat]
    /\ {demands, faults, cleanups} \subseteq Nat

PendingEffects ==
    Range(batch) \cup UNION {Range(work[i].effects) :
                                 i \in {j \in DOMAIN work : work[j].item = "batch"}}

PendingEvents ==
    Range(followUps) \cup {work[i].event :
                              i \in {j \in DOMAIN work : work[j].item = "event"}}

FailurePending == EffectFailed(0) \in PendingEvents

\* The request `type` with this id, or an event among `answers` that carries it.
AwaitsAnswer(type, answers, id) ==
    \/ \E effect \in PendingEffects :
          /\ effect.type = type
          /\ IF type = "ApplyProposal" THEN effect.proposal.id = id ELSE effect.id = id
    \/ \E event \in PendingEvents :
          /\ event.type \in answers
          /\ IF event.type = "RenderPlanComputed" THEN event.proposal.id = id
                                                 ELSE event.id = id

\* A phase that waits for the shell is never left waiting: its request is
\* still to be executed, or its answer still to be dispatched, or the failure
\* that replaces both is staged.  The queue reset of a failed drain, and stale
\* answers, must not break this.
NoLostWork ==
    \/ FailurePending
    \/ CASE core.phase = "Collecting" ->
               AwaitsAnswer("RequestObservationBase", {"ObservationBaseCollected"},
                            core.demand.seq)
         [] core.phase = "Observing" ->
               AwaitsAnswer("RequestProbe", {"ProbeReported"}, core.obs.seq)
         [] core.phase = "Planning" ->
               AwaitsAnswer("RequestRenderPlan",
                            {"RenderPlanComputed", "RenderPlanFailed"},
                            core.proposal.id)
         [] core.phase = "Applying" ->
               AwaitsAnswer("ApplyProposal", {"ApplyReported", "EffectFailed"},
                            core.proposal.id)
         [] OTHER -> TRUE

\* The armed token of t will reach the reducer: its host timer is live or still
\* to be started, or its loss is still to be dispatched.
TimerPending(t) ==
    LET gen == core.timers[t].gen
    IN /\ core.timers[t].armed
       /\ \/ host[t] = gen
          \/ [type |-> "ScheduleTimer", timer |-> t, gen |-> gen] \in PendingEffects
          \/ \E event \in PendingEvents :
                event.type = "TimerLost" /\ event.timer = t /\ event.gen = gen

\* Recovery always ends by itself: a live timer stands behind the phase, even
\* when failures re-arm it while older timers are in flight.
RecoveryIsTimed ==
    core.phase = "Recovering" => TimerPending("Recovery") \/ FailurePending

\* A cursor demand held back by the ingress delay has a timer that will release
\* it, whenever nothing else would.
DelayedCursorIsTimed ==
    AcceptsObservation(core) /\ core.delay # "none" =>
        TimerPending("Ingress") \/ FailurePending

\* A running animation at rest between two frames has a timer for the next.
AnimationIsDriven ==
    core.phase = "Ready" /\ core.animating =>
        TimerPending("Animation") \/ FailurePending

\* No phase waits for ever (docs/state_ownership.md:292): recovery, a delayed
\* demand and an animation at rest each have the timer they wait for, whatever
\* was lost, failed or fired early.
PhasesAreTimed == RecoveryIsTimed /\ DelayedCursorIsTimed /\ AnimationIsDriven

\* Cleanup that is owed and not quiesced has a timer, or its work is under way.
CleanupIsTimed ==
    core.cleanup.thermal # "Cold" /\ ~core.cleanup.quiesced =>
        \/ TimerPending("Cleanup")
        \/ \E effect \in PendingEffects : effect.type = "ApplyRenderCleanup"
        \/ \E event \in PendingEvents : event.type = "RenderCleanupApplied"

\* Coalescing, retries and failures never lose the newest demand of a kind:
\* until it is settled it is queued or being observed.
NewestDemandKept ==
    \A k \in ExternalKinds :
        latest[k] > settled[k] =>
            \/ core.queue[k] = latest[k]
            \/ ActiveDemand(core) = [kind |-> k, seq |-> latest[k]]

\* ... and a demand that a newer one of its kind has overtaken is never
\* observed again.
NoStaleObservation ==
    LET d == ActiveDemand(core)
    IN d # NoDemand => d.seq > settled[d.kind]

\* Planning starts from a complete observation, whatever a failure retained.
PlansOnlyCompleteObservation ==
    core.phase \in {"Planning", "Applying"} =>
        core.obs.color = "done" /\ core.obs.chunks = 0

\* The proposal about to be executed is the one the reducer waits for.
ShellAppliesCurrentProposal ==
    Executing("ApplyProposal") =>
        core.phase = "Applying" /\ core.proposal = Head(batch).proposal

\* A consistent ledger tells the truth: the shell shows the trusted frame.
LedgerTruth ==
    BetweenUnits /\ core.ledger.kind = "Consistent" => screen = core.ledger.frame

\* Every demand is observed in the end, or a newer one of its kind in its place.
DemandsSettle ==
    \A k \in ExternalKinds : latest[k] > settled[k] ~> latest[k] = settled[k]

=============================================================================
