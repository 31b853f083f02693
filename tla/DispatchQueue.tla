---------------------------- MODULE DispatchQueue ---------------------------
(* The scheduled effect queue of smear-cursor and the drain that serves it   *)
(* (events/runtime/dispatch_queue.rs, events/handlers/core_dispatch).        *)
(*                                                                           *)
(* The reducer stages batches of effects; a drain, scheduled as a callback   *)
(* of the editor, executes a bounded number of units.  SmearCore models what *)
(* the effects do; this module models how they are queued and served.        *)
(*                                                                           *)
(* An agenda of shell-only steps is kept as its steps: shell-only work joins *)
(* the agenda at the back, so two agendas are never neighbours and the queue *)
(* of items is the sequence of its units.  Every run of effects of one kind  *)
(* in a batch, and every staged event, has a number; a unit carries the      *)
(* numbers of the work coalesced into it.                                    *)
EXTENDS Naturals, Sequences

CONSTANTS MinPerEdge, MaxPerEdge, MaxChained,   \* 16, 32 and 96 in the code
          Batches,     \* batches a transition may emit, as runs of one kind
          MaxStaged,   \* bound: runs and events staged
          Faults,      \* which faults occur
          MaxFaults    \* bound: faults

ShellOnly == {"metrics", "redraw"}

EffectKinds == {"ordered"} \cup ShellOnly

UnitKinds == {"event"} \cup EffectKinds

FaultKinds == {"fail", "lane", "panic", "plugin", "reset"}

Thermals == {"cold", "hot", "cooling"}

(* The budgets are ordered as the code's constants are. *)
ASSUME BudgetAssumption ==
  /\ MinPerEdge \in Nat /\ MaxPerEdge \in Nat /\ MaxChained \in Nat
  /\ 1 <= MinPerEdge /\ MinPerEdge <= MaxPerEdge /\ MaxPerEdge <= MaxChained

(* split_effect_batch_by_semantic_power makes one segment of neighbouring    *)
(* effects of one power and append_effect one step of neighbouring metrics   *)
(* or redraws: the runs of a batch have different kinds.                     *)
ASSUME BatchAssumption ==
  /\ Batches \subseteq Seq(EffectKinds)
  /\ \A b \in Batches : \A i \in 1 .. (Len(b) - 1) : b[i] # b[i + 1]

ASSUME BoundAssumption ==
  MaxStaged \in Nat /\ MaxFaults \in Nat /\ Faults \subseteq FaultKinds

VARIABLES
  units,            \* the queue
  pending,          \* pending_work_units
  drain_scheduled,
  drains,           \* drain callbacks the editor has not run yet
  running,          \* a drain callback is running
  edge,             \* its budget, what it drained, and the newest work at its start
  unit,             \* the unit it is executing
  thermal,          \* thermal state of the render cleanup
  staged,           \* history: the number of the newest work
  faults

queueVars == <<units, pending, drain_scheduled, staged>>
edgeVars == <<running, edge, unit>>
vars == <<units, pending, drain_scheduled, drains, running, edge, unit,
          thermal, staged, faults>>

NoUnit == [kind |-> "none", ids |-> {}]

NoEdge == [thermal |-> "cold", left |-> 0, total |-> 0, mark |-> 0]

Units == [kind : UnitKinds, ids : SUBSET Nat]

Edges == [thermal : Thermals, left : 0 .. MaxChained, total : Nat, mark : Nat]

Init ==
  /\ units = <<>> /\ pending = 0 /\ drain_scheduled = FALSE /\ drains = 0
  /\ running = FALSE /\ edge = NoEdge /\ unit = NoUnit
  /\ thermal = "cold" /\ staged = 0 /\ faults = 0

-----------------------------------------------------------------------------
(* Staging. *)

(* Fault: ordered effects are merged like metrics. *)
CoalescesAnyKind(q, batch) == q # <<>> /\ q[Len(q)].kind = batch[1]

Coalesces(q, batch) ==
  /\ q # <<>>
  /\ batch[1] \in ShellOnly
  /\ q[Len(q)].kind = batch[1]

NewUnits(batch) ==
  [i \in 1 .. Len(batch) |-> [kind |-> batch[i], ids |-> {staged + i}]]

(* Fault: metrics join the first step of metrics rather than the last. *)
JoinsFirstStep(q, batch) ==
  IF \E i \in DOMAIN q : q[i].kind = "metrics" /\ batch[1] = "metrics"
  THEN LET i == CHOOSE i \in DOMAIN q :
                  /\ q[i].kind = "metrics"
                  /\ \A j \in 1 .. (i - 1) : q[j].kind # "metrics"
       IN [q EXCEPT ![i].ids = @ \cup {staged + 1}] \o Tail(NewUnits(batch))
  ELSE q \o NewUnits(batch)

WithBatch(q, batch) ==
  IF Coalesces(q, batch)
  THEN [q EXCEPT ![Len(q)].ids = @ \cup {staged + 1}] \o Tail(NewUnits(batch))
  ELSE q \o NewUnits(batch)

(* Fault: a coalesced step is counted as a new one. *)
CountsEveryRun(q, batch) == Len(batch)

AddedUnits(q, batch) == IF Coalesces(q, batch) THEN Len(batch) - 1 ELSE Len(batch)

(* finish_stage and the caller's reaction to should_schedule. *)
FinishStage ==
  /\ drain_scheduled' = TRUE
  /\ drains' = IF drain_scheduled THEN drains ELSE drains + 1

StageBatch(batch) ==
  /\ staged + Len(batch) <= MaxStaged
  /\ IF batch = <<>>
     THEN UNCHANGED <<queueVars, drains>>
     ELSE /\ units' = WithBatch(units, batch)
          /\ pending' = pending + AddedUnits(units, batch)
          /\ staged' = staged + Len(batch)
          /\ FinishStage

StageCoreEvent ==
  /\ staged < MaxStaged
  /\ units' = Append(units, [kind |-> "event", ids |-> {staged + 1}])
  /\ pending' = pending + 1
  /\ staged' = staged + 1
  /\ FinishStage

(* A reduced event may change the thermal state, then its effects are staged. *)
Transition ==
  /\ thermal' \in Thermals
  /\ \E batch \in Batches : StageBatch(batch)

(* Fault: the reset empties the queue and forgets the flag. *)
ReportsUnderOldFlag(held) ==
  /\ staged < MaxStaged
  /\ units' = <<[kind |-> "event", ids |-> {staged + 1}]>>
  /\ pending' = 1
  /\ staged' = staged + 1
  /\ drain_scheduled' = TRUE
  /\ drains' = IF drain_scheduled THEN held ELSE held + 1

(* The queue is reset, then EffectFailed is staged into it; held callbacks   *)
(* stay with the editor.                                                     *)
ResetAndReport(held) ==
  /\ staged < MaxStaged
  /\ units' = <<[kind |-> "event", ids |-> {staged + 1}]>>
  /\ pending' = 1
  /\ staged' = staged + 1
  /\ drain_scheduled' = TRUE
  /\ drains' = held + 1

Fault(kind) ==
  /\ kind \in Faults
  /\ faults < MaxFaults
  /\ faults' = faults + 1

-----------------------------------------------------------------------------
(* Callbacks of the editor, between two drains. *)

EditorCallback ==
  /\ ~running
  /\ Transition
  /\ UNCHANGED <<edgeVars, faults>>

(* setup, toggle and jump_to_current_cursor reset the transient state.  A    *)
(* callback the editor already holds is not taken back.                      *)
PluginReset ==
  /\ ~running
  /\ Fault("reset")
  /\ units' = <<>> /\ pending' = 0 /\ drain_scheduled' = FALSE
  /\ thermal' = "cold"
  /\ UNCHANGED <<drains, staged, edgeVars>>

(* A panic in a callback, outside the reducer and shell lanes. *)
PluginCallbackPanics ==
  /\ ~running
  /\ Fault("plugin")
  /\ StageCoreEvent
  /\ UNCHANGED <<thermal, edgeVars>>

EdgeOver == running' = FALSE /\ edge' = NoEdge /\ unit' = NoUnit

(* A panic inside a lane, in an editor callback or in a drain: the recovery  *)
(* plan resets queue and core before the unwinding reaches the guard, which  *)
(* reports the failure.                                                      *)
LanePanics ==
  /\ running => unit # NoUnit
  /\ Fault("lane")
  /\ ResetAndReport(drains)
  /\ thermal' = "cold"
  /\ EdgeOver

-----------------------------------------------------------------------------
(* The drain. *)

Least(a, b) == IF a < b THEN a ELSE b

OnlyShellSteps == \A i \in DOMAIN units : units[i].kind \in ShellOnly

(* clamp(ceil(queued / 2), MinPerEdge, MaxPerEdge) *)
BoundedHalf(queued) ==
  LET half == (queued + 1) \div 2
  IN IF half < MinPerEdge THEN MinPerEdge ELSE Least(half, MaxPerEdge)

Budget ==
  LET ceiling == IF thermal = "hot" /\ OnlyShellSteps THEN MaxChained
                 ELSE IF thermal = "cooling" THEN MaxPerEdge
                 ELSE BoundedHalf(pending)
  IN Least(pending, ceiling)

(* scheduled_drain_snapshot; an empty queue clears the flag. *)
TakeSnapshot(total, mark) ==
  /\ edge' = [thermal |-> thermal, left |-> Budget, total |-> total, mark |-> mark]
  /\ drain_scheduled' = (drain_scheduled /\ pending # 0)

DrainStarts ==
  /\ ~running /\ drains > 0
  /\ drains' = drains - 1
  /\ running' = TRUE
  /\ TakeSnapshot(0, staged)
  /\ UNCHANGED <<units, pending, staged, unit, thermal, faults>>

(* The executor cannot be built: the host bridge is not installed. *)
DrainCannotStart ==
  /\ ~running /\ drains > 0
  /\ Fault("fail")
  /\ ResetAndReport(drains - 1)
  /\ UNCHANGED <<thermal, edgeVars>>

(* pop_work_unit; finding nothing would end the drain. *)
PopWorkUnit ==
  /\ running /\ unit = NoUnit /\ edge.left > 0
  /\ IF units = <<>>
     THEN /\ drain_scheduled' = FALSE
          /\ EdgeOver
          /\ UNCHANGED <<units, pending>>
     ELSE /\ unit' = Head(units)
          /\ units' = Tail(units)
          /\ pending' = IF pending = 0 THEN 0 ELSE pending - 1
          /\ UNCHANGED <<drain_scheduled, running, edge>>
  /\ UNCHANGED <<drains, staged, thermal, faults>>

UnitOver ==
  /\ unit' = NoUnit
  /\ edge' = [edge EXCEPT !.left = @ - 1, !.total = @ + 1]
  /\ UNCHANGED running

(* A staged event is reduced once and its effects are staged. *)
DispatchEvent ==
  /\ unit.kind = "event"
  /\ Transition
  /\ UnitOver
  /\ UNCHANGED faults

(* An effect of an ordered batch answers with a follow-up: it is reduced, or *)
(* staged when it is the report of a probe that has to be refreshed.         *)
FollowUp ==
  /\ unit.kind = "ordered"
  /\ \/ Transition
     \/ StageCoreEvent /\ UNCHANGED thermal
  /\ UNCHANGED <<edgeVars, faults>>

(* Effects and steps that reach the end without a further answer. *)
UnitDone ==
  /\ unit.kind \in EffectKinds
  /\ UnitOver
  /\ UNCHANGED <<queueVars, drains, thermal, faults>>

(* An effect or a reduction reports an error: the drain ends, the queue is   *)
(* reset and the failure staged.                                             *)
UnitFails ==
  /\ unit.kind \in {"ordered", "event"}
  /\ Fault("fail")
  /\ ResetAndReport(drains)
  /\ EdgeOver
  /\ UNCHANGED thermal

(* An executor panics outside the lanes: nothing is reset, and the guard of  *)
(* the callback stages the failure.                                          *)
UnitPanics ==
  /\ unit # NoUnit
  /\ Fault("panic")
  /\ StageCoreEvent
  /\ EdgeOver
  /\ UNCHANGED thermal

PassOver == running /\ unit = NoUnit /\ edge.left = 0

(* Fault: a hot edge goes on with whatever is queued. *)
ChainsOnAnyWork == edge.thermal = "hot" /\ edge.total < MaxChained /\ units # <<>>

(* Fault: a hot edge goes on until the queue is empty. *)
ChainsUntilEmpty == edge.thermal = "hot" /\ units # <<>> /\ OnlyShellSteps

(* should_continue_shell_only_follow_up_chain.  A pass that comes to its end *)
(* has drained its whole budget.                                             *)
ChainsOn ==
  /\ edge.thermal = "hot"
  /\ edge.total < MaxChained
  /\ units # <<>>
  /\ OnlyShellSteps

NextPass ==
  /\ PassOver /\ ChainsOn
  /\ TakeSnapshot(edge.total, edge.mark)
  /\ UNCHANGED <<units, pending, drains, running, unit, thermal, staged, faults>>

(* The edge ends: what is left is for another edge, which it schedules. *)
EdgeEnds ==
  /\ PassOver /\ ~ChainsOn
  /\ IF units = <<>>
     THEN drain_scheduled' = FALSE /\ UNCHANGED drains
     ELSE drains' = drains + 1 /\ UNCHANGED drain_scheduled
  /\ EdgeOver
  /\ UNCHANGED <<units, pending, thermal, staged, faults>>

Drain == DrainStarts \/ PopWorkUnit \/ DispatchEvent \/ UnitDone \/ NextPass \/ EdgeEnds

Next ==
  \/ EditorCallback \/ PluginReset \/ PluginCallbackPanics \/ LanePanics
  \/ DrainCannotStart \/ FollowUp \/ UnitFails \/ UnitPanics
  \/ Drain

Spec == Init /\ [][Next]_vars

(* The editor runs the callbacks it holds, and a callback runs to its end. *)
FairSpec == Spec /\ WF_vars(Drain)

-----------------------------------------------------------------------------
(* Properties. *)

(* Every variable has its type, and no pass plans more than the largest      *)
(* budget (MAX_CHAINED_SCHEDULED_WORK_ITEMS_PER_EDGE).                       *)
TypeOK ==
  /\ units \in Seq(Units)
  /\ pending \in Nat /\ drains \in Nat /\ staged \in Nat /\ faults \in Nat
  /\ drain_scheduled \in BOOLEAN /\ running \in BOOLEAN
  /\ thermal \in Thermals
  /\ edge \in Edges
  /\ unit \in Units \cup {NoUnit}

(* pending_work_units, from which every budget is computed, is the number of *)
(* queued units, whatever was coalesced, popped and reset: a lower count     *)
(* strands work, a higher one lets a pass run into an empty queue.           *)
CountsUnits == pending = Len(units)

(* Queued work is served: a drain is running or the editor holds a callback  *)
(* that will run one (run_scheduled_effect_drain, finish_stage).             *)
WorkIsServed == units # <<>> => running \/ drains > 0

(* Work a drain gives rise to, other than metrics and redraws, waits for a   *)
(* later edge (drain_scheduled_work_with_executor).                          *)
FollowUpsDeferred ==
  unit.kind \in {"ordered", "event"} => \A n \in unit.ids : n <= edge.mark

(* However passes chain, an edge drains at most one ordinary budget and one  *)
(* chained budget before the editor gets its turn.                           *)
EdgeIsBounded == edge.total + edge.left <= MaxPerEdge + MaxChained

(* Only shell-only work is coalesced: ordered batches and events reach the   *)
(* executor one by one (stage_batch).                                        *)
OnlyShellWorkCoalesces ==
  \A i \in DOMAIN units :
    units[i].kind \notin ShellOnly => \A n, m \in units[i].ids : n = m

Queued == UNION {units[i].ids : i \in DOMAIN units}

Work == INSTANCE DeferredWork WITH seen <- staged, todo <- Queued

(* The queue keeps the promise of DeferredWork: first in, first out, nothing *)
(* executed twice or dropped but by failure and reset, all done in the end.  *)
ImplementsDeferredWork == Work!Spec
=============================================================================
