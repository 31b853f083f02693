------------------------ MODULE DispatchQueueProofs -------------------------
(* Proofs about DispatchQueue, for all budgets, batches and bounds.  Every   *)
(* way of staging is shown to have one shape (Grows), and each invariant is  *)
(* proved from that shape.                                                   *)
EXTENDS DispatchQueue, SequenceTheorems, TLAPS

(* len runs are staged, the first of them into the last unit when c = 1. *)
Grows(len, c) ==
  /\ units' \in Seq(Units)
  /\ Len(units') = Len(units) + len - c
  /\ pending' = pending + len - c
  /\ staged' = staged + len
  /\ c = 1 => /\ units # <<>> /\ units[Len(units)].kind \in ShellOnly
              /\ units'[Len(units)].kind = units[Len(units)].kind
              /\ units'[Len(units)].ids = units[Len(units)].ids \cup {staged + 1}
  /\ \A i \in 1 .. Len(units) : i < Len(units) \/ c = 0 => units'[i] = units[i]
  /\ \A i \in (Len(units) + 1) .. Len(units') :
       units'[i].ids = {staged + (i - Len(units)) + c}
  /\ FinishStage

Stages ==
  \/ UNCHANGED <<queueVars, drains>>
  \/ \E len \in Nat \ {0}, c \in {0, 1} : c <= len /\ Grows(len, c)

Busy == IF unit = NoUnit THEN 0 ELSE 1

(* A unit in execution is the one the budget of a running pass counts, and   *)
(* the budget never exceeds what is queued.                                  *)
PassInv ==
  /\ unit # NoUnit => running /\ edge.left > 0
  /\ ~running => edge = NoEdge
  /\ edge.left <= Len(units) + Busy

TypeInv == TypeOK /\ CountsUnits /\ PassInv

-----------------------------------------------------------------------------
(* Lemmas about staging. *)

(* Concatenation keeps the first sequence and appends the second. *)
LEMMA ConcatShape ==
  ASSUME NEW S, NEW a \in Seq(S), NEW b \in Seq(S), NEW r, r = a \o b
  PROVE  /\ r \in Seq(S)
         /\ Len(r) = Len(a) + Len(b)
         /\ \A i \in 1 .. Len(a) : r[i] = a[i]
         /\ \A i \in (Len(a) + 1) .. Len(r) : r[i] = b[i - Len(a)]
<1>0. Len(a) \in Nat /\ Len(b) \in Nat
  BY LenProperties
<1>1. /\ r \in Seq(S) /\ Len(r) = Len(a) + Len(b)
      /\ \A i \in 1 .. Len(a) + Len(b) : r[i] = IF i <= Len(a) THEN a[i] ELSE b[i - Len(a)]
  BY ConcatProperties
<1>2. ASSUME NEW i \in 1 .. Len(a)
      PROVE  r[i] = a[i]
  <2>1. i \in 1 .. Len(a) + Len(b) /\ i <= Len(a)
    BY <1>0
  <2> QED BY <1>1, <2>1
<1>3. ASSUME NEW i \in (Len(a) + 1) .. Len(r)
      PROVE  r[i] = b[i - Len(a)]
  <2>1. i \in 1 .. Len(a) + Len(b) /\ ~(i <= Len(a))
    BY <1>0, <1>1
  <2> QED BY <1>1, <2>1
<1> QED BY <1>1, <1>2, <1>3

(* The empty batch stages nothing, the others have the shape (StageBatch). *)
LEMMA BatchStages ==
  ASSUME TypeOK, NEW batch \in Batches, StageBatch(batch)
  PROVE  Stages
<1>1. CASE batch = <<>>
  BY <1>1 DEF StageBatch, Stages
<1>2. CASE batch # <<>>
  <2> DEFINE n == Len(units)
             c == IF Coalesces(units, batch) THEN 1 ELSE 0
             new == NewUnits(batch)
  <2>0. /\ batch \in Seq(EffectKinds) /\ Len(batch) \in Nat \ {0}
        /\ n \in Nat /\ staged \in Nat /\ units \in Seq(Units)
    BY <1>2, BatchAssumption DEF TypeOK
  <2>1. /\ units' = WithBatch(units, batch)
        /\ pending' = pending + Len(batch) - c
        /\ staged' = staged + Len(batch)
        /\ FinishStage
    BY <1>2, <2>0 DEF StageBatch, AddedUnits, TypeOK
  <2>2. /\ new \in Seq(Units) /\ Len(new) = Len(batch)
        /\ \A i \in 1 .. Len(batch) : new[i].ids = {staged + i}
    <3>1. \A i \in 1 .. Len(batch) : batch[i] \in UnitKinds
      BY <2>0 DEF UnitKinds
    <3>2. \A i \in 1 .. Len(batch) : {staged + i} \in SUBSET Nat
      BY <2>0
    <3>3. new \in [1 .. Len(batch) -> Units]
      BY <3>1, <3>2 DEF NewUnits, Units
    <3>4. new \in Seq(Units)
      BY <3>3, <2>0, SeqDef
    <3>5. \A i \in 1 .. Len(batch) : new[i].ids = {staged + i}
      BY DEF NewUnits
    <3>6. Len(new) = Len(batch)
      BY <2>0 DEF NewUnits
    <3> QED BY <3>4, <3>5, <3>6
  <2>3. CASE Coalesces(units, batch)
    <3> DEFINE last == [units[n] EXCEPT !.ids = @ \cup {staged + 1}]
               old == [units EXCEPT ![n] = last]
    <3>1. c = 1 /\ n > 0 /\ units[n].kind \in ShellOnly
      BY <2>0, <2>3 DEF Coalesces
    <3>2. /\ last \in Units
          /\ last.kind = units[n].kind
          /\ last.ids = units[n].ids \cup {staged + 1}
      <4>1. units[n] \in Units
        BY <2>0, <3>1, ElementOfSeq
      <4>2. {staged + 1} \subseteq Nat
        BY <2>0
      <4> QED BY <4>1, <4>2 DEF Units
    <3>3. /\ old \in Seq(Units) /\ Len(old) = n
          /\ \A i \in 1 .. n : old[i] = IF i = n THEN last ELSE units[i]
      <4>1. n \in 1 .. Len(units)
        BY <2>0, <3>1
      <4> HIDE DEF last
      <4> QED BY <2>0, <3>2, <4>1, ExceptSeq
    <3>4. /\ Tail(new) \in Seq(Units) /\ Len(Tail(new)) = Len(batch) - 1
          /\ \A i \in 1 .. Len(Tail(new)) : Tail(new)[i].ids = {staged + (i + 1)}
      <4> HIDE DEF new
      <4>1. new # <<>>
        BY <2>0, <2>2
      <4>2. /\ Tail(new) \in Seq(Units) /\ Len(Tail(new)) = Len(batch) - 1
            /\ \A i \in 1 .. Len(Tail(new)) : Tail(new)[i] = new[i + 1]
        BY <2>2, <4>1, HeadTailProperties
      <4>3. ASSUME NEW i \in 1 .. Len(Tail(new))
            PROVE  Tail(new)[i].ids = {staged + (i + 1)}
        <5>1. i + 1 \in 1 .. Len(batch)
          BY <2>0, <4>2
        <5> QED BY <2>2, <4>2, <5>1
      <4> QED BY <4>2, <4>3
    <3>5. units' = old \o Tail(new)
      BY <2>1, <2>3 DEF WithBatch
    <3> DEFINE rest == Tail(new)
    <3> HIDE DEF old, new, rest, last
    <3>6. /\ units' \in Seq(Units) /\ Len(units') = n + Len(batch) - 1
          /\ \A i \in 1 .. n : units'[i] = old[i]
          /\ \A i \in (n + 1) .. Len(units') : units'[i] = rest[i - n]
      <4>1. rest \in Seq(Units) /\ Len(rest) = Len(batch) - 1
        BY <3>4 DEF rest
      <4>2. units' = old \o rest
        BY <3>5 DEF rest
      <4>3. old \in Seq(Units) /\ Len(old) = n
        BY <3>3
      <4>4. /\ units' \in Seq(Units) /\ Len(units') = Len(old) + Len(rest)
            /\ \A i \in 1 .. Len(old) : units'[i] = old[i]
            /\ \A i \in (Len(old) + 1) .. Len(units') : units'[i] = rest[i - Len(old)]
        <5>1. ASSUME NEW a \in Seq(Units), NEW b \in Seq(Units), NEW r, r = a \o b
              PROVE  /\ r \in Seq(Units) /\ Len(r) = Len(a) + Len(b)
                     /\ \A i \in 1 .. Len(a) : r[i] = a[i]
                     /\ \A i \in (Len(a) + 1) .. Len(r) : r[i] = b[i - Len(a)]
          BY <5>1, ConcatShape
        <5>2. old \in Seq(Units) /\ rest \in Seq(Units)
          BY <4>1, <4>3
        <5> QED BY <4>2, <5>1, <5>2
      <4>5. n + Len(rest) = n + Len(batch) - 1
        BY <2>0, <4>1
      <4> HIDE DEF n
      <4> QED BY <4>3, <4>4, <4>5
    <3>7. ASSUME NEW i \in (n + 1) .. Len(units')
          PROVE  units'[i].ids = {staged + (i - n) + 1}
      <4>1. i - n \in 1 .. Len(Tail(new)) /\ i \in Nat
        BY <2>0, <3>4, <3>6
      <4>2. rest[i - n].ids = {staged + ((i - n) + 1)}
        BY <3>4, <4>1 DEF rest
      <4>3. staged + ((i - n) + 1) = staged + (i - n) + 1
        BY <2>0, <4>1
      <4> QED BY <3>6, <4>2, <4>3
    <3>8. n \in 1 .. n /\ units'[n] = last
      BY <2>0, <3>1, <3>3, <3>6
    <3>9. Grows(Len(batch), 1)
      BY <2>0, <2>1, <3>1, <3>2, <3>3, <3>6, <3>7, <3>8 DEF Grows
    <3> QED BY <2>0, <3>9 DEF Stages
  <2>4. CASE ~Coalesces(units, batch)
    <3>1. units' = units \o new
      BY <2>1, <2>4 DEF WithBatch
    <3> HIDE DEF new
    <3>2. /\ units' \in Seq(Units) /\ Len(units') = n + Len(batch)
          /\ \A i \in 1 .. n : units'[i] = units[i]
          /\ \A i \in (n + 1) .. Len(units') : units'[i] = new[i - n]
      <4>1. /\ units' \in Seq(Units) /\ Len(units') = n + Len(new)
            /\ \A i \in 1 .. n : units'[i] = units[i]
            /\ \A i \in (n + 1) .. Len(units') : units'[i] = new[i - n]
        <5>1. new \in Seq(Units) /\ units \in Seq(Units)
          BY <2>0, <2>2
        <5> QED BY <3>1, <5>1, ConcatShape
      <4> QED BY <2>2, <4>1
    <3>3. ASSUME NEW i \in (n + 1) .. Len(units')
          PROVE  units'[i].ids = {staged + (i - n) + 0}
      <4>1. i - n \in 1 .. Len(batch) /\ i \in Nat
        BY <2>0, <3>2
      <4>2. staged + (i - n) = staged + (i - n) + 0
        BY <2>0, <4>1
      <4> QED BY <2>2, <3>2, <4>1, <4>2
    <3>4. Grows(Len(batch), 0)
      BY <2>0, <2>1, <2>4, <3>2, <3>3 DEF Grows
    <3> QED BY <2>0, <3>4 DEF Stages
  <2> QED BY <2>3, <2>4
<1> QED BY <1>1, <1>2

(* A staged event has the shape (stage_core_event). *)
LEMMA EventStages ==
  ASSUME TypeOK, StageCoreEvent
  PROVE  Stages
<1> DEFINE new == [kind |-> "event", ids |-> {staged + 1}]
<1>1. new \in Units /\ new.ids = {staged + 1}
  BY DEF TypeOK, Units, UnitKinds
<1>2. units' = Append(units, new) /\ units \in Seq(Units) /\ staged \in Nat
  BY DEF StageCoreEvent, TypeOK
<1> HIDE DEF new
<1>3. /\ units' \in Seq(Units) /\ Len(units') = Len(units) + 1
      /\ \A i \in 1 .. Len(units) : units'[i] = units[i]
      /\ units'[Len(units) + 1] = new
  BY <1>1, <1>2
<1>4. Grows(1, 0)
  BY <1>1, <1>2, <1>3 DEF Grows, StageCoreEvent, TypeOK
<1> QED BY <1>4 DEF Stages

-----------------------------------------------------------------------------
(* Type correctness, and the counter of queued units. *)

(* Staging keeps the types and counts what it appends (finish_stage). *)
LEMMA StagesType ==
  ASSUME TypeOK, CountsUnits, Stages
  PROVE  /\ units' \in Seq(Units) /\ pending' \in Nat /\ staged' \in Nat
         /\ drains' \in Nat /\ drain_scheduled' \in BOOLEAN
         /\ CountsUnits' /\ Len(units) <= Len(units') /\ staged <= staged'
<1>0. /\ units \in Seq(Units) /\ Len(units) \in Nat /\ pending = Len(units)
      /\ staged \in Nat /\ drains \in Nat /\ drain_scheduled \in BOOLEAN
  BY DEF TypeOK, CountsUnits
<1>1. CASE UNCHANGED <<queueVars, drains>>
  <2>1. /\ units' = units /\ pending' = pending /\ staged' = staged
        /\ drains' = drains /\ drain_scheduled' = drain_scheduled
    BY <1>1 DEF queueVars
  <2>2. CountsUnits'
    BY <1>0, <2>1 DEF CountsUnits
  <2> QED BY <1>0, <2>1, <2>2
<1>2. ASSUME NEW len \in Nat \ {0}, NEW c \in {0, 1}, c <= len, Grows(len, c)
      PROVE  /\ units' \in Seq(Units) /\ pending' \in Nat /\ staged' \in Nat
             /\ drains' \in Nat /\ drain_scheduled' \in BOOLEAN
             /\ CountsUnits' /\ Len(units) <= Len(units') /\ staged <= staged'
  BY <1>0, <1>2 DEF Grows, FinishStage, CountsUnits
<1> QED BY <1>1, <1>2 DEF Stages

(* After a reported failure the report is all that is queued. *)
LEMMA ResetType ==
  ASSUME TypeOK, NEW held \in Nat, ResetAndReport(held)
  PROVE  /\ units' \in Seq(Units) /\ Len(units') = 1 /\ pending' = 1
         /\ units'[1] = [kind |-> "event", ids |-> {staged + 1}]
         /\ staged' = staged + 1 /\ staged' \in Nat /\ drains' \in Nat
         /\ drain_scheduled' = TRUE /\ drains' > 0 /\ CountsUnits'
<1> DEFINE new == [kind |-> "event", ids |-> {staged + 1}]
<1>1. new \in Units /\ staged \in Nat
  BY DEF TypeOK, Units, UnitKinds
<1>2. units' = <<new>> /\ pending' = 1
  BY DEF ResetAndReport
<1>3. units' \in Seq(Units) /\ Len(units') = 1 /\ units'[1] = new
  <2> HIDE DEF new
  <2> QED BY <1>1, <1>2
<1>4. /\ staged' = staged + 1 /\ staged' \in Nat /\ drains' = held + 1
      /\ drain_scheduled' = TRUE
  BY <1>1 DEF ResetAndReport
<1> QED BY <1>2, <1>3, <1>4 DEF CountsUnits

(* A budget is at most the queue and at most the largest ceiling. *)
LEMMA BudgetType ==
  ASSUME TypeOK, CountsUnits
  PROVE  Budget \in 0 .. MaxChained /\ Budget <= Len(units) /\ Budget <= pending
<1>1. pending \in Nat /\ pending = Len(units)
  BY DEF TypeOK, CountsUnits
<1>2. BoundedHalf(pending) \in 0 .. MaxPerEdge
  BY <1>1, BudgetAssumption DEF BoundedHalf, Least
<1> QED BY <1>1, <1>2, BudgetAssumption DEF Budget, Least

(* The kind tells a unit from none. *)
LEMMA NoUnitIsNone ==
  /\ NoUnit \notin Units
  /\ NoUnit.kind = "none"
  /\ \A u \in Units : u.kind \in UnitKinds
<1>1. NoUnit.kind = "none"
  BY DEF NoUnit
<1>2. \A u \in Units : u.kind \in UnitKinds
  BY DEF Units
<1>3. "none" \notin UnitKinds
  BY DEF UnitKinds, EffectKinds, ShellOnly
<1> QED BY <1>1, <1>2, <1>3

(* After an edge nothing is running. *)
LEMMA IdleEdge ==
  ASSUME EdgeOver
  PROVE  /\ running' = FALSE /\ unit' = NoUnit /\ edge' = NoEdge
         /\ edge' \in Edges
         /\ edge'.left = 0 /\ edge'.total = 0 /\ edge'.mark = 0 /\ Busy' = 0
BY BudgetAssumption DEF EdgeOver, NoEdge, Edges, Thermals, Busy

(* The executed unit is counted off. *)
LEMMA UnitOverType ==
  ASSUME TypeInv, UnitOver, unit # NoUnit
  PROVE  /\ running' = running /\ running /\ unit' = NoUnit /\ Busy' = 0 /\ Busy = 1
         /\ edge' \in Edges
         /\ edge'.left = edge.left - 1 /\ edge'.total = edge.total + 1
         /\ edge'.thermal = edge.thermal /\ edge'.mark = edge.mark
<1>1. /\ edge \in Edges /\ edge.left > 0 /\ running
      /\ edge.left \in 0 .. MaxChained /\ edge.total \in Nat
  BY DEF TypeInv, TypeOK, PassInv, Edges
<1>2. /\ running' = running /\ unit' = NoUnit
      /\ edge' = [edge EXCEPT !.left = edge.left - 1, !.total = edge.total + 1]
  BY DEF UnitOver
<1>3. edge.left - 1 \in 0 .. MaxChained /\ edge.total + 1 \in Nat
  BY <1>1, BudgetAssumption
<1>4. /\ edge' \in Edges /\ edge'.left = edge.left - 1 /\ edge'.total = edge.total + 1
      /\ edge'.thermal = edge.thermal /\ edge'.mark = edge.mark
  BY <1>1, <1>2, <1>3 DEF Edges
<1> QED BY <1>1, <1>2, <1>4 DEF Busy

(* The types, the counter and the budgets hold initially and are kept by     *)
(* every action.                                                             *)
LEMMA TypeInvInit == Init => TypeInv
<1> SUFFICES ASSUME Init PROVE TypeInv
  OBVIOUS
<1>1. units = <<>> /\ units \in Seq(Units) /\ Len(units) = 0
  BY EmptySeq DEF Init
<1>2. edge = NoEdge /\ edge \in Edges /\ edge.left = 0 /\ unit = NoUnit
  BY BudgetAssumption DEF Init, NoEdge, Edges, Thermals
<1>3. TypeOK /\ CountsUnits
  BY <1>1, <1>2 DEF Init, TypeOK, CountsUnits, Thermals
<1>4. PassInv
  BY <1>1, <1>2 DEF Init, PassInv, Busy
<1> QED BY <1>3, <1>4 DEF TypeInv

LEMMA TypeInvStep ==
  ASSUME TypeInv, [Next]_vars
  PROVE  TypeInv'
<1> USE DEF TypeInv
<1>0. /\ units \in Seq(Units) /\ Len(units) \in Nat /\ pending = Len(units)
      /\ edge \in Edges
      /\ edge.left \in Nat /\ edge.total \in Nat /\ edge.mark \in Nat
      /\ unit \in Units \cup {NoUnit} /\ Busy \in {0, 1}
      /\ drains \in Nat /\ staged \in Nat /\ faults \in Nat /\ thermal \in Thermals
      /\ running \in BOOLEAN /\ drain_scheduled \in BOOLEAN
      /\ (Busy = 1 <=> unit # NoUnit)
  <2>1. \A e \in Edges : e.left \in Nat /\ e.total \in Nat /\ e.mark \in Nat
    BY BudgetAssumption DEF Edges
  <2> QED BY <2>1 DEF TypeOK, CountsUnits, Busy
<1>1. ASSUME Stages, UNCHANGED edgeVars, thermal' \in Thermals, faults' \in Nat
      PROVE  TypeInv'
  <2>1. edge' = edge /\ unit' = unit /\ running' = running /\ Busy' = Busy
    BY <1>1 DEF edgeVars, Busy
  <2>2. TypeOK' /\ CountsUnits'
    BY <1>0, <1>1, <2>1, StagesType DEF TypeOK
  <2>3. PassInv'
    BY <1>0, <1>1, <2>1, StagesType DEF PassInv
  <2> QED BY <2>2, <2>3
<1>2. ASSUME Stages, EdgeOver, thermal' \in Thermals, faults' \in Nat
      PROVE  TypeInv'
  <2>1. TypeOK' /\ CountsUnits'
    BY <1>2, StagesType, IdleEdge DEF TypeOK
  <2>2. PassInv'
    BY <1>2, StagesType, IdleEdge DEF PassInv, TypeOK
  <2> QED BY <2>1, <2>2
<1>3. ASSUME NEW held \in Nat, ResetAndReport(held), EdgeOver, thermal' \in Thermals,
             faults' \in Nat
      PROVE  TypeInv'
  <2>1. /\ units' \in Seq(Units) /\ Len(units') = 1 /\ pending' = 1 /\ staged' \in Nat
        /\ drains' \in Nat /\ drain_scheduled' = TRUE /\ CountsUnits'
    BY <1>3, ResetType
  <2>2. TypeOK'
    BY <1>3, <2>1, IdleEdge DEF TypeOK
  <2>3. PassInv'
    BY <2>1, <1>3, IdleEdge DEF PassInv
  <2> QED BY <2>1, <2>2, <2>3
<1>4. ASSUME NEW kind, Fault(kind)
      PROVE  faults' \in Nat
  BY <1>0, <1>4 DEF Fault
<1>5. ASSUME Transition
      PROVE  Stages /\ thermal' \in Thermals
  BY <1>5, BatchStages DEF Transition
<1>6. CASE EditorCallback
  BY <1>0, <1>1, <1>5, <1>6 DEF EditorCallback
<1>7. CASE PluginReset
  <2>1. /\ units' = <<>> /\ pending' = 0 /\ drain_scheduled' = FALSE /\ thermal' = "cold"
        /\ drains' = drains /\ staged' = staged /\ faults' \in Nat
        /\ ~running /\ running' = running /\ edge' = edge /\ unit' = unit
    BY <1>4, <1>7 DEF PluginReset, edgeVars
  <2>2. unit = NoUnit /\ edge = NoEdge
    BY <1>0, <2>1 DEF PassInv
  <2>3. units' \in Seq(Units) /\ Len(units') = 0
    BY <2>1, EmptySeq
  <2>4. TypeOK' /\ CountsUnits'
    BY <1>0, <2>1, <2>3 DEF TypeOK, CountsUnits, Thermals
  <2>5. PassInv'
    BY <1>0, <2>1, <2>2, <2>3 DEF PassInv, Busy, NoEdge
  <2> QED BY <2>4, <2>5
<1>8. CASE PluginCallbackPanics
  BY <1>0, <1>1, <1>4, <1>8, EventStages DEF PluginCallbackPanics
<1>9. CASE LanePanics
  BY <1>0, <1>3, <1>4, <1>9 DEF LanePanics, Thermals
<1>10. CASE DrainCannotStart
  <2>1. /\ drains - 1 \in Nat /\ ResetAndReport(drains - 1) /\ ~running /\ faults' \in Nat
        /\ running' = running /\ edge' = edge /\ unit' = unit /\ thermal' = thermal
    BY <1>0, <1>4, <1>10 DEF DrainCannotStart, edgeVars
  <2>2. unit = NoUnit /\ edge = NoEdge
    BY <1>0, <2>1 DEF PassInv
  <2>3. EdgeOver
    BY <1>0, <2>1, <2>2 DEF EdgeOver
  <2> QED BY <1>0, <1>3, <2>1, <2>3
<1>11. CASE FollowUp
  BY <1>0, <1>1, <1>5, <1>11, EventStages DEF FollowUp
<1>12. CASE UnitFails
  BY <1>0, <1>3, <1>4, <1>12 DEF UnitFails
<1>13. CASE UnitPanics
  BY <1>0, <1>2, <1>4, <1>13, EventStages DEF UnitPanics
<1>14. ASSUME NEW total \in Nat, NEW mark \in Nat, TakeSnapshot(total, mark)
       PROVE  /\ edge' \in Edges
              /\ edge'.left = Budget /\ edge'.left <= Len(units)
              /\ drain_scheduled' \in BOOLEAN
  BY <1>0, <1>14, BudgetType DEF TakeSnapshot, Edges
<1>15. CASE DrainStarts
  <2>1. /\ TakeSnapshot(0, staged) /\ ~running /\ running' = TRUE /\ drains' = drains - 1
        /\ drains' \in Nat /\ units' = units /\ pending' = pending /\ staged' = staged
        /\ unit' = unit /\ thermal' = thermal /\ faults' = faults /\ unit = NoUnit
    BY <1>0, <1>15 DEF DrainStarts, PassInv
  <2>2. TypeOK' /\ CountsUnits'
    BY <1>0, <1>14, <2>1 DEF TypeOK, CountsUnits
  <2>3. PassInv'
    BY <1>0, <1>14, <2>1 DEF PassInv, Busy
  <2> QED BY <2>2, <2>3
<1>16. CASE PopWorkUnit
  <2>1. /\ running /\ unit = NoUnit /\ edge.left > 0 /\ units # <<>>
        /\ staged' = staged /\ drains' = drains /\ thermal' = thermal /\ faults' = faults
    BY <1>0, <1>16 DEF PopWorkUnit, PassInv, Busy
  <2>2. /\ unit' = Head(units) /\ units' = Tail(units) /\ running' = running
        /\ edge' = edge /\ drain_scheduled' = drain_scheduled
        /\ pending' = IF pending = 0 THEN 0 ELSE pending - 1
    BY <1>16, <2>1 DEF PopWorkUnit
  <2>3. /\ unit' \in Units /\ units' \in Seq(Units) /\ Len(units') = Len(units) - 1
    BY <1>0, <2>1, <2>2, HeadTailProperties
  <2>4. Len(units) > 0
    BY <1>0, <2>1
  <2>5. pending' = Len(units') /\ pending' \in Nat
    BY <1>0, <2>2, <2>3, <2>4
  <2>6. TypeOK' /\ CountsUnits'
    BY <1>0, <2>1, <2>2, <2>3, <2>5 DEF TypeOK, CountsUnits
  <2>7. PassInv'
    BY <1>0, <2>1, <2>2, <2>3, NoUnitIsNone DEF PassInv, Busy
  <2> QED BY <2>6, <2>7
<1>17. CASE DispatchEvent
  <2>1. /\ Stages /\ thermal' \in Thermals /\ UnitOver /\ faults' = faults /\ unit # NoUnit
    BY <1>5, <1>17, NoUnitIsNone DEF DispatchEvent
  <2>2. TypeOK' /\ CountsUnits'
    BY <1>0, <2>1, StagesType, UnitOverType DEF TypeOK
  <2>3. PassInv'
    <3>1. Len(units') \in Nat /\ Len(units) <= Len(units')
      BY <2>1, StagesType, LenProperties
    <3>2. /\ edge'.left = edge.left - 1 /\ running' /\ unit' = NoUnit
          /\ Busy' = 0 /\ Busy = 1
      BY <2>1, UnitOverType
    <3>3. edge.left <= Len(units) + 1
      BY <3>2 DEF PassInv
    <3> QED BY <1>0, <3>1, <3>2, <3>3 DEF PassInv
  <2> QED BY <2>2, <2>3
<1>18. CASE UnitDone
  <2>1. /\ UnitOver /\ unit # NoUnit /\ UNCHANGED <<queueVars, drains>>
        /\ thermal' = thermal /\ faults' = faults
    BY <1>18, NoUnitIsNone DEF UnitDone, EffectKinds, ShellOnly
  <2>2. Stages
    BY <2>1 DEF Stages
  <2>3. TypeOK' /\ CountsUnits'
    BY <1>0, <2>1, <2>2, StagesType, UnitOverType DEF TypeOK
  <2>4. PassInv'
    <3>1. Len(units') \in Nat /\ Len(units) <= Len(units')
      BY <2>1, <2>2, StagesType, LenProperties
    <3>2. /\ edge'.left = edge.left - 1 /\ running' /\ unit' = NoUnit
          /\ Busy' = 0 /\ Busy = 1
      BY <2>1, UnitOverType
    <3>3. edge.left <= Len(units) + 1
      BY <3>2 DEF PassInv
    <3> QED BY <1>0, <3>1, <3>2, <3>3 DEF PassInv
  <2> QED BY <2>3, <2>4
<1>19. CASE NextPass
  <2>1. /\ TakeSnapshot(edge.total, edge.mark) /\ edge.total \in Nat /\ edge.mark \in Nat
        /\ units' = units /\ pending' = pending /\ staged' = staged /\ drains' = drains
        /\ unit' = unit /\ thermal' = thermal /\ faults' = faults /\ unit = NoUnit
        /\ running /\ running' = running
    BY <1>0, <1>19 DEF NextPass, PassOver
  <2>2. TypeOK' /\ CountsUnits'
    BY <1>0, <1>14, <2>1 DEF TypeOK, CountsUnits
  <2>3. PassInv'
    BY <1>0, <1>14, <2>1 DEF PassInv, Busy
  <2> QED BY <2>2, <2>3
<1>20. CASE EdgeEnds
  <2>1. /\ units' = units /\ pending' = pending /\ staged' = staged /\ EdgeOver
        /\ thermal' = thermal /\ faults' = faults
    BY <1>20 DEF EdgeEnds
  <2>4. drains' \in Nat /\ drain_scheduled' \in BOOLEAN
    <3>1. CASE units = <<>>
      BY <1>0, <1>20, <3>1 DEF EdgeEnds
    <3>2. CASE units # <<>>
      BY <1>0, <1>20, <3>2 DEF EdgeEnds
    <3> QED BY <3>1, <3>2
  <2>2. TypeOK' /\ CountsUnits'
    BY <1>0, <2>1, <2>4, IdleEdge DEF TypeOK, CountsUnits
  <2>3. PassInv'
    BY <1>0, <2>1, IdleEdge DEF PassInv
  <2> QED BY <2>2, <2>3
<1>21. CASE UNCHANGED vars
  BY <1>21 DEF vars, TypeOK, CountsUnits, PassInv, Busy
<1> QED
  BY <1>6, <1>7, <1>8, <1>9, <1>10, <1>11, <1>12, <1>13, <1>15, <1>16, <1>17, <1>18,
     <1>19, <1>20, <1>21 DEF Next, Drain

(* Every variable keeps its type, whatever fails (dispatch_queue.rs). *)
THEOREM TypeCorrect == Spec => []TypeOK
<1>1. Spec => []TypeInv
  BY TypeInvInit, TypeInvStep, PTL DEF Spec
<1>2. TypeInv => TypeOK
  BY DEF TypeInv
<1> QED BY <1>1, <1>2, PTL

(* pending_work_units is the length of the queue, whatever is coalesced,     *)
(* popped or reset.                                                          *)
THEOREM UnitsAreCounted == Spec => []CountsUnits
<1>1. Spec => []TypeInv
  BY TypeInvInit, TypeInvStep, PTL DEF Spec
<1>2. TypeInv => CountsUnits
  BY DEF TypeInv
<1> QED BY <1>1, <1>2, PTL

-----------------------------------------------------------------------------
(* Queued work is served. *)

(* The flag is up while work is queued, and while it is up somebody drains.  *)
ServedInv ==
  /\ units # <<>> => drain_scheduled
  /\ drain_scheduled => running \/ drains > 0

(* Without panics outside the lanes every action keeps it. *)
LEMMA ServedStep ==
  ASSUME "panic" \notin Faults, TypeInv, ServedInv, [Next]_vars
  PROVE  ServedInv'
<1>0. /\ units \in Seq(Units) /\ pending = Len(units) /\ (pending = 0 <=> units = <<>>)
      /\ drains \in Nat /\ running \in BOOLEAN /\ drain_scheduled \in BOOLEAN
      /\ TypeOK
  BY EmptySeq DEF TypeInv, TypeOK, CountsUnits
<1>1. ASSUME Stages, running' = running
      PROVE  ServedInv'
  <2>1. CASE UNCHANGED <<queueVars, drains>>
    BY <1>1, <2>1 DEF ServedInv, queueVars
  <2>2. CASE FinishStage
    BY <1>0, <1>1, <2>2 DEF ServedInv, FinishStage
  <2> QED BY <1>1, <2>1, <2>2 DEF Stages, Grows
<1>2. ASSUME NEW held \in Nat, ResetAndReport(held)
      PROVE  ServedInv'
  BY <1>0, <1>2, ResetType DEF ServedInv
<1>3. ASSUME Transition PROVE Stages
  BY <1>0, <1>3, BatchStages DEF Transition
<1>4. CASE EditorCallback
  BY <1>1, <1>3, <1>4 DEF EditorCallback, edgeVars
<1>5. CASE PluginReset
  BY <1>5 DEF PluginReset, ServedInv
<1>6. CASE PluginCallbackPanics
  BY <1>0, <1>1, <1>6, EventStages DEF PluginCallbackPanics, edgeVars
<1>7. CASE LanePanics
  BY <1>0, <1>2, <1>7 DEF LanePanics
<1>8. CASE DrainCannotStart
  BY <1>0, <1>2, <1>8 DEF DrainCannotStart
<1>9. CASE FollowUp
  BY <1>0, <1>1, <1>3, <1>9, EventStages DEF FollowUp, edgeVars
<1>10. CASE UnitFails
  BY <1>0, <1>2, <1>10 DEF UnitFails
<1>11. CASE UnitPanics
  BY <1>11 DEF UnitPanics, Fault
<1>12. CASE DrainStarts
  BY <1>0, <1>12 DEF DrainStarts, TakeSnapshot, ServedInv
<1>13. CASE PopWorkUnit
  <2>1. units # <<>> /\ running
    <3>1. running /\ unit = NoUnit /\ edge.left > 0
      BY <1>13 DEF PopWorkUnit
    <3>2. edge.left <= Len(units) /\ edge.left \in Nat
      BY <1>0, <3>1, BudgetAssumption DEF TypeInv, PassInv, Busy, TypeOK, Edges
    <3> QED BY <3>1, <3>2, <1>0
  <2> QED BY <1>0, <1>13, <2>1 DEF PopWorkUnit, ServedInv
<1>14. CASE DispatchEvent
  BY <1>1, <1>3, <1>14 DEF DispatchEvent, UnitOver
<1>15. CASE UnitDone
  BY <1>1, <1>15 DEF UnitDone, UnitOver, Stages
<1>16. CASE NextPass
  BY <1>0, <1>16 DEF NextPass, PassOver, TakeSnapshot, ServedInv
<1>17. CASE EdgeEnds
  <2>1. units' = units
    BY <1>17 DEF EdgeEnds
  <2>2. CASE units = <<>>
    BY <1>17, <2>1, <2>2 DEF EdgeEnds, ServedInv
  <2>3. CASE units # <<>>
    <3>1. drains' = drains + 1 /\ drain_scheduled' = drain_scheduled
      BY <1>17, <2>3 DEF EdgeEnds
    <3>2. drains' > 0
      BY <1>0, <3>1
    <3> QED BY <2>1, <3>1, <3>2 DEF ServedInv
  <2> QED BY <2>2, <2>3
<1>18. CASE UNCHANGED vars
  BY <1>18 DEF vars, ServedInv
<1> QED
  BY <1>4, <1>5, <1>6, <1>7, <1>8, <1>9, <1>10, <1>11, <1>12, <1>13, <1>14, <1>15,
     <1>16, <1>17, <1>18 DEF Next, Drain

(* Unless an executor panics outside the lanes, queued work always has a     *)
(* drain that runs or is held by the editor (run_scheduled_effect_drain).    *)
THEOREM ServedWithoutPanics ==
  ASSUME "panic" \notin Faults
  PROVE  Spec => []WorkIsServed
<1>1. Init => ServedInv
  BY DEF Init, ServedInv
<1>2. TypeInv /\ ServedInv /\ [Next]_vars => ServedInv'
  BY ServedStep
<1>3. ServedInv => WorkIsServed
  BY DEF ServedInv, WorkIsServed
<1>4. TypeInv /\ [Next]_vars => TypeInv'
  BY TypeInvStep
<1> QED BY <1>1, <1>2, <1>3, <1>4, TypeInvInit, PTL DEF Spec

-----------------------------------------------------------------------------
(* The queue implements DeferredWork. *)

(* What a step does to the queue: every action stages, pops, resets, or      *)
(* leaves it alone.                                                          *)
LEMMA QueueSteps ==
  ASSUME TypeInv, [Next]_vars
  PROVE  \/ Stages
         \/ units # <<>> /\ units' = Tail(units) /\ unit' = Head(units) /\ staged' = staged
         \/ \E held \in Nat : ResetAndReport(held)
         \/ units' = <<>> /\ staged' = staged
         \/ units' = units /\ staged' = staged
<1>0. TypeOK /\ drains \in Nat
  BY DEF TypeInv, TypeOK
<1>1. Transition \/ StageCoreEvent => Stages
  BY <1>0, BatchStages, EventStages DEF Transition
<1>2. CASE EditorCallback \/ PluginCallbackPanics \/ FollowUp \/ UnitPanics \/ DispatchEvent
  BY <1>1, <1>2
     DEF EditorCallback, PluginCallbackPanics, FollowUp, UnitPanics, DispatchEvent
<1>3. CASE LanePanics \/ UnitFails
  BY <1>0, <1>3 DEF LanePanics, UnitFails
<1>4. CASE DrainCannotStart
  <2>1. ResetAndReport(drains - 1) /\ drains - 1 \in Nat
    BY <1>0, <1>4 DEF DrainCannotStart
  <2> QED BY <2>1
<1>5. CASE PluginReset
  BY <1>5 DEF PluginReset
<1>6. CASE PopWorkUnit
  BY <1>6 DEF PopWorkUnit
<1>7. CASE DrainStarts \/ UnitDone \/ NextPass \/ EdgeEnds \/ UNCHANGED vars
  BY <1>7 DEF DrainStarts, UnitDone, NextPass, EdgeEnds, vars, queueVars
<1> QED
  BY <1>2, <1>3, <1>4, <1>5, <1>6, <1>7 DEF Next, Drain

(* Units hold work staged before, each later than the one ahead of it.       *)
OrderInv ==
  /\ \A i \in 1 .. Len(units) : units[i].ids # {} /\ units[i].ids \subseteq 1 .. staged
  /\ \A i, j \in 1 .. Len(units) :
       i < j => \A n \in units[i].ids, m \in units[j].ids : n < m

(* Every way of staging appends newer work (append_effect).                  *)
LEMMA StagesInOrder ==
  ASSUME TypeInv, OrderInv, Stages
  PROVE  OrderInv'
<1>0. /\ units \in Seq(Units) /\ Len(units) \in Nat /\ staged \in Nat
  BY DEF TypeInv, TypeOK
<1>1. CASE UNCHANGED <<queueVars, drains>>
  BY <1>1 DEF OrderInv, queueVars
<1>2. ASSUME NEW len \in Nat \ {0}, NEW c \in {0, 1}, c <= len, Grows(len, c)
      PROVE  OrderInv'
  <2> DEFINE n == Len(units)
  <2>0. /\ Len(units') = n + len - c /\ staged' = staged + len /\ Len(units') \in Nat
        /\ c \in Nat
    BY <1>0, <1>2 DEF Grows
  <2>1. ASSUME NEW i \in 1 .. Len(units'), i <= n
        PROVE  /\ i \in 1 .. n
               /\ \/ units'[i].ids = units[i].ids
                  \/ i = n /\ c = 1 /\ units'[i].ids = units[i].ids \cup {staged + 1}
    <3>1. i \in 1 .. n
      BY <1>0, <2>0, <2>1
    <3>2. CASE i < n \/ c = 0
      BY <1>2, <3>1, <3>2 DEF Grows
    <3>3. CASE ~(i < n \/ c = 0)
      <4>1. i = n /\ c = 1
        BY <1>0, <2>1, <3>1, <3>3
      <4>2. units'[n].ids = units[n].ids \cup {staged + 1}
        BY <1>2, <4>1 DEF Grows
      <4> QED BY <3>1, <4>1, <4>2
    <3> QED BY <3>1, <3>2, <3>3
  <2>2. ASSUME NEW i \in 1 .. Len(units'), ~(i <= n)
        PROVE  i \in (n + 1) .. Len(units') /\ units'[i].ids = {staged + (i - n) + c}
    <3>1. i \in (n + 1) .. Len(units')
      BY <1>0, <2>0, <2>2
    <3> QED BY <1>2, <3>1 DEF Grows
  <2>3. ASSUME NEW i \in 1 .. Len(units')
        PROVE  units'[i].ids # {} /\ units'[i].ids \subseteq 1 .. staged'
    <3>1. CASE i <= n
      <4>1. units[i].ids # {} /\ units[i].ids \subseteq 1 .. staged /\ 1 .. staged \subseteq 1 .. staged'
        BY <1>0, <2>0, <2>1, <3>1 DEF OrderInv
      <4>2. staged + 1 \in 1 .. staged'
        BY <1>0, <2>0
      <4> QED BY <2>1, <3>1, <4>1, <4>2
    <3>2. CASE ~(i <= n)
      <4>1. staged + (i - n) + c \in 1 .. staged'
        BY <1>0, <2>0, <2>2, <3>2
      <4> QED BY <2>2, <3>2, <4>1
    <3> QED BY <3>1, <3>2
  <2>4. ASSUME NEW i \in 1 .. Len(units'), NEW j \in 1 .. Len(units'), i < j,
               NEW a \in units'[i].ids, NEW b \in units'[j].ids
        PROVE  a < b
    <3>1. CASE j <= n
      <4>1. i \in 1 .. n /\ j \in 1 .. n /\ i < n
        BY <1>0, <2>0, <2>4, <3>1
      <4>2. units'[i].ids = units[i].ids
        BY <1>0, <2>1, <4>1
      <4>3. units[i].ids \subseteq 1 .. staged
        BY <4>1 DEF OrderInv
      <4>4. CASE b \in units[j].ids
        BY <2>4, <4>1, <4>2, <4>4 DEF OrderInv
      <4>5. CASE b = staged + 1
        <5>1. a \in 1 .. staged
          BY <4>2, <4>3
        <5> QED BY <1>0, <4>5, <5>1
      <4> QED BY <2>1, <3>1, <4>4, <4>5
    <3>2. CASE ~(j <= n) /\ i <= n
      <4>1. b = staged + (j - n) + c /\ j \in Nat /\ j > n
        BY <1>0, <2>0, <2>2, <3>2
      <4>2. units[i].ids \subseteq 1 .. staged
        BY <2>1, <3>2 DEF OrderInv
      <4>3. CASE a \in 1 .. staged
        BY <1>0, <2>0, <4>1, <4>3
      <4>4. CASE a = staged + 1 /\ c = 1
        BY <1>0, <2>0, <4>1, <4>4
      <4>5. a \in 1 .. staged \/ (a = staged + 1 /\ c = 1)
        BY <2>1, <3>2, <4>2
      <4> QED BY <4>3, <4>4, <4>5
    <3>3. CASE ~(j <= n) /\ ~(i <= n)
      <4>1. b = staged + (j - n) + c /\ a = staged + (i - n) + c
        BY <2>2, <3>3
      <4> QED BY <1>0, <2>0, <2>4, <4>1
    <3> QED BY <3>1, <3>2, <3>3
  <2> QED BY <2>3, <2>4 DEF OrderInv
<1> QED BY <1>1, <1>2 DEF Stages

(* Every step keeps the order.                                               *)
LEMMA OrderStep ==
  ASSUME TypeInv, OrderInv, [Next]_vars
  PROVE  OrderInv'
<1>0. TypeOK /\ units \in Seq(Units) /\ Len(units) \in Nat /\ staged \in Nat
  BY DEF TypeInv, TypeOK
<1>1. CASE Stages
  BY <1>1, StagesInOrder
<1>2. CASE units # <<>> /\ units' = Tail(units) /\ staged' = staged
  <2>1. /\ Len(units') = Len(units) - 1
        /\ \A i \in 1 .. Len(units') : units'[i] = units[i + 1]
    BY <1>0, <1>2, HeadTailProperties
  <2>2. \A i \in 1 .. Len(units') : i + 1 \in 1 .. Len(units)
    BY <1>0, <2>1
  <2>3. \A i, j \in 1 .. Len(units') : i < j => i + 1 < j + 1
    OBVIOUS
  <2> QED BY <1>2, <2>1, <2>2, <2>3 DEF OrderInv
<1>3. ASSUME NEW held \in Nat, ResetAndReport(held)
      PROVE  OrderInv'
  <2>0. /\ Len(units') = 1 /\ staged' = staged + 1
        /\ units'[1] = [kind |-> "event", ids |-> {staged + 1}]
    BY <1>0, <1>3, ResetType
  <2>1. /\ Len(units') = 1 /\ units'[1].ids = {staged + 1} /\ staged' = staged + 1
    BY <2>0
  <2>2. \A i \in 1 .. Len(units') : i = 1
    BY <2>1
  <2>3. \A i, j \in 1 .. Len(units') : ~(i < j)
    BY <2>1
  <2>4. staged + 1 \in 1 .. staged'
    BY <1>0, <2>1
  <2> QED BY <2>1, <2>2, <2>3, <2>4 DEF OrderInv
<1>4. CASE units' = <<>> /\ staged' = staged
  <2>1. 1 .. Len(units') = {}
    BY <1>4
  <2> QED BY <2>1 DEF OrderInv
<1>5. CASE units' = units /\ staged' = staged
  BY <1>5 DEF OrderInv
<1> QED BY <1>1, <1>2, <1>3, <1>4, <1>5, QueueSteps

(* Staging defers the numbers after the newest one.                          *)
LEMMA StagesDefer ==
  ASSUME TypeInv, OrderInv, Stages
  PROVE  Work!Defer \/ UNCHANGED <<staged, Queued>>
<1>0. /\ units \in Seq(Units) /\ Len(units) \in Nat /\ staged \in Nat
      /\ DOMAIN units = 1 .. Len(units)
  BY DEF TypeInv, TypeOK
<1>1. CASE UNCHANGED <<queueVars, drains>>
  BY <1>1 DEF Queued, queueVars
<1>2. ASSUME NEW len \in Nat \ {0}, NEW c \in {0, 1}, c <= len, Grows(len, c)
      PROVE  Work!Defer
  <2> DEFINE n == Len(units)
  <2>0. /\ Len(units') = n + len - c /\ staged' = staged + len /\ Len(units') \in Nat
        /\ c \in Nat /\ units' \in Seq(Units) /\ DOMAIN units' = 1 .. Len(units')
        /\ (c = 1 => n > 0)
    BY <1>0, <1>2, EmptySeq DEF Grows
  <2>1. ASSUME NEW k \in Queued'
        PROVE  k \in Queued \/ k \in (staged + 1) .. staged'
    <3>1. PICK i \in 1 .. Len(units') : k \in units'[i].ids
      BY <2>0, <2>1 DEF Queued
    <3>0. i \in Nat /\ 1 <= i /\ n \in Nat
      BY <1>0, <2>0
    <3>2. CASE i < n \/ (i = n /\ c = 0)
      <4>1. i \in 1 .. Len(units) /\ (i < Len(units) \/ c = 0)
        BY <3>0, <3>2
      <4>2. units'[i] = units[i]
        BY <1>2, <4>1 DEF Grows
      <4> QED BY <1>0, <3>1, <4>1, <4>2 DEF Queued
    <3>3. CASE i = n /\ c = 1
      <4>1. units'[n].ids = units[n].ids \cup {staged + 1} /\ n \in 1 .. n
        BY <1>0, <1>2, <3>1, <3>3 DEF Grows
      <4>2. staged + 1 \in (staged + 1) .. staged'
        BY <1>0, <2>0
      <4> QED BY <1>0, <3>1, <3>3, <4>1, <4>2 DEF Queued
    <3>4. CASE i > n
      <4>1. i \in (n + 1) .. Len(units')
        BY <1>0, <2>0, <3>1, <3>4
      <4>2. k = staged + (i - n) + c
        BY <1>2, <3>1, <4>1 DEF Grows
      <4>3. i \in Nat /\ n \in Nat /\ len \in Nat /\ n + 1 <= i /\ i <= n + len - c
        BY <1>0, <2>0, <4>1
      <4> HIDE DEF n
      <4>4. staged + 1 <= k /\ k <= staged' /\ k \in Nat /\ staged' \in Nat
        BY <1>0, <2>0, <4>2, <4>3
      <4> QED BY <1>0, <4>4
    <3>5. c = 0 \/ c = 1
      OBVIOUS
    <3>6. i < n \/ i = n \/ i > n
      BY <3>0
    <3> QED BY <3>2, <3>3, <3>4, <3>5, <3>6
  <2>2. ASSUME NEW k \in Queued
        PROVE  k \in Queued'
    <3>1. PICK i \in 1 .. n : k \in units[i].ids
      BY <1>0, <2>2 DEF Queued
    <3>2. i \in 1 .. Len(units')
      BY <1>0, <2>0, <3>1
    <3>3. k \in units'[i].ids
      <4>1. CASE i < n \/ c = 0
        <5>1. i \in 1 .. Len(units) /\ (i < Len(units) \/ c = 0)
          BY <3>1, <4>1
        <5>2. units'[i] = units[i]
          BY <1>2, <5>1 DEF Grows
        <5> QED BY <3>1, <5>2
      <4>2. CASE i = n /\ c = 1
        <5>1. units'[n].ids = units[n].ids \cup {staged + 1}
          BY <1>2, <4>2 DEF Grows
        <5> QED BY <3>1, <4>2, <5>1
      <4>3. c = 0 \/ c = 1
        OBVIOUS
      <4>4. i \in Nat /\ i <= n /\ n \in Nat
        BY <1>0
      <4>5. i < n \/ i = n
        BY <4>4
      <4> QED BY <4>1, <4>2, <4>3, <4>5
    <3> QED BY <2>0, <3>2, <3>3 DEF Queued
  <2>3. ASSUME NEW k \in (staged + 1) .. staged'
        PROVE  k \in Queued'
    <3>1. CASE c = 1 /\ k = staged + 1
      <4>1. n \in 1 .. Len(units') /\ k \in units'[n].ids
        BY <1>0, <1>2, <2>0, <3>1 DEF Grows
      <4> QED BY <2>0, <4>1 DEF Queued
    <3>2. CASE ~(c = 1 /\ k = staged + 1)
      <4> DEFINE i == n + (k - staged) - c
      <4>1. i \in (n + 1) .. Len(units') /\ staged + (i - n) + c = k
        BY <1>0, <2>0, <2>3, <3>2
      <4>2. units'[i].ids = {k}
        BY <1>2, <4>1 DEF Grows
      <4>3. i \in DOMAIN units'
        BY <1>0, <2>0, <4>1
      <4> QED BY <4>2, <4>3 DEF Queued
    <3> QED BY <3>1, <3>2
  <2>4. Queued' = Queued \cup ((staged + 1) .. staged')
    BY <2>1, <2>2, <2>3
  <2>5. staged' \in Nat /\ staged' > staged
    BY <1>0, <2>0
  <2> QED BY <2>4, <2>5 DEF Work!Defer
<1> QED BY <1>1, <1>2 DEF Stages

(* Popping performs the oldest work.                                         *)
LEMMA PopPerforms ==
  ASSUME TypeInv, OrderInv, units # <<>>, units' = Tail(units), staged' = staged
  PROVE  Work!Perform
<1>0. /\ units \in Seq(Units) /\ Len(units) \in Nat /\ DOMAIN units = 1 .. Len(units)
      /\ Len(units) > 0
  BY EmptySeq DEF TypeInv, TypeOK
<1>1. /\ units' \in Seq(Units) /\ Len(units') = Len(units) - 1
      /\ DOMAIN units' = 1 .. Len(units')
      /\ \A i \in 1 .. Len(units') : units'[i] = units[i + 1]
  BY <1>0, HeadTailProperties
<1> DEFINE first == units[1].ids
<1>2. first \subseteq Queued /\ first # {}
  BY <1>0 DEF Queued, OrderInv
<1>3. ASSUME NEW k \in Queued, k \notin first
      PROVE  \E i \in 1 .. Len(units) : k \in units[i].ids /\ 1 < i
  BY <1>0, <1>3 DEF Queued
<1>4. \A n \in first, m \in Queued \ first : n < m
  BY <1>0, <1>3 DEF OrderInv
<1>5. ASSUME NEW k \in Queued \ first
      PROVE  k \in Queued'
  <2>1. PICK i \in 1 .. Len(units) : k \in units[i].ids /\ 1 < i
    BY <1>3, <1>5
  <2>2. i - 1 \in 1 .. Len(units') /\ (i - 1) + 1 = i
    BY <1>0, <1>1, <2>1
  <2>3. units'[i - 1] = units[(i - 1) + 1]
    BY <1>1, <2>2
  <2>4. k \in units'[i - 1].ids /\ i - 1 \in DOMAIN units'
    BY <1>1, <2>1, <2>2, <2>3
  <2> QED BY <2>4 DEF Queued
<1>6. ASSUME NEW k \in Queued'
      PROVE  k \in Queued \ first
  <2>1. PICK i \in 1 .. Len(units') : k \in units'[i].ids
    BY <1>1, <1>6 DEF Queued
  <2>2. i + 1 \in 1 .. Len(units) /\ 1 < i + 1 /\ 1 \in 1 .. Len(units)
    BY <1>0, <1>1
  <2>3. k \in units[i + 1].ids
    BY <1>1, <2>1
  <2>4. \A n \in first : n < k
    BY <2>2, <2>3 DEF OrderInv
  <2>5. units[i + 1].ids \subseteq 1 .. staged
    BY <2>2 DEF OrderInv
  <2>6. k \notin first
    BY <2>3, <2>4, <2>5
  <2> QED BY <1>0, <2>2, <2>3, <2>6 DEF Queued
<1>7. Queued' = Queued \ first
  BY <1>5, <1>6
<1> QED BY <1>2, <1>4, <1>7 DEF Work!Perform

(* Every step is one of DeferredWork's or leaves its variables alone.        *)
LEMMA WorkStep ==
  ASSUME TypeInv, OrderInv, [Next]_vars
  PROVE  [Work!Next]_(Work!vars)
<1>0. TypeOK
  BY DEF TypeInv
<1>1. CASE Stages
  BY <1>1, StagesDefer DEF Work!Next, Work!vars
<1>2. CASE units # <<>> /\ units' = Tail(units) /\ staged' = staged
  BY <1>2, PopPerforms DEF Work!Next
<1>3. ASSUME NEW held \in Nat, ResetAndReport(held)
      PROVE  Work!Fail
  <2>0. /\ units' \in Seq(Units) /\ Len(units') = 1 /\ staged' = staged + 1
        /\ units'[1] = [kind |-> "event", ids |-> {staged + 1}]
    BY <1>0, <1>3, ResetType
  <2>1. /\ units' \in Seq(Units) /\ Len(units') = 1 /\ units'[1].ids = {staged + 1}
        /\ staged' = staged + 1
    BY <2>0
  <2>2. DOMAIN units' = {1}
    BY <2>1
  <2>3. Queued' = {staged'}
    BY <2>1, <2>2 DEF Queued
  <2> QED BY <2>1, <2>3 DEF Work!Fail
<1>4. CASE units' = <<>> /\ staged' = staged
  <2>1. DOMAIN units' = {}
    BY <1>4
  <2>2. Queued' = {}
    BY <2>1 DEF Queued
  <2> QED BY <1>4, <2>2 DEF Work!Next, Work!Reset
<1>5. CASE units' = units /\ staged' = staged
  BY <1>5 DEF Queued, Work!vars
<1> QED BY <1>1, <1>2, <1>3, <1>4, <1>5, QueueSteps DEF Work!Next

(* The queue keeps the promise of DeferredWork: in order, nothing performed  *)
(* twice, nothing dropped but by a failure or a reset (dispatch_queue.rs).   *)
THEOREM ImplementsDeferredWorkSafety == Spec => Work!Safety
<1>1. Init => OrderInv /\ Work!Init
  <2> SUFFICES ASSUME Init PROVE OrderInv /\ Work!Init
    OBVIOUS
  <2>1. units = <<>> /\ staged = 0 /\ 1 .. Len(units) = {} /\ DOMAIN units = {}
    BY DEF Init
  <2> QED BY <2>1 DEF OrderInv, Work!Init, Queued
<1>2. TypeInv /\ [Next]_vars => TypeInv'
  BY TypeInvStep
<1>3. TypeInv /\ OrderInv /\ [Next]_vars => OrderInv'
  BY OrderStep
<1>4. TypeInv /\ OrderInv /\ [Next]_vars => [Work!Next]_(Work!vars)
  BY WorkStep
<1> QED BY <1>1, <1>2, <1>3, <1>4, TypeInvInit, PTL DEF Spec, Work!Safety

-----------------------------------------------------------------------------
(* Follow-ups wait for a later edge. *)

(* What the pass still has to execute was staged before its edge began,      *)
(* shell-only work apart.                                                    *)
DeferInv ==
  /\ FollowUpsDeferred
  /\ running => \A i \in 1 .. Len(units) :
       i <= edge.left - Busy /\ units[i].kind \notin ShellOnly =>
         \A n \in units[i].ids : n <= edge.mark

(* Staging touches what the pass has to execute only by coalescing.          *)
LEMMA StagesBehindPass ==
  ASSUME TypeInv, DeferInv, Stages, running
  PROVE  \A i \in 1 .. Len(units') :
           i <= edge.left - Busy /\ units'[i].kind \notin ShellOnly =>
             \A n \in units'[i].ids : n <= edge.mark
<1>0. /\ units \in Seq(Units) /\ Len(units) \in Nat
      /\ edge.left \in Nat /\ Busy \in {0, 1} /\ edge.left - Busy <= Len(units)
  BY BudgetAssumption DEF TypeInv, TypeOK, Edges, PassInv, Busy
<1>1. CASE UNCHANGED <<queueVars, drains>>
  BY <1>1 DEF queueVars, DeferInv
<1>2. ASSUME NEW len \in Nat \ {0}, NEW c \in {0, 1}, c <= len, Grows(len, c),
             NEW i \in 1 .. Len(units'), i <= edge.left - Busy,
             units'[i].kind \notin ShellOnly
      PROVE  \A n \in units'[i].ids : n <= edge.mark
  <2>0. units' \in Seq(Units) /\ Len(units') \in Nat
    BY <1>2, LenProperties DEF Grows
  <2>1. i \in Nat /\ 1 <= i /\ i <= Len(units)
    BY <1>0, <1>2, <2>0
  <2>2. i \in 1 .. Len(units)
    BY <1>0, <2>1
  <2>3. units'[i] = units[i]
    <3>1. ~(i = Len(units) /\ c = 1)
      BY <1>2 DEF Grows
    <3>2. i < Len(units) \/ c = 0
      BY <1>0, <2>1, <3>1
    <3> QED BY <1>2, <2>2, <3>2 DEF Grows
  <2> QED BY <1>2, <2>2, <2>3 DEF DeferInv
<1> QED BY <1>1, <1>2 DEF Stages

(* Every action keeps it.                                                    *)
LEMMA DeferStep ==
  ASSUME TypeInv, OrderInv, DeferInv, [Next]_vars
  PROVE  DeferInv'
<1>0. /\ TypeOK /\ units \in Seq(Units) /\ Len(units) \in Nat /\ staged \in Nat
      /\ edge.left \in Nat /\ edge.mark \in Nat
  BY BudgetAssumption DEF TypeInv, TypeOK, Edges
<1>1. ASSUME Transition \/ StageCoreEvent
      PROVE  Stages
  BY <1>0, <1>1, BatchStages, EventStages DEF Transition
<1>2. ASSUME EdgeOver
      PROVE  DeferInv'
  BY <1>2, NoUnitIsNone DEF EdgeOver, DeferInv, FollowUpsDeferred
<1>3. ASSUME UNCHANGED edgeVars, running => Stages
      PROVE  DeferInv'
  <2>1. unit' = unit /\ edge' = edge /\ running' = running /\ Busy' = Busy
    BY <1>3 DEF edgeVars, Busy
  <2>2. FollowUpsDeferred'
    BY <2>1 DEF DeferInv, FollowUpsDeferred
  <2>3. CASE running
    BY <1>3, <2>1, <2>2, <2>3, StagesBehindPass DEF DeferInv
  <2>4. CASE ~running
    BY <2>1, <2>2, <2>4 DEF DeferInv
  <2> QED BY <2>3, <2>4
<1>4. ASSUME UnitOver, unit # NoUnit, Stages
      PROVE  DeferInv'
  <2>1. /\ running /\ running' = running /\ unit' = NoUnit /\ Busy' = 0 /\ Busy = 1
        /\ edge'.left = edge.left - 1 /\ edge'.mark = edge.mark
    BY <1>4, UnitOverType
  <2>2. edge'.left - Busy' = edge.left - Busy
    BY <1>0, <2>1
  <2>3. FollowUpsDeferred'
    BY <2>1, NoUnitIsNone DEF FollowUpsDeferred
  <2> QED BY <1>4, <2>1, <2>2, <2>3, StagesBehindPass DEF DeferInv
<1>5. CASE EditorCallback \/ PluginCallbackPanics \/ FollowUp
  BY <1>1, <1>3, <1>5 DEF EditorCallback, PluginCallbackPanics, FollowUp
<1>6. CASE PluginReset \/ DrainCannotStart
  BY <1>3, <1>6 DEF PluginReset, DrainCannotStart
<1>7. CASE LanePanics \/ UnitFails \/ UnitPanics \/ EdgeEnds
  BY <1>2, <1>7 DEF LanePanics, UnitFails, UnitPanics, EdgeEnds
<1>8. CASE DispatchEvent
  BY <1>1, <1>4, <1>8, NoUnitIsNone DEF DispatchEvent
<1>9. CASE UnitDone
  <2>1. unit # NoUnit /\ UnitOver /\ Stages
    BY <1>9, NoUnitIsNone DEF UnitDone, EffectKinds, ShellOnly, Stages
  <2> QED BY <1>4, <2>1
<1>10. CASE DrainStarts
  <2>1. /\ edge'.mark = staged /\ unit' = unit /\ units' = units /\ running' = TRUE
        /\ unit = NoUnit
    BY <1>10 DEF DrainStarts, TakeSnapshot, TypeInv, PassInv
  <2>2. FollowUpsDeferred'
    BY <2>1, NoUnitIsNone DEF FollowUpsDeferred
  <2>3. \A i \in 1 .. Len(units) : \A n \in units[i].ids : n <= staged
    BY <1>0 DEF OrderInv
  <2> QED BY <2>1, <2>2, <2>3 DEF DeferInv
<1>11. CASE PopWorkUnit
  <2>1. /\ running /\ unit = NoUnit /\ edge.left > 0 /\ edge.left <= Len(units)
    BY <1>0, <1>11 DEF PopWorkUnit, TypeInv, PassInv, Busy
  <2>2. units # <<>>
    BY <1>0, <2>1
  <2>3. /\ unit' = units[1] /\ edge' = edge /\ running' = running
        /\ Len(units') = Len(units) - 1
        /\ \A i \in 1 .. Len(units') : units'[i] = units[i + 1]
    BY <1>0, <1>11, <2>2, HeadTailProperties DEF PopWorkUnit
  <2>4. /\ units[1] \in Units /\ Busy = 0 /\ Busy' = 1 /\ 1 \in 1 .. Len(units)
        /\ 1 <= edge.left - Busy
    BY <1>0, <2>1, <2>2, <2>3, NoUnitIsNone DEF Busy
  <2>5. FollowUpsDeferred'
    <3>1. "ordered" \notin ShellOnly /\ "event" \notin ShellOnly
      BY DEF ShellOnly
    <3> QED BY <2>1, <2>3, <2>4, <3>1 DEF DeferInv, FollowUpsDeferred
  <2>6. ASSUME NEW i \in 1 .. Len(units'), i <= edge'.left - Busy',
               units'[i].kind \notin ShellOnly
        PROVE  \A n \in units'[i].ids : n <= edge'.mark
    <3>1. i + 1 \in 1 .. Len(units) /\ i + 1 <= edge.left - Busy
      BY <1>0, <2>3, <2>4, <2>6
    <3>2. units'[i] = units[i + 1]
      BY <2>3
    <3> QED BY <2>1, <2>3, <2>6, <3>1, <3>2 DEF DeferInv
  <2> QED BY <2>5, <2>6 DEF DeferInv
<1>12. CASE NextPass
  <2>1. /\ unit' = unit /\ unit = NoUnit /\ units' = units
        /\ \A i \in DOMAIN units : units[i].kind \in ShellOnly
    BY <1>12 DEF NextPass, PassOver, ChainsOn, OnlyShellSteps
  <2>2. FollowUpsDeferred'
    BY <2>1, NoUnitIsNone DEF FollowUpsDeferred
  <2>3. \A i \in 1 .. Len(units') : units'[i].kind \in ShellOnly
    BY <1>0, <2>1
  <2> QED BY <2>2, <2>3 DEF DeferInv
<1>13. CASE UNCHANGED vars
  BY <1>13 DEF vars, DeferInv, FollowUpsDeferred, Busy
<1> QED
  BY <1>5, <1>6, <1>7, <1>8, <1>9, <1>10, <1>11, <1>12, <1>13 DEF Next, Drain

(* Work a drain gives rise to, other than metrics and redraws, is executed   *)
(* by a later edge (drain_scheduled_work_with_executor).                     *)
THEOREM FollowUpsWait == Spec => []FollowUpsDeferred
<1>1. Init => OrderInv /\ DeferInv
  <2> SUFFICES ASSUME Init PROVE OrderInv /\ DeferInv
    OBVIOUS
  <2>1. 1 .. Len(units) = {} /\ unit = NoUnit /\ running = FALSE
    BY DEF Init
  <2> QED BY <2>1, NoUnitIsNone DEF OrderInv, DeferInv, FollowUpsDeferred
<1>2. TypeInv /\ [Next]_vars => TypeInv'
  BY TypeInvStep
<1>3. TypeInv /\ OrderInv /\ [Next]_vars => OrderInv'
  BY OrderStep
<1>4. TypeInv /\ OrderInv /\ DeferInv /\ [Next]_vars => DeferInv'
  BY DeferStep
<1>5. DeferInv => FollowUpsDeferred
  BY DEF DeferInv
<1> QED BY <1>1, <1>2, <1>3, <1>4, <1>5, TypeInvInit, PTL DEF Spec

-----------------------------------------------------------------------------
(* Only shell-only work is coalesced. *)

(* Staging puts a number of its own into every unit that is not shell-only.  *)
LEMMA StagesApart ==
  ASSUME TypeInv, OnlyShellWorkCoalesces, Stages
  PROVE  OnlyShellWorkCoalesces'
<1>0. /\ units \in Seq(Units) /\ Len(units) \in Nat /\ DOMAIN units = 1 .. Len(units)
  BY DEF TypeInv, TypeOK
<1>1. CASE UNCHANGED <<queueVars, drains>>
  BY <1>1 DEF queueVars, OnlyShellWorkCoalesces
<1>2. ASSUME NEW len \in Nat \ {0}, NEW c \in {0, 1}, c <= len, Grows(len, c),
             NEW i \in DOMAIN units', units'[i].kind \notin ShellOnly,
             NEW n \in units'[i].ids, NEW m \in units'[i].ids
      PROVE  n = m
  <2>0. i \in 1 .. Len(units') /\ Len(units') \in Nat /\ i \in Nat /\ 1 <= i
    BY <1>2, LenProperties DEF Grows
  <2>1. CASE i <= Len(units)
    <3>1. i \in 1 .. Len(units)
      BY <1>0, <2>0, <2>1
    <3>2. ~(i = Len(units) /\ c = 1)
      BY <1>2 DEF Grows
    <3>3. i < Len(units) \/ c = 0
      BY <1>0, <2>0, <2>1, <3>2
    <3>4. units'[i] = units[i]
      BY <1>2, <3>1, <3>3 DEF Grows
    <3> QED BY <1>0, <1>2, <3>1, <3>4 DEF OnlyShellWorkCoalesces
  <2>2. CASE ~(i <= Len(units))
    <3>1. i \in (Len(units) + 1) .. Len(units')
      BY <1>0, <2>0, <2>2
    <3>2. units'[i].ids = {staged + (i - Len(units)) + c}
      BY <1>2, <3>1 DEF Grows
    <3> QED BY <1>2, <3>2
  <2> QED BY <2>1, <2>2
<1> QED BY <1>1, <1>2 DEF Stages, OnlyShellWorkCoalesces

(* Ordered batches and events reach the executor one by one (stage_batch).   *)
THEOREM OnlyShellWorkIsCoalesced == Spec => []OnlyShellWorkCoalesces
<1>1. Init => OnlyShellWorkCoalesces
  BY DEF Init, OnlyShellWorkCoalesces
<1>2. ASSUME TypeInv, OnlyShellWorkCoalesces, [Next]_vars
      PROVE  OnlyShellWorkCoalesces'
  <2>0. /\ TypeOK /\ units \in Seq(Units) /\ Len(units) \in Nat
        /\ DOMAIN units = 1 .. Len(units)
    BY <1>2 DEF TypeInv, TypeOK
  <2>1. CASE Stages
    BY <1>2, <2>1, StagesApart
  <2>2. CASE units # <<>> /\ units' = Tail(units)
    <3>1. /\ Len(units') = Len(units) - 1 /\ DOMAIN units' = 1 .. Len(units')
          /\ \A i \in 1 .. Len(units') : units'[i] = units[i + 1]
      BY <2>0, <2>2, HeadTailProperties
    <3>2. \A i \in 1 .. Len(units') : i + 1 \in 1 .. Len(units)
      BY <2>0, <3>1
    <3> QED BY <1>2, <2>0, <3>1, <3>2 DEF OnlyShellWorkCoalesces
  <2>3. ASSUME NEW held \in Nat, ResetAndReport(held)
        PROVE  OnlyShellWorkCoalesces'
    <3>1. /\ units' \in Seq(Units) /\ Len(units') = 1
          /\ units'[1] = [kind |-> "event", ids |-> {staged + 1}]
      BY <2>0, <2>3, ResetType
    <3>2. DOMAIN units' = {1} /\ units'[1].ids = {staged + 1}
      BY <3>1
    <3> QED BY <3>2 DEF OnlyShellWorkCoalesces
  <2>4. CASE units' = <<>>
    BY <2>4 DEF OnlyShellWorkCoalesces
  <2>5. CASE units' = units
    BY <1>2, <2>5 DEF OnlyShellWorkCoalesces
  <2> QED BY <1>2, <2>1, <2>2, <2>3, <2>4, <2>5, QueueSteps
<1>3. TypeInv /\ OnlyShellWorkCoalesces /\ [Next]_vars => OnlyShellWorkCoalesces'
  BY <1>2
<1>4. TypeInv /\ [Next]_vars => TypeInv'
  BY TypeInvStep
<1> QED BY <1>1, <1>3, <1>4, TypeInvInit, PTL DEF Spec

-----------------------------------------------------------------------------
(* The editor gets its turn. *)

(* A pass whose edge is past the ordinary budget is the last one: the edge   *)
(* is not hot, or has its chained budget, or the pass drains the whole queue *)
(* and nothing it executes can stage more.                                   *)
LastPass ==
  \/ edge.thermal # "hot"
  \/ edge.total + edge.left >= MaxChained
  \/ /\ OnlyShellSteps
     /\ unit # NoUnit => unit.kind \in ShellOnly
     /\ Len(units) + Busy = edge.left

BoundInv ==
  running => /\ EdgeIsBounded
             /\ edge.total + edge.left <= MaxPerEdge \/ LastPass

(* A snapshot plans within the bound (scheduled_drain_snapshot).             *)
LEMMA SnapshotBounded ==
  ASSUME TypeInv, NEW total \in Nat, NEW mark \in Nat, total <= MaxPerEdge,
         total = 0 \/ OnlyShellSteps,
         unit = NoUnit, unit' = unit, units' = units, TakeSnapshot(total, mark)
  PROVE  BoundInv'
<1>0. /\ pending = Len(units) /\ Len(units) \in Nat /\ TypeOK /\ CountsUnits
  BY DEF TypeInv, TypeOK, CountsUnits
<1>1. /\ edge'.thermal = thermal /\ edge'.left = Budget /\ edge'.total = total
      /\ Busy' = 0
  BY DEF TakeSnapshot, Busy
<1>2. Budget \in 0 .. MaxChained
  BY <1>0, BudgetType
<1>3. EdgeIsBounded'
  BY <1>1, <1>2, BudgetAssumption DEF EdgeIsBounded
<1>4. CASE thermal # "hot"
  BY <1>1, <1>3, <1>4 DEF BoundInv, LastPass
<1>5. CASE thermal = "hot" /\ OnlyShellSteps
  <2>1. Budget = Len(units) \/ Budget = MaxChained
    BY <1>0, <1>5, BudgetAssumption DEF Budget, Least
  <2>2. OnlyShellSteps'
    BY <1>5 DEF OnlyShellSteps
  <2>3. CASE Budget = Len(units)
    BY <1>0, <1>1, <1>3, <2>2, <2>3 DEF BoundInv, LastPass
  <2>4. CASE Budget = MaxChained
    BY <1>1, <1>3, <2>4, BudgetAssumption DEF BoundInv, LastPass
  <2> QED BY <2>1, <2>3, <2>4
<1>6. CASE thermal = "hot" /\ ~OnlyShellSteps
  <2>1. total = 0
    BY <1>6
  <2>2. Budget <= MaxPerEdge
    BY <1>0, <1>6, BudgetAssumption DEF Budget, Least, BoundedHalf
  <2>3. edge'.total + edge'.left <= MaxPerEdge
    BY <1>1, <1>2, <2>1, <2>2, BudgetAssumption
  <2> QED BY <1>3, <2>3 DEF BoundInv
<1> QED BY <1>4, <1>5, <1>6

(* Every action keeps it.                                                    *)
LEMMA BoundStep ==
  ASSUME TypeInv, BoundInv, [Next]_vars
  PROVE  BoundInv'
<1>0. /\ TypeOK /\ units \in Seq(Units) /\ Len(units) \in Nat /\ staged \in Nat
      /\ edge.left \in Nat /\ edge.total \in Nat /\ edge.mark \in Nat
      /\ DOMAIN units = 1 .. Len(units)
  BY BudgetAssumption DEF TypeInv, TypeOK, Edges
<1>1. ASSUME ~running' PROVE BoundInv'
  BY <1>1 DEF BoundInv
<1>2. ASSUME UnitOver, unit # NoUnit
      PROVE  /\ running' = running /\ unit' = NoUnit /\ Busy' = 0 /\ Busy = 1
             /\ edge'.total + edge'.left = edge.total + edge.left
             /\ edge'.thermal = edge.thermal /\ edge'.left = edge.left - 1
  BY <1>0, <1>2, UnitOverType
<1>3. CASE EditorCallback \/ PluginReset \/ PluginCallbackPanics \/ DrainCannotStart
  BY <1>1, <1>3 DEF EditorCallback, PluginReset, PluginCallbackPanics, DrainCannotStart,
                    edgeVars
<1>4. CASE LanePanics \/ UnitFails \/ UnitPanics \/ EdgeEnds
  BY <1>1, <1>4 DEF LanePanics, UnitFails, UnitPanics, EdgeEnds, EdgeOver
<1>5. CASE FollowUp
  <2>1. /\ unit.kind \notin ShellOnly /\ unit # NoUnit
        /\ running' = running /\ edge' = edge
    BY <1>5, NoUnitIsNone DEF FollowUp, ShellOnly, edgeVars
  <2> QED BY <2>1 DEF BoundInv, LastPass, EdgeIsBounded
<1>6. CASE DispatchEvent
  <2>1. unit.kind \notin ShellOnly /\ unit # NoUnit /\ UnitOver
    BY <1>6, NoUnitIsNone DEF DispatchEvent, ShellOnly
  <2> QED BY <1>2, <2>1 DEF BoundInv, LastPass, EdgeIsBounded
<1>7. CASE UnitDone
  <2>1. unit # NoUnit /\ UnitOver /\ units' = units
    BY <1>7, NoUnitIsNone DEF UnitDone, EffectKinds, ShellOnly, queueVars
  <2>2. OnlyShellSteps' = OnlyShellSteps
    BY <2>1 DEF OnlyShellSteps
  <2>3. Len(units) + Busy = edge.left => Len(units') + Busy' = edge'.left
    BY <1>0, <1>2, <2>1
  <2> QED BY <1>2, <2>1, <2>2, <2>3 DEF BoundInv, LastPass, EdgeIsBounded
<1>8. CASE DrainStarts
  <2>1. /\ TakeSnapshot(0, staged) /\ units' = units /\ unit' = unit /\ unit = NoUnit
    BY <1>8 DEF DrainStarts, TypeInv, PassInv
  <2> QED BY <1>0, <2>1, SnapshotBounded, BudgetAssumption
<1>9. CASE NextPass
  <2>1. /\ TakeSnapshot(edge.total, edge.mark) /\ units' = units /\ unit' = unit
        /\ unit = NoUnit /\ OnlyShellSteps /\ running /\ edge.left = 0
        /\ edge.thermal = "hot" /\ edge.total < MaxChained /\ units # <<>>
    BY <1>9 DEF NextPass, PassOver, ChainsOn
  <2>2. Len(units) # 0 /\ Busy = 0
    BY <1>0, <2>1, EmptySeq DEF Busy
  <2>3. ~LastPass
    BY <1>0, <2>1, <2>2, BudgetAssumption DEF LastPass
  <2>4. edge.total <= MaxPerEdge
    BY <1>0, <2>1, <2>3, BudgetAssumption DEF BoundInv
  <2> QED BY <1>0, <2>1, <2>4, SnapshotBounded
<1>10. CASE PopWorkUnit
  <2>1. running /\ unit = NoUnit /\ edge.left > 0 /\ edge.left <= Len(units)
    BY <1>0, <1>10 DEF PopWorkUnit, TypeInv, PassInv, Busy
  <2>2. units # <<>>
    BY <1>0, <2>1
  <2>3. /\ unit' = units[1] /\ edge' = edge /\ running' = running
        /\ units' \in Seq(Units) /\ Len(units') = Len(units) - 1
        /\ \A i \in 1 .. Len(units') : units'[i] = units[i + 1]
    <3>1. /\ unit' = Head(units) /\ units' = Tail(units)
          /\ edge' = edge /\ running' = running
      BY <1>10, <2>2 DEF PopWorkUnit
    <3>2. Head(units) = units[1]
      BY <1>0, <2>2
    <3> QED BY <1>0, <2>2, <3>1, <3>2, HeadTailProperties
  <2>4. /\ units[1] \in Units /\ Busy = 0 /\ Busy' = 1 /\ 1 \in DOMAIN units
    BY <1>0, <2>1, <2>2, <2>3, NoUnitIsNone DEF Busy
  <2>5. Len(units) + Busy = edge.left => Len(units') + Busy' = edge'.left
    BY <1>0, <2>3, <2>4
  <2>6. ASSUME OnlyShellSteps
        PROVE  OnlyShellSteps' /\ unit'.kind \in ShellOnly
    <3>1. DOMAIN units' = 1 .. Len(units')
      BY <2>3
    <3>2. \A i \in 1 .. Len(units') : i + 1 \in DOMAIN units
      BY <1>0, <2>3
    <3> QED BY <2>3, <2>4, <2>6, <3>1, <3>2 DEF OnlyShellSteps
  <2> QED BY <2>3, <2>5, <2>6 DEF BoundInv, LastPass, EdgeIsBounded
<1>11. CASE UNCHANGED vars
  BY <1>11 DEF vars, BoundInv, LastPass, EdgeIsBounded, OnlyShellSteps, Busy
<1> QED
  BY <1>3, <1>4, <1>5, <1>6, <1>7, <1>8, <1>9, <1>10, <1>11 DEF Next, Drain

(* However passes chain, an edge drains at most one ordinary and one chained *)
(* budget (should_continue_shell_only_follow_up_chain).                      *)
THEOREM EdgesAreBounded == Spec => []EdgeIsBounded
<1>1. Init => BoundInv
  BY DEF Init, BoundInv
<1>2. TypeInv /\ [Next]_vars => TypeInv'
  BY TypeInvStep
<1>3. TypeInv /\ BoundInv /\ [Next]_vars => BoundInv'
  BY BoundStep
<1>4. TypeInv /\ BoundInv => EdgeIsBounded
  <2> SUFFICES ASSUME TypeInv, BoundInv PROVE EdgeIsBounded
    OBVIOUS
  <2>1. CASE running
    BY <2>1 DEF BoundInv
  <2>2. CASE ~running
    BY <2>2, BudgetAssumption DEF TypeInv, PassInv, NoEdge, EdgeIsBounded
  <2> QED BY <2>1, <2>2
<1> QED BY <1>1, <1>2, <1>3, <1>4, TypeInvInit, PTL DEF Spec
=============================================================================
