--------------------------- MODULE SmearCoreDemands ---------------------------
(***************************************************************************)
(* What happens to demands, for every value of the constants of SmearCore: *)
(* the newest demand of a kind is never lost, an overtaken one is never    *)
(* observed again, and planning starts from a complete observation only.   *)
(*                                                                         *)
(* The inductive invariant ObservationInv relates the queue, the demand    *)
(* under observation and the two histories `latest` and `settled`.  Its    *)
(* last part says where an incomplete observation may be: a failure while  *)
(* a basis is collected again leaves one behind in Recovering and then in  *)
(* Ready, always with a demand queued that keeps it from being planned.    *)
(***************************************************************************)
EXTENDS SmearCoreTypes

Complete(obs) == obs.color = "done" /\ obs.chunks = 0

Waits(c) == c.phase \in {"Collecting", "Observing"}

\* Queued demands are newer than settled ones and among those made.
QueueInv(c, l, s) ==
    \A k \in DemandKinds :
        /\ c.queue[k] <= c.seq /\ l[k] <= c.seq /\ s[k] <= c.seq
        /\ c.queue[k] # 0 => s[k] < c.queue[k]
        /\ k \in ExternalKinds => c.queue[k] <= l[k] /\ s[k] <= l[k]

\* The demand under observation is newer than the settled one of its kind and
\* older than the queued one.
ActiveInv(c, l, s) ==
    LET d == ActiveDemand(c)
    IN Waits(c) =>
          /\ d.kind \in DemandKinds
          /\ s[d.kind] < d.seq /\ d.seq <= c.seq
          /\ d.kind \in ExternalKinds => d.seq <= l[d.kind]
          /\ c.queue[d.kind] # 0 => d.seq < c.queue[d.kind]

NewestInv(c, l, s) ==
    \A k \in ExternalKinds :
        s[k] < l[k] => \/ c.queue[k] = l[k]
                       \/ ActiveDemand(c) = [kind |-> k, seq |-> l[k]]

CompleteInv(c) ==
    \/ Complete(c.obs)
    \/ Waits(c)
    \/ c.phase \in {"Recovering", "Ready"} /\ QueuedKinds(c) # {}

DemandInv(c, l, s) == QueueInv(c, l, s) /\ ActiveInv(c, l, s) /\ NewestInv(c, l, s)

Histories == [DemandKinds -> Nat]

\* The reducer's state and the histories together.
ObservationInv(c, l, s) ==
    /\ CoreInv(c)
    /\ l \in Histories /\ s \in Histories
    /\ DemandInv(c, l, s)
    /\ CompleteInv(c)

-----------------------------------------------------------------------------
(* Facts about demands. *)

\* External kinds, the boundary refresh and no demand are told apart.
LEMMA ExternalIsNotBoundary ==
    /\ ExternalKinds \subseteq DemandKinds
    /\ "BoundaryRefresh" \in DemandKinds \ ExternalKinds
    /\ "None" \notin DemandKinds
  BY KindsAssumption DEF DemandKinds

\* The active demand in each phase.
LEMMA ActiveDemandOf ==
    ASSUME NEW c, CoreInv(c)
    PROVE  /\ ~Waits(c) => ActiveDemand(c) = NoDemand
           /\ c.phase = "Collecting" => ActiveDemand(c) = c.demand
           /\ c.phase = "Observing" =>
                 ActiveDemand(c) = [kind |-> c.obs.kind, seq |-> c.obs.seq]
           /\ ActiveDemand(c) \in Demands
           /\ ActiveDemand(c) = [kind |-> ActiveDemand(c).kind,
                                 seq |-> ActiveDemand(c).seq]
<1>1. c.demand \in Demands /\ c.obs \in Observations /\ NoDemand \in Demands
  BY FieldTypes, EmptyValues DEF CoreInv
<1>2. ActiveDemand(c) \in Demands
  BY <1>1 DEF ActiveDemand, Demands, Observations
<1>3. ActiveDemand(c) = [kind |-> ActiveDemand(c).kind,
                         seq |-> ActiveDemand(c).seq]
  BY <1>2 DEF Demands
<1> QED BY <1>2, <1>3 DEF ActiveDemand, Waits

\* A core that accepts an observation has no active demand.
LEMMA AcceptingWaitsForNothing ==
    ASSUME NEW c, CoreInv(c), AcceptsObservation(c)
    PROVE  ~Waits(c) /\ ActiveDemand(c) = NoDemand
  BY ActiveDemandOf DEF AcceptsObservation, Waits

\* Nothing changes for demands.
KeepsDemands(c, n) ==
    /\ n.queue = c.queue
    /\ n.seq = c.seq
    /\ ActiveDemand(n) = ActiveDemand(c)
    /\ Waits(n) => Waits(c)

\* ... and so the invariant of the demands holds on.
LEMMA KeepsDemandsInv ==
    ASSUME NEW c, NEW n, NEW l, NEW s, DemandInv(c, l, s), KeepsDemands(c, n)
    PROVE  DemandInv(n, l, s)
  BY DEF DemandInv, QueueInv, ActiveInv, NewestInv, KeepsDemands

\* A step that leaves the protocol alone keeps the invariant,
LEMMA SameProtocolInv ==
    ASSUME NEW c, NEW n, NEW l, NEW s, ObservationInv(c, l, s),
           CoreInv(n), SameProtocol(c, n)
    PROVE  ObservationInv(n, l, s)
<1>1. KeepsDemands(c, n)
  BY DEF SameProtocol, KeepsDemands, ActiveDemand, Waits
<1>2. CompleteInv(n)
  BY DEF ObservationInv, SameProtocol, CompleteInv, Waits, QueuedKinds
<1> QED BY <1>1, <1>2, KeepsDemandsInv DEF ObservationInv

\* ... a transition of timers and cleanup does,
LEMMA TimersOnlyInv ==
    ASSUME NEW c, NEW t, NEW l, NEW s, ObservationInv(c, l, s), TimersOnly(c, t)
    PROVE  ObservationInv(t.next, l, s)
<1>1. CoreInv(t.next) /\ SameProtocol(c, t.next)
  BY TimersOnlyIsTransition DEF ObservationInv, IsTransition, TimersOnly
<1> QED BY <1>1, SameProtocolInv

\* ... and so does ignoring an event.
LEMMA StayInv ==
    ASSUME NEW c, NEW l, NEW s, ObservationInv(c, l, s)
    PROVE  ObservationInv(Stay(c).next, l, s)
  BY DEF Stay

\* While nothing is observed the newest unsettled demand of a kind is queued.
LEMMA NewestIsQueued ==
    ASSUME NEW c, NEW l, NEW s, ObservationInv(c, l, s), AcceptsObservation(c)
    PROVE  \A k \in ExternalKinds : s[k] < l[k] => c.queue[k] = l[k]
<1>1. ActiveDemand(c) = NoDemand
  BY AcceptingWaitsForNothing DEF ObservationInv
<1>2. \A k \in ExternalKinds : k # "None"
  BY ExternalIsNotBoundary
<1> SUFFICES ASSUME NEW k \in ExternalKinds, s[k] < l[k]
             PROVE  c.queue[k] = l[k]
  OBVIOUS
<1>3. \/ c.queue[k] = l[k]
      \/ ActiveDemand(c) = [kind |-> k, seq |-> l[k]]
  BY DEF NewestInv, ObservationInv, DemandInv
<1> QED BY <1>1, <1>2, <1>3 DEF NoDemand

-----------------------------------------------------------------------------
(* Starting observations and plans. *)

\* The oldest queued demand becomes the one under observation.
LEMMA StartNextMoves ==
    ASSUME NEW c, CoreInv(c), AcceptsObservation(c), QueuedKinds(c) # {}
    PROVE  \E k \in QueuedKinds(c) :
              /\ StartNextObservation(c).next.phase = "Collecting"
              /\ StartNextObservation(c).next.demand
                    = [kind |-> k, seq |-> c.queue[k]]
              /\ StartNextObservation(c).next.queue = [c.queue EXCEPT ![k] = 0]
              /\ StartNextObservation(c).next.seq = c.seq
<1> DEFINE k == CHOOSE k \in QueuedKinds(c) :
                   \A j \in QueuedKinds(c) : c.queue[k] <= c.queue[j]
           queue == [c.queue EXCEPT ![k] = 0]
           m == [c EXCEPT !.queue = queue, !.delay = "none"]
           d == [kind |-> k, seq |-> c.queue[k]]
<1>1. k \in QueuedKinds(c) /\ k \in DemandKinds
  BY OldestKindExists DEF QueuedKinds, CoreInv
<1>2. queue \in Queues /\ c.queue[k] \in Nat
  BY <1>1, FieldTypes DEF Queues, CoreInv
<1>3. StartNextObservation(c) = EnterObservingRequest(m, d)
  BY DEF StartNextObservation
<1>4. d \in Demands
  BY <1>1, <1>2 DEF Demands
<1> HIDE DEF k, queue, d
<1>5. m \in CoreStates /\ AcceptsObservation(m) /\ m.queue = queue /\ m.seq = c.seq
  BY <1>2 DEF CoreInv, CoreStates, AcceptsObservation, Delays
<1> HIDE DEF m
<1>6. /\ StartNextObservation(c).next.phase = "Collecting"
      /\ StartNextObservation(c).next.demand = d
      /\ StartNextObservation(c).next.queue = queue
      /\ StartNextObservation(c).next.seq = c.seq
  BY <1>3, <1>4, <1>5, EnterObservingRequestTyped
<1>7. /\ StartNextObservation(c).next.demand = [kind |-> k, seq |-> c.queue[k]]
      /\ StartNextObservation(c).next.queue = [c.queue EXCEPT ![k] = 0]
  BY <1>6 DEF queue, d
<1> QED BY <1>1, <1>6, <1>7

\* Starting the oldest queued demand keeps the invariant: it leaves the queue
\* as it becomes active.
LEMMA StartNextInv ==
    ASSUME NEW c, NEW l, NEW s, ObservationInv(c, l, s), AcceptsObservation(c)
    PROVE  ObservationInv(StartNextObservation(c).next, l, s)
<1> DEFINE n == StartNextObservation(c).next
<1>1. CASE QueuedKinds(c) = {}
  BY <1>1, StayInv DEF StartNextObservation
<1>2. CASE QueuedKinds(c) # {}
  <2>1. CoreInv(n)
    BY StartNextTyped DEF ObservationInv, IsTransition
  <2>2. PICK k \in QueuedKinds(c) :
           /\ n.phase = "Collecting"
           /\ n.demand = [kind |-> k, seq |-> c.queue[k]]
           /\ n.queue = [c.queue EXCEPT ![k] = 0]
           /\ n.seq = c.seq
    BY <1>2, StartNextMoves DEF ObservationInv
  <2> HIDE DEF n
  <2>3. ActiveDemand(n) = [kind |-> k, seq |-> c.queue[k]] /\ Waits(n)
    BY <2>1, <2>2, ActiveDemandOf DEF Waits
  <2>5. k \in DemandKinds /\ c.queue[k] # 0 /\ c.queue \in Queues /\ c.seq \in Nat
    BY FieldTypes DEF QueuedKinds, ObservationInv, CoreInv
  <2>6. QueueInv(n, l, s)
    BY <2>2, <2>5 DEF QueueInv, ObservationInv, DemandInv, Queues, Histories
  <2>7. ActiveInv(n, l, s)
    BY <2>2, <2>3, <2>5
    DEF QueueInv, ActiveInv, ObservationInv, DemandInv, Queues, Histories
  <2>8. NewestInv(n, l, s)
    <3> SUFFICES ASSUME NEW j \in ExternalKinds, s[j] < l[j]
                 PROVE  \/ n.queue[j] = l[j]
                        \/ ActiveDemand(n) = [kind |-> j, seq |-> l[j]]
      BY DEF NewestInv
    <3>1. c.queue[j] = l[j] /\ j \in DemandKinds
      BY NewestIsQueued, ExternalIsNotBoundary
    <3>2. CASE j = k
      BY <2>3, <3>1, <3>2
    <3>3. CASE j # k
      BY <2>2, <2>5, <3>1, <3>3 DEF Queues
    <3> QED BY <3>2, <3>3
  <2> QED BY <2>1, <2>3, <2>6, <2>7, <2>8
          DEF ObservationInv, DemandInv, CompleteInv, n
<1> QED BY <1>1, <1>2

\* A boundary refresh is a demand of its own, newer than all others.
LEMMA StartBoundaryRefreshInv ==
    ASSUME NEW c, NEW l, NEW s, ObservationInv(c, l, s), AcceptsObservation(c),
           QueuedKinds(c) = {}
    PROVE  ObservationInv(StartBoundaryRefreshObservation(c).next, l, s)
<1> DEFINE n == StartBoundaryRefreshObservation(c).next
           m == [c EXCEPT !.seq = c.seq + 1]
           d == [kind |-> "BoundaryRefresh", seq |-> c.seq + 1]
<1>1. CoreInv(n)
  BY StartBoundaryRefreshTyped DEF ObservationInv, CoreInv, IsTransition
<1>2. /\ m \in CoreStates /\ AcceptsObservation(m) /\ d \in Demands
      /\ m.queue = c.queue /\ m.seq = c.seq + 1
  BY FieldTypes DEF ObservationInv, CoreInv, CoreStates, AcceptsObservation,
                    Demands, DemandKinds
<1>3. /\ n.phase = "Collecting" /\ n.demand = d
      /\ n.queue = c.queue /\ n.seq = c.seq + 1
  BY <1>2, EnterObservingRequestTyped DEF StartBoundaryRefreshObservation
<1> HIDE DEF n, m
<1>4. ActiveDemand(n) = d /\ Waits(n)
  BY <1>1, <1>3, ActiveDemandOf DEF Waits
<1>5. ActiveDemand(c) = NoDemand
  BY AcceptingWaitsForNothing DEF ObservationInv
<1>6. c.seq \in Nat /\ c.queue \in Queues /\ \A k \in DemandKinds : c.queue[k] = 0
  BY FieldTypes DEF ObservationInv, CoreInv, QueuedKinds
<1>7. QueueInv(n, l, s)
  BY <1>3, <1>6 DEF QueueInv, ObservationInv, DemandInv, Queues, Histories
<1>8. ActiveInv(n, l, s)
  BY <1>3, <1>4, <1>6, ExternalIsNotBoundary
  DEF QueueInv, ActiveInv, ObservationInv, DemandInv, Queues, Histories
<1>9. NewestInv(n, l, s)
  BY <1>3, NewestIsQueued DEF NewestInv
<1> QED BY <1>1, <1>4, <1>7, <1>8, <1>9
        DEF ObservationInv, DemandInv, CompleteInv, n

\* Only a complete observation is planned.
LEMMA PlanReadyInv ==
    ASSUME NEW c, NEW l, NEW s, ObservationInv(c, l, s), NEW d \in Decisions,
           Complete(c.obs)
    PROVE  /\ ObservationInv(PlanReadyState(c, d).next, l, s)
           /\ c.phase = "Ready" => ~Waits(PlanReadyState(c, d).next)
<1> DEFINE n == PlanReadyState(c, d).next
<1>1. CASE c.phase # "Ready"
  BY <1>1, StayInv DEF PlanReadyState
<1>2. CASE c.phase = "Ready"
  <2>1. CoreInv(n)
    BY PlanReadyTyped DEF ObservationInv, IsTransition
  <2>2. /\ n.phase = "Planning" /\ n.queue = c.queue /\ n.seq = c.seq
        /\ n.obs = c.obs
    BY <1>2 DEF PlanReadyState, ObservationInv, CoreInv, CoreStates
  <2> HIDE DEF n
  <2>3. KeepsDemands(c, n)
    BY <1>2, <2>1, <2>2, ActiveDemandOf DEF KeepsDemands, Waits, ObservationInv
  <2> QED BY <2>1, <2>2, <2>3, KeepsDemandsInv
          DEF ObservationInv, CompleteInv, Waits, n
<1> QED BY <1>1, <1>2

\* Observing or planning next keeps the invariant.
LEMMA ObserveOrPlanInv ==
    ASSUME NEW c, NEW l, NEW s, ObservationInv(c, l, s), NEW d \in Decisions
    PROVE  ObservationInv(ObserveOrPlan(c, d).next, l, s)
<1>1. CASE ~AcceptsObservation(c)
  BY <1>1, StayInv DEF ObserveOrPlan
<1>2. CASE AcceptsObservation(c) /\ QueuedKinds(c) # {}
  BY <1>2, StartNextInv DEF ObserveOrPlan
<1>3. CASE AcceptsObservation(c) /\ QueuedKinds(c) = {}
  <2>1. Complete(c.obs)
    BY <1>3 DEF ObservationInv, CompleteInv, AcceptsObservation, Waits
  <2> QED BY <1>3, <2>1, PlanReadyInv DEF ObserveOrPlan
<1> QED BY <1>1, <1>2, <1>3

-----------------------------------------------------------------------------
(* Ingress. *)

\* A demand of the editor is queued, or observed at once: `latest` moves to it.
LEMMA QueuedInv ==
    ASSUME NEW c, NEW l, NEW s, ObservationInv(c, l, s),
           NEW kind \in ExternalKinds,
           NEW n, CoreInv(n), n.phase = c.phase, n.demand = c.demand,
           n.obs = c.obs, n.proposal = c.proposal,
           n.queue = [c.queue EXCEPT ![kind] = c.seq + 1],
           n.seq = c.seq + 1
    PROVE  ObservationInv(n, [l EXCEPT ![kind] = c.seq + 1], s)
<1> DEFINE l2 == [l EXCEPT ![kind] = c.seq + 1]
<1>1. c.seq \in Nat /\ c.queue \in Queues /\ kind \in DemandKinds
      /\ l \in Histories /\ s \in Histories
  BY FieldTypes, ExternalIsNotBoundary DEF ObservationInv, CoreInv
<1>2. l2 \in Histories
  BY <1>1 DEF Histories
<1>3. ActiveDemand(n) = ActiveDemand(c) /\ (Waits(n) <=> Waits(c))
  BY DEF ActiveDemand, Waits
<1>4. QueueInv(n, l2, s)
  BY <1>1 DEF QueueInv, ObservationInv, DemandInv, Queues, Histories
<1>5. ActiveInv(n, l2, s)
  <2> DEFINE d == ActiveDemand(c)
  <2>1. d.seq \in Nat
    BY ActiveDemandOf DEF ObservationInv, Demands
  <2>2. Waits(c) =>
           /\ d.kind \in DemandKinds
           /\ s[d.kind] < d.seq /\ d.seq <= c.seq
           /\ d.kind \in ExternalKinds => d.seq <= l[d.kind]
           /\ c.queue[d.kind] # 0 => d.seq < c.queue[d.kind]
    BY DEF ObservationInv, DemandInv, ActiveInv
  <2> HIDE DEF d
  <2>3. Waits(c) =>
           /\ d.kind \in DemandKinds
           /\ s[d.kind] < d.seq /\ d.seq <= n.seq
           /\ d.kind \in ExternalKinds => d.seq <= l2[d.kind]
           /\ n.queue[d.kind] # 0 => d.seq < n.queue[d.kind]
    BY <1>1, <2>1, <2>2 DEF Queues, Histories
  <2> QED BY <1>3, <2>3 DEF ActiveInv, d
<1>6. NewestInv(n, l2, s)
  BY <1>1, <1>3 DEF NewestInv, ObservationInv, DemandInv, Queues, Histories
<1>7. CompleteInv(n)
  <2>1. QueuedKinds(c) \subseteq QueuedKinds(n)
    BY <1>1 DEF QueuedKinds, Queues
  <2> QED BY <1>3, <2>1 DEF CompleteInv, ObservationInv
<1> QED BY <1>2, <1>4, <1>5, <1>6, <1>7 DEF ObservationInv, DemandInv

\* Holding a cursor demand back keeps the invariant: the demand is queued.
LEMMA DelayedCursorIngressInv ==
    ASSUME NEW c, NEW l, NEW s, ObservationInv(c, l, s)
    PROVE  ObservationInv(DelayedCursorIngress(c).next, l, s)
<1> DEFINE armed    == [c EXCEPT !.delay = "armed"]
           extended == [c EXCEPT !.delay = "extended"]
<1>1. /\ CoreInv(armed) /\ SameProtocol(c, armed)
      /\ CoreInv(extended) /\ SameProtocol(c, extended)
  BY DEF ObservationInv, CoreInv, CoreStates, Delays, SameProtocol
<1> HIDE DEF armed, extended
<1>2. ObservationInv(armed, l, s) /\ ObservationInv(extended, l, s)
  BY <1>1, SameProtocolInv
<1>3. ObservationInv(ScheduleTimerWithDelay(armed, "Ingress").next, l, s)
  BY <1>2, ScheduleTimerTyped, TimersOnlyInv
  DEF ObservationInv, CoreInv, TimerIds
<1>4. ObservationInv(Stay(extended).next, l, s)
  BY <1>2, StayInv
<1> QED BY <1>3, <1>4 DEF DelayedCursorIngress, armed, extended

\* A new demand is the newest of its kind and is queued or active.
LEMMA QueueExternalDemandInv ==
    ASSUME NEW c, NEW l, NEW s, ObservationInv(c, l, s), NEW kind \in ExternalKinds
    PROVE  /\ QueueExternalDemand(c, kind).next.seq = c.seq + 1
           /\ ObservationInv(QueueExternalDemand(c, kind).next,
                             [l EXCEPT ![kind] = c.seq + 1], s)
<1> DEFINE l2     == [l EXCEPT ![kind] = c.seq + 1]
           queue  == [c.queue EXCEPT ![kind] = c.seq + 1]
           queued == [c EXCEPT !.seq = c.seq + 1, !.queue = queue]
           hot    == EnterHotCleanup(queued)
           start  == IF ~AcceptsObservation(c) THEN Stay(hot.next)
                     ELSE IF kind = CursorKind /\ DelaysCursor
                          THEN DelayedCursorIngress(hot.next)
                          ELSE StartNextObservation(hot.next)
<1>1. queue \in Queues /\ c.seq + 1 \in Nat
  BY FieldTypes DEF ObservationInv, CoreInv, Queues, DemandKinds
<1>2. /\ CoreInv(queued) /\ queued.phase = c.phase
      /\ queued.demand = c.demand /\ queued.obs = c.obs
      /\ queued.proposal = c.proposal
      /\ queued.queue = queue /\ queued.seq = c.seq + 1
  <2> HIDE DEF queue
  <2> QED BY <1>1 DEF ObservationInv, CoreInv, CoreStates
<1>3. QueueExternalDemand(c, kind).next = start.next
  BY DEF QueueExternalDemand
<1> HIDE DEF queued
<1>4. ObservationInv(queued, l2, s)
  BY <1>2, QueuedInv
<1>5. TimersOnly(queued, hot)
  BY <1>2, EnterHotTyped DEF CoreInv
<1> HIDE DEF hot, l2
<1>6. /\ ObservationInv(hot.next, l2, s)
      /\ hot.next.seq = c.seq + 1
      /\ AcceptsObservation(c) => AcceptsObservation(hot.next)
  BY <1>2, <1>4, <1>5, TimersOnlyInv
  DEF TimersOnly, SameProtocol, AcceptsObservation
<1>7. ObservationInv(start.next, l2, s)
  BY <1>6, StayInv, DelayedCursorIngressInv, StartNextInv
<1>8. start.next.seq = c.seq + 1
  <2>1. Stay(hot.next).next.seq = hot.next.seq
    BY DEF Stay
  <2>2. DelayedCursorIngress(hot.next).next.seq = hot.next.seq
    <3>1. hot.next \in CoreStates
      BY <1>6 DEF ObservationInv, CoreInv
    <3> QED BY <3>1 DEF DelayedCursorIngress, Stay, ScheduleTimerWithDelay, CoreStates
  <2>3. AcceptsObservation(hot.next) =>
           StartNextObservation(hot.next).next.seq = hot.next.seq
    <3>1. CoreInv(hot.next)
      BY <1>6 DEF ObservationInv
    <3>2. CASE QueuedKinds(hot.next) = {}
      BY <3>2 DEF StartNextObservation, Stay
    <3>3. CASE QueuedKinds(hot.next) # {}
      BY <3>1, <3>3, StartNextMoves
    <3> QED BY <3>2, <3>3
  <2> QED BY <1>6, <2>1, <2>2, <2>3
<1> QED BY <1>3, <1>7, <1>8 DEF l2

\* The ingress handler keeps the invariant.
LEMMA ExternalDemandQueuedInv ==
    ASSUME NEW c, NEW l, NEW s, ObservationInv(c, l, s),
           NEW e \in Events, e.type = "ExternalDemandQueued", c.phase # "Idle"
    PROVE  LET n == ReduceExternalDemandQueued(c, e).next
           IN ObservationInv(n, [l EXCEPT ![e.kind] = n.seq], s)
<1>1. ReduceExternalDemandQueued(c, e).next = QueueExternalDemand(c, e.kind).next
  BY DEF ReduceExternalDemandQueued
<1> QED BY <1>1, EventFields, QueueExternalDemandInv

-----------------------------------------------------------------------------
(* Observation reports: the handlers that settle a demand. *)

\* The demand a report took out of observation is settled.
AfterReport(c, n, s) ==
    LET d == ActiveDemand(c)
    IN IF d # NoDemand /\ ActiveDemand(n) # d THEN [s EXCEPT ![d.kind] = d.seq]
                                             ELSE s

\* A report that leaves the active demand alone settles nothing.
LEMMA KeptIsUnsettled ==
    ASSUME NEW c, NEW n, NEW l, NEW s, ObservationInv(n, l, s),
           ActiveDemand(n) = ActiveDemand(c)
    PROVE  ObservationInv(n, l, AfterReport(c, n, s))
  BY DEF AfterReport

\* Leaving observation settles the demand and lets the next one in.
LEMMA LeavesObservation ==
    ASSUME NEW c, NEW l, NEW s, ObservationInv(c, l, s), Waits(c),
           NEW n, CoreInv(n), ~Waits(n), n.queue = c.queue, n.seq = c.seq,
           Complete(n.obs)
    PROVE  LET d == ActiveDemand(c)
           IN ObservationInv(n, l, [s EXCEPT ![d.kind] = d.seq])
<1> DEFINE d  == ActiveDemand(c)
           s2 == [s EXCEPT ![d.kind] = d.seq]
<1>1. /\ c.seq \in Nat /\ c.queue \in Queues /\ d.seq \in Nat
      /\ l \in Histories /\ s \in Histories
  BY FieldTypes, ActiveDemandOf DEF ObservationInv, CoreInv, Demands
<1>2. /\ d.kind \in DemandKinds
      /\ s[d.kind] < d.seq /\ d.seq <= c.seq
      /\ d.kind \in ExternalKinds => d.seq <= l[d.kind]
      /\ c.queue[d.kind] # 0 => d.seq < c.queue[d.kind]
  BY DEF ObservationInv, DemandInv, ActiveInv
<1>3. d = [kind |-> d.kind, seq |-> d.seq]
  BY ActiveDemandOf DEF ObservationInv
<1>4. NewestInv(c, l, s) /\ QueueInv(c, l, s)
  BY DEF ObservationInv, DemandInv
<1>5. \A k \in ExternalKinds :
         s[k] < l[k] => c.queue[k] = l[k] \/ d = [kind |-> k, seq |-> l[k]]
  BY <1>4 DEF NewestInv
<1> HIDE DEF d
<1>6. s2 \in Histories
  BY <1>1, <1>2 DEF Histories
<1>7. QueueInv(n, l, s2)
  BY <1>1, <1>2, <1>4 DEF QueueInv, Queues, Histories
<1>8. NewestInv(n, l, s2)
  <2> SUFFICES ASSUME NEW k \in ExternalKinds, s2[k] < l[k]
               PROVE  n.queue[k] = l[k]
    BY DEF NewestInv
  <2>1. k \in DemandKinds
    BY ExternalIsNotBoundary
  <2>2. s[k] < l[k] /\ ~(k = d.kind /\ d.seq = l[k])
    BY <1>1, <1>2, <2>1 DEF Histories
  <2> QED BY <1>3, <1>5, <2>2
<1>9. ActiveInv(n, l, s2) /\ CompleteInv(n)
  BY DEF ActiveInv, CompleteInv
<1> QED BY <1>1, <1>6, <1>7, <1>8, <1>9 DEF ObservationInv, DemandInv, d

\* A demand under observation is none of those the next start may take.
LEMMA SettledDemandIsNotRestarted ==
    ASSUME NEW c, NEW l, NEW s, ObservationInv(c, l, s), Waits(c), NEW n,
           LET d == ActiveDemand(c)
           IN ObservationInv(n, l, [s EXCEPT ![d.kind] = d.seq])
    PROVE  /\ AfterReport(c, n, s)
                = [s EXCEPT ![ActiveDemand(c).kind] = ActiveDemand(c).seq]
           /\ ObservationInv(n, l, AfterReport(c, n, s))
<1> DEFINE d  == ActiveDemand(c)
           s2 == [s EXCEPT ![d.kind] = d.seq]
<1>1. d.kind \in DemandKinds /\ d.seq \in Nat /\ s \in Histories
  BY ActiveDemandOf DEF ObservationInv, DemandInv, ActiveInv, Demands
<1>2. d # NoDemand
  BY <1>1, ExternalIsNotBoundary DEF NoDemand
<1>3. ActiveDemand(n) # d
  <2>1. CASE ~Waits(n)
    BY <1>2, <2>1, ActiveDemandOf DEF ObservationInv
  <2>2. CASE Waits(n)
    <3>1. s2[ActiveDemand(n).kind] < ActiveDemand(n).seq
      BY <2>2 DEF ObservationInv, DemandInv, ActiveInv
    <3>2. s2[d.kind] = d.seq
      BY <1>1 DEF Histories
    <3> QED BY <1>1, <3>1, <3>2
  <2> QED BY <2>1, <2>2
<1> QED BY <1>2, <1>3 DEF AfterReport

\* The handler of an observation base keeps the invariant.
LEMMA ObservationBaseCollectedInv ==
    ASSUME NEW c, NEW l, NEW s, ObservationInv(c, l, s), NEW d \in Decisions,
           NEW e \in Events, e.type = "ObservationBaseCollected"
    PROVE  LET n == ReduceObservationBaseCollected(c, e, d).next
           IN ObservationInv(n, l, AfterReport(c, n, s))
<1> DEFINE n    == ReduceObservationBaseCollected(c, e, d).next
           obs  == [kind |-> c.demand.kind, seq |-> c.demand.seq,
                    color |-> IF SamplesCursorColor /\ e.samples
                              THEN "pending" ELSE "done",
                    chunks |-> e.chunks, inexact |-> e.inexact]
           base      == [c EXCEPT !.obs = obs, !.demand = NoDemand]
           observing == [base EXCEPT !.phase = "Observing"]
           ready     == [base EXCEPT !.phase = "Ready", !.refresh = NoRefreshes]
           probes    == NextPendingProbeEffects(obs)
           answers   == c.phase = "Collecting" /\ c.demand.seq = e.id
<1>1. obs \in Observations /\ obs.kind = c.demand.kind /\ obs.seq = c.demand.seq
  BY FieldTypes, EventFields
  DEF ObservationInv, CoreInv, Observations, Demands
<1>2. probes = <<>> => Complete(obs)
  BY <1>1 DEF NextPendingProbeEffects, Complete, Observations
<1>3. ~answers => n = c
  BY DEF ReduceObservationBaseCollected, Stay
<1>4. answers => n = IF probes # <<>> THEN observing
                     ELSE PlanReadyState(ready, d).next
  BY DEF ReduceObservationBaseCollected
<1> HIDE DEF n, obs, probes
<1>5. /\ CoreInv(observing) /\ CoreInv(ready)
      /\ observing.phase = "Observing" /\ ready.phase = "Ready"
      /\ observing.obs = obs /\ ready.obs = obs
      /\ observing.queue = c.queue /\ ready.queue = c.queue
      /\ observing.seq = c.seq /\ ready.seq = c.seq
  BY <1>1, EmptyValues, Phases DEF ObservationInv, CoreInv, CoreStates
<1> HIDE DEF observing, ready
<1>6. CASE ~answers
  BY <1>3, <1>6, KeptIsUnsettled DEF n
<1>7. CASE answers /\ probes # <<>>
  <2>1. n = observing
    BY <1>4, <1>7
  <2>2. ActiveDemand(n) = ActiveDemand(c)
    <3>1. ActiveDemand(n) = [kind |-> obs.kind, seq |-> obs.seq]
      BY <1>5, <2>1, ActiveDemandOf
    <3>2. ActiveDemand(c) = c.demand
      BY <1>7, ActiveDemandOf DEF ObservationInv
    <3>3. ActiveDemand(c) = [kind |-> ActiveDemand(c).kind,
                             seq |-> ActiveDemand(c).seq]
      BY ActiveDemandOf DEF ObservationInv
    <3> QED BY <1>1, <3>1, <3>2, <3>3
  <2>3. KeepsDemands(c, n)
    BY <1>5, <1>7, <2>1, <2>2 DEF KeepsDemands, Waits
  <2>4. ObservationInv(n, l, s)
    BY <1>5, <2>1, <2>3, KeepsDemandsInv DEF ObservationInv, CompleteInv, Waits
  <2> QED BY <2>2, <2>4, KeptIsUnsettled DEF n
<1>8. CASE answers /\ probes = <<>>
  <2> DEFINE s2 == [s EXCEPT ![ActiveDemand(c).kind] = ActiveDemand(c).seq]
  <2>1. Waits(c) /\ ~Waits(ready)
    BY <1>5, <1>8 DEF Waits
  <2>2. Complete(ready.obs)
    BY <1>2, <1>5, <1>8
  <2>3. ObservationInv(ready, l, s2)
    BY <1>5, <2>1, <2>2, LeavesObservation
  <2> HIDE DEF s2
  <2>4. n = PlanReadyState(ready, d).next
    BY <1>4, <1>8
  <2>5. ObservationInv(n, l, s2)
    BY <2>2, <2>3, <2>4, PlanReadyInv
  <2> QED BY <2>1, <2>5, SettledDemandIsNotRestarted DEF s2, n
<1> QED BY <1>6, <1>7, <1>8

\* The retry of an outdated observation keeps it, and so does giving up.
LEMMA RefreshRequiredInv ==
    ASSUME NEW c, NEW l, NEW s, ObservationInv(c, l, s), NEW d \in Decisions,
           NEW p \in ProbeKinds
    PROVE  LET n == ReduceRefreshRequired(c, p, d).next
           IN ObservationInv(n, l, AfterReport(c, n, s))
<1> DEFINE n      == ReduceRefreshRequired(c, p, d).next
           primed == [c EXCEPT !.phase = "Primed", !.obs = NoObservation,
                               !.refresh = NoRefreshes]
<1>1. CoreInv(n)
  BY RefreshRequiredTyped DEF ObservationInv, IsTransition
<1>2. CASE c.phase # "Observing"
  <2>1. n = c
    BY <1>2 DEF ReduceRefreshRequired, Stay
  <2> HIDE DEF n
  <2> QED BY <2>1, KeptIsUnsettled DEF n
<1>3. CASE c.phase = "Observing" /\ c.refresh[p] = MaxProbeRefreshRetries
  <2> DEFINE s2 == [s EXCEPT ![ActiveDemand(c).kind] = ActiveDemand(c).seq]
  <2>1. /\ CoreInv(primed) /\ primed.phase = "Primed"
        /\ primed.obs = NoObservation
        /\ primed.queue = c.queue /\ primed.seq = c.seq
    BY EmptyValues, Phases DEF ObservationInv, CoreInv, CoreStates
  <2>2. n = ObserveOrPlan(primed, d).next
    BY <1>3 DEF ReduceRefreshRequired
  <2> HIDE DEF n, primed
  <2>3. Waits(c) /\ ~Waits(primed) /\ Complete(primed.obs)
    BY <1>3, <2>1 DEF Waits, Complete, NoObservation
  <2>4. ObservationInv(primed, l, s2)
    BY <2>1, <2>3, LeavesObservation
  <2> HIDE DEF s2
  <2>5. ObservationInv(n, l, s2)
    BY <2>2, <2>4, ObserveOrPlanInv
  <2> QED BY <2>3, <2>5, SettledDemandIsNotRestarted DEF s2, n
<1>4. CASE c.phase = "Observing" /\ c.refresh[p] # MaxProbeRefreshRetries
  <2>1. /\ n.phase = "Collecting" /\ n.demand = ActiveDemand(c)
        /\ n.queue = c.queue /\ n.seq = c.seq
    BY <1>4 DEF ReduceRefreshRequired, ObservationInv, CoreInv, CoreStates
  <2> HIDE DEF n
  <2>2. ActiveDemand(n) = ActiveDemand(c)
    BY <1>1, <2>1, ActiveDemandOf
  <2>3. KeepsDemands(c, n) /\ Waits(n)
    BY <1>4, <2>1, <2>2 DEF KeepsDemands, Waits
  <2>4. ObservationInv(n, l, s)
    BY <1>1, <2>3, KeepsDemandsInv DEF ObservationInv, CompleteInv
  <2> QED BY <2>2, <2>4, KeptIsUnsettled DEF n
<1> QED BY <1>2, <1>3, <1>4

\* The handler of a probe report keeps the invariant.
LEMMA ProbeReportedInv ==
    ASSUME NEW c, NEW l, NEW s, ObservationInv(c, l, s), NEW d \in Decisions,
           NEW e \in Events, e.type = "ProbeReported"
    PROVE  LET n == ReduceProbeReported(c, e, d).next
           IN ObservationInv(n, l, AfterReport(c, n, s))
<1> DEFINE n       == ReduceProbeReported(c, e, d).next
           obs     == ApplyProbeReport(c.obs, e)
           updated == [c EXCEPT !.obs = obs]
           ready   == [updated EXCEPT !.phase = "Ready", !.refresh = NoRefreshes]
           probes  == NextPendingProbeEffects(updated.obs)
           fits    == /\ c.phase \in {"Observing", "Ready", "Planning", "Applying"}
                      /\ AcceptsProbeReport(c.obs, e)
<1>1. CASE ~fits
  <2>1. n = c
    BY <1>1 DEF ReduceProbeReported, Stay
  <2> HIDE DEF n
  <2> QED BY <2>1, KeptIsUnsettled DEF n
<1>2. CASE fits /\ e.outcome = "refresh"
  <2>1. n = ReduceRefreshRequired(c, e.probe, d).next
    BY <1>2 DEF ReduceProbeReported
  <2> HIDE DEF n
  <2> QED BY <2>1, EventFields, RefreshRequiredInv DEF n
<1>3. CASE fits /\ e.outcome # "refresh"
  <2>1. obs \in Observations /\ obs.kind = c.obs.kind /\ obs.seq = c.obs.seq
    BY <1>3, FieldTypes, ApplyProbeReportTyped DEF ObservationInv, CoreInv
  <2>2. n = IF probes # <<>> \/ c.phase # "Observing" THEN updated
            ELSE PlanReadyState(ready, d).next
    BY <1>3 DEF ReduceProbeReported, Stay
  <2>3. Complete(c.obs) => Complete(obs)
    BY <1>3, FieldTypes
    DEF ObservationInv, CoreInv, Observations, ProbeKinds, Complete,
        AcceptsProbeReport
  <2> HIDE DEF n, obs
  <2>4. /\ CoreInv(updated) /\ CoreInv(ready)
        /\ updated.phase = c.phase /\ ready.phase = "Ready"
        /\ updated.demand = c.demand
        /\ updated.obs = obs /\ ready.obs = obs
        /\ updated.queue = c.queue /\ ready.queue = c.queue
        /\ updated.seq = c.seq /\ ready.seq = c.seq
    BY <2>1, EmptyValues, Phases DEF ObservationInv, CoreInv, CoreStates
  <2>5. probes = <<>> => Complete(obs)
    BY <2>1, <2>4 DEF NextPendingProbeEffects, Complete, Observations
  <2> HIDE DEF updated, ready, probes
  <2>6. CASE probes # <<>> \/ c.phase # "Observing"
    <3>1. ActiveDemand(updated) = ActiveDemand(c)
      BY <2>1, <2>4 DEF ActiveDemand
    <3>2. KeepsDemands(c, updated)
      BY <2>4, <3>1 DEF KeepsDemands, Waits
    <3>3. CompleteInv(updated)
      BY <2>3, <2>4 DEF ObservationInv, CompleteInv, Waits, QueuedKinds
    <3>4. ObservationInv(updated, l, s)
      BY <2>4, <3>2, <3>3, KeepsDemandsInv DEF ObservationInv
    <3> QED BY <2>2, <2>6, <3>1, <3>4, KeptIsUnsettled DEF n
  <2>7. CASE probes = <<>> /\ c.phase = "Observing"
    <3> DEFINE s2 == [s EXCEPT ![ActiveDemand(c).kind] = ActiveDemand(c).seq]
    <3>1. Waits(c) /\ ~Waits(ready) /\ Complete(ready.obs)
      BY <2>4, <2>5, <2>7 DEF Waits
    <3>2. ObservationInv(ready, l, s2)
      BY <2>4, <3>1, LeavesObservation
    <3> HIDE DEF s2
    <3>3. ObservationInv(n, l, s2)
      BY <2>2, <2>7, <3>1, <3>2, PlanReadyInv
    <3> QED BY <3>1, <3>3, SettledDemandIsNotRestarted DEF s2, n
  <2> QED BY <2>6, <2>7
<1> QED BY <1>1, <1>2, <1>3

-----------------------------------------------------------------------------
(* Failures and recovery. *)

\* Recovery starts from a state in which nothing is observed, or keeps the
\* demand in the queue (Requeued below).
LEMMA EnterRecoveringInv ==
    ASSUME NEW c, NEW l, NEW s, ObservationInv(c, l, s), ~Waits(c),
           Complete(c.obs) \/ QueuedKinds(c) # {}
    PROVE  ObservationInv(EnterRecovering(c).next, l, s)
<1> DEFINE n == EnterRecovering(c).next
<1>1. /\ CoreInv(n) /\ n.phase = "Recovering" /\ n.obs = c.obs
      /\ n.queue = c.queue /\ n.seq = c.seq
  BY EnterRecoveringTyped DEF ObservationInv, IsTransition
<1> HIDE DEF n
<1>2. ~Waits(n)
  BY <1>1 DEF Waits
<1>3. KeepsDemands(c, n)
  BY <1>1, <1>2, ActiveDemandOf DEF KeepsDemands, ObservationInv
<1>4. CompleteInv(n)
  BY <1>1 DEF CompleteInv, QueuedKinds
<1> QED BY <1>1, <1>3, <1>4, KeepsDemandsInv DEF ObservationInv, n

\* Taking the demand back to its slot leaves the invariants in place for a
\* state that no longer observes it.
LEMMA RequeuedInv ==
    ASSUME NEW c, NEW l, NEW s, ObservationInv(c, l, s), Waits(c),
           NEW n, CoreInv(n), ~Waits(n),
           n.queue = RequeueActiveDemand(c).queue, n.seq = c.seq
    PROVE  /\ DemandInv(n, l, s)
           /\ QueuedKinds(n) # {}
<1> DEFINE d     == ActiveDemand(c)
           queue == [c.queue EXCEPT ![d.kind] = d.seq]
<1>1. /\ c.seq \in Nat /\ c.queue \in Queues /\ d.seq \in Nat
      /\ l \in Histories /\ s \in Histories
  BY FieldTypes, ActiveDemandOf DEF ObservationInv, CoreInv, Demands
<1>2. /\ d.kind \in DemandKinds
      /\ s[d.kind] < d.seq /\ d.seq <= c.seq
      /\ d.kind \in ExternalKinds => d.seq <= l[d.kind]
      /\ c.queue[d.kind] # 0 => d.seq < c.queue[d.kind]
  BY DEF ObservationInv, DemandInv, ActiveInv
<1>3. d # NoDemand
  BY <1>2, ExternalIsNotBoundary DEF NoDemand
<1>4. n.queue = IF c.queue[d.kind] >= d.seq THEN c.queue ELSE queue
  BY <1>3 DEF RequeueActiveDemand, ObservationInv, CoreInv, CoreStates
<1>5. \A k \in ExternalKinds :
         s[k] < l[k] => c.queue[k] = l[k] \/ d = [kind |-> k, seq |-> l[k]]
  BY DEF NewestInv, ObservationInv, DemandInv
<1>6. ActiveDemand(n) = NoDemand
  BY ActiveDemandOf
<1>7. QueueInv(c, l, s)
  BY DEF ObservationInv, DemandInv
<1> HIDE DEF d
<1>8. QueueInv(n, l, s)
  BY <1>1, <1>2, <1>4, <1>7 DEF QueueInv, Queues, Histories
<1>9. ActiveInv(n, l, s)
  BY DEF ActiveInv
<1>10. NewestInv(n, l, s)
  <2> SUFFICES ASSUME NEW k \in ExternalKinds, s[k] < l[k]
               PROVE  n.queue[k] = l[k]
    BY DEF NewestInv
  <2>1. k \in DemandKinds /\ c.queue[k] <= l[k] /\ c.queue[k] \in Nat
        /\ l[k] \in Nat /\ s[k] \in Nat
    BY <1>1, <1>7, ExternalIsNotBoundary DEF QueueInv, Queues, Histories
  <2>2. CASE c.queue[k] = l[k]
    <3>1. c.queue[k] # 0
      BY <2>1, <2>2
    <3>2. k = d.kind => c.queue[d.kind] >= d.seq
      BY <1>1, <1>2, <2>1, <3>1
    <3> QED BY <1>1, <1>4, <2>2, <3>2 DEF Queues
  <2>3. CASE d = [kind |-> k, seq |-> l[k]]
    <3>1. d.kind = k /\ d.seq = l[k]
      BY <2>3
    <3> QED BY <1>1, <1>4, <2>1, <3>1 DEF Queues
  <2> QED BY <1>5, <2>2, <2>3
<1>11. QueuedKinds(n) # {}
  <2>1. n.queue[d.kind] # 0
    BY <1>1, <1>2, <1>4 DEF Queues, Histories
  <2> QED BY <1>2, <2>1 DEF QueuedKinds
<1> QED BY <1>8, <1>9, <1>10, <1>11 DEF DemandInv

\* A degraded or failed apply keeps the invariant.
LEMMA ApplyNonSuccessInv ==
    ASSUME NEW c, NEW l, NEW s, ObservationInv(c, l, s), c.phase = "Applying",
           NEW e
    PROVE  ObservationInv(ReduceApplyNonSuccess(c, e).next, l, s)
<1> DEFINE diverged == [c EXCEPT !.ledger = Diverged]
           cleanup  == AdvanceCleanupForProposal(diverged, c.proposal.cleanup)
<1>1. CoreInv(diverged) /\ SameProtocol(c, diverged)
  BY EmptyValues DEF ObservationInv, CoreInv, CoreStates, SameProtocol
<1>2. ReduceApplyNonSuccess(c, e).next = EnterRecovering(cleanup.next).next
  BY DEF ReduceApplyNonSuccess
<1> HIDE DEF diverged
<1>3. ObservationInv(diverged, l, s)
  BY <1>1, SameProtocolInv
<1>4. TimersOnly(diverged, cleanup)
  BY <1>1, ProposalFields, AdvanceCleanupTyped DEF ObservationInv, CoreInv
<1> HIDE DEF cleanup
<1>5. ObservationInv(cleanup.next, l, s) /\ cleanup.next.phase = "Applying"
  BY <1>1, <1>3, <1>4, TimersOnlyInv DEF TimersOnly, SameProtocol
<1>6. ~Waits(cleanup.next) /\ Complete(cleanup.next.obs)
  BY <1>5 DEF ObservationInv, CompleteInv, Waits
<1> QED BY <1>2, <1>5, <1>6, EnterRecoveringInv

\* A failed effect keeps it: the active demand is queued again unless a newer
\* one of its kind is queued.
LEMMA EffectFailedInv ==
    ASSUME NEW c, NEW l, NEW s, ObservationInv(c, l, s), NEW e
    PROVE  ObservationInv(ReduceEffectFailed(c, e).next, l, s)
<1> DEFINE requeued == RequeueActiveDemand(c)
           kept     == IF c.phase = "Observing"
                       THEN [requeued EXCEPT !.obs = NoObservation]
                       ELSE requeued
           n        == ReduceEffectFailed(c, e).next
<1>1. CASE c.phase = "Idle" \/ e.id # 0
  BY <1>1, StayInv, ApplyNonSuccessInv DEF ReduceEffectFailed
<1>2. CASE c.phase # "Idle" /\ e.id = 0
  <2>1. n = EnterRecovering(kept).next
    BY <1>2 DEF ReduceEffectFailed
  <2>2. /\ CoreInv(requeued) /\ requeued.phase = c.phase
        /\ requeued.obs = c.obs /\ requeued.seq = c.seq
    BY RequeueTyped DEF ObservationInv
  <2>3. ~Waits(c) => requeued = c
    BY ActiveDemandOf DEF RequeueActiveDemand, ObservationInv
  <2> HIDE DEF requeued, n
  <2>4. CASE ~Waits(c)
    <3>1. kept = c
      BY <2>3, <2>4 DEF Waits
    <3>2. Complete(c.obs) \/ QueuedKinds(c) # {}
      BY <2>4 DEF ObservationInv, CompleteInv
    <3> QED BY <2>1, <2>4, <3>1, <3>2, EnterRecoveringInv DEF n
  <2>5. CASE Waits(c)
    <3>1. /\ CoreInv(kept) /\ kept.queue = requeued.queue /\ kept.seq = c.seq
      BY <2>2, EmptyValues DEF CoreInv, CoreStates
    <3> HIDE DEF kept
    <3>2. /\ CoreInv(n) /\ n.phase = "Recovering"
          /\ n.queue = requeued.queue /\ n.seq = c.seq
      BY <2>1, <3>1, EnterRecoveringTyped DEF IsTransition
    <3>3. ~Waits(n)
      BY <3>2 DEF Waits
    <3>4. DemandInv(n, l, s) /\ QueuedKinds(n) # {}
      BY <2>5, <3>2, <3>3, RequeuedInv DEF requeued
    <3> QED BY <3>2, <3>4 DEF ObservationInv, CompleteInv, n
  <2> QED BY <2>4, <2>5
<1> QED BY <1>1, <1>2

-----------------------------------------------------------------------------
(* Plans, applies and cleanup reports. *)

\* A plan, computed or failed, keeps the invariant.
LEMMA RenderPlanInv ==
    ASSUME NEW c, NEW l, NEW s, ObservationInv(c, l, s), NEW e \in Events
    PROVE  /\ e.type = "RenderPlanComputed" =>
                 ObservationInv(ReduceRenderPlanComputed(c, e).next, l, s)
           /\ e.type = "RenderPlanFailed" =>
                 ObservationInv(ReduceRenderPlanFailed(c, e).next, l, s)
<1>1. c.phase = "Planning" => ~Waits(c) /\ Complete(c.obs)
  BY DEF ObservationInv, CompleteInv, Waits
<1>2. ASSUME e.type = "RenderPlanComputed"
      PROVE  ObservationInv(ReduceRenderPlanComputed(c, e).next, l, s)
  <2> DEFINE n == [c EXCEPT !.phase = "Applying", !.proposal = e.proposal]
  <2>1. CASE c.phase # "Planning" \/ c.proposal.id # e.proposal.id
    BY <2>1, StayInv DEF ReduceRenderPlanComputed
  <2>2. CASE ~(c.phase # "Planning" \/ c.proposal.id # e.proposal.id)
    <3>1. /\ CoreInv(n) /\ n.phase = "Applying" /\ n.obs = c.obs
          /\ n.queue = c.queue /\ n.seq = c.seq
      BY <1>2, EventFields, Phases DEF ObservationInv, CoreInv, CoreStates
    <3>2. ReduceRenderPlanComputed(c, e).next = n
      BY <2>2 DEF ReduceRenderPlanComputed
    <3> HIDE DEF n
    <3>3. ~Waits(n)
      BY <3>1 DEF Waits
    <3>4. KeepsDemands(c, n)
      BY <1>1, <2>2, <3>1, <3>3, ActiveDemandOf DEF KeepsDemands, ObservationInv
    <3> QED BY <1>1, <2>2, <3>1, <3>2, <3>4, KeepsDemandsInv
            DEF ObservationInv, CompleteInv
  <2> QED BY <2>1, <2>2
<1>3. ObservationInv(ReduceRenderPlanFailed(c, e).next, l, s)
  BY <1>1, StayInv, EnterRecoveringInv DEF ReduceRenderPlanFailed
<1> QED BY <1>2, <1>3

\* A completed apply keeps the invariant.
LEMMA ApplyCompletedInv ==
    ASSUME NEW c, NEW l, NEW s, ObservationInv(c, l, s), c.phase = "Applying",
           NEW e
    PROVE  ObservationInv(ReduceApplyCompleted(c, e).next, l, s)
<1> DEFINE p       == c.proposal
           ready   == [c EXCEPT !.phase = "Ready", !.proposal = NoProposal,
                                !.ledger = Acknowledge(p.target)]
           cleanup == AdvanceCleanupForProposal(ready, p.cleanup)
           c1      == cleanup.next
           observe == IF /\ QueuedKinds(c1) = {}
                         /\ ~p.animate
                         /\ ExactBoundaryRefreshRequired(c1)
                      THEN StartBoundaryRefreshObservation(c1)
                      ELSE StartNextObservation(c1)
           animate == IF p.animate
                      THEN ScheduleTimerWithDelay(observe.next, "Animation")
                      ELSE Stay(observe.next)
<1>1. p \in Proposals
  BY DEF ObservationInv, CoreInv
<1>2. /\ CoreInv(ready) /\ ready.phase = "Ready" /\ ready.obs = c.obs
      /\ ready.queue = c.queue /\ ready.seq = c.seq
  BY <1>1, ProposalFields, EmptyValues, Phases DEF ObservationInv, CoreInv, CoreStates
<1>3. ReduceApplyCompleted(c, e).next = animate.next
  BY DEF ReduceApplyCompleted
<1> HIDE DEF p, ready
<1>4. ~Waits(c) /\ ~Waits(ready) /\ Complete(c.obs)
  BY <1>2 DEF ObservationInv, CompleteInv, Waits
<1>5. KeepsDemands(c, ready)
  BY <1>2, <1>4, ActiveDemandOf DEF KeepsDemands, ObservationInv
<1>6. ObservationInv(ready, l, s)
  BY <1>2, <1>4, <1>5, KeepsDemandsInv DEF ObservationInv, CompleteInv
<1>7. TimersOnly(ready, cleanup)
  BY <1>1, <1>2, ProposalFields, AdvanceCleanupTyped DEF CoreInv
<1>8. ObservationInv(c1, l, s) /\ AcceptsObservation(c1)
  BY <1>2, <1>6, <1>7, TimersOnlyInv
  DEF TimersOnly, SameProtocol, AcceptsObservation
<1> HIDE DEF cleanup, c1
<1>9. ObservationInv(observe.next, l, s)
  BY <1>8, StartNextInv, StartBoundaryRefreshInv
<1> HIDE DEF observe
<1>10. ObservationInv(animate.next, l, s)
  BY <1>9, StayInv, ScheduleTimerTyped, TimersOnlyInv
  DEF ObservationInv, CoreInv, TimerIds
<1> QED BY <1>3, <1>10

\* The handler of every apply report keeps the invariant.
LEMMA ApplyReportedInv ==
    ASSUME NEW c, NEW l, NEW s, ObservationInv(c, l, s), NEW e
    PROVE  ObservationInv(ReduceApplyReported(c, e).next, l, s)
  BY StayInv, ApplyCompletedInv, ApplyNonSuccessInv DEF ReduceApplyReported

\* Cleanup reports leave the protocol alone.
LEMMA CleanupReportInv ==
    ASSUME NEW c, NEW l, NEW s, ObservationInv(c, l, s), NEW k \in Cleanups,
           NEW w \in Ledgers, NEW due \in BOOLEAN
    PROVE  LET n == [c EXCEPT !.cleanup = k, !.ledger = w]
           IN /\ ObservationInv(Stay(n).next, l, s)
              /\ ObservationInv(EmitCleanupOrArm(n, due).next, l, s)
<1> DEFINE n == [c EXCEPT !.cleanup = k, !.ledger = w]
<1>1. CoreInv(n)
  BY CleanupReportTyped DEF ObservationInv
<1>2. SameProtocol(c, n)
  BY DEF ObservationInv, CoreInv, CoreStates, SameProtocol
<1> HIDE DEF n
<1>3. ObservationInv(n, l, s)
  BY <1>1, <1>2, SameProtocolInv
<1>4. ObservationInv(EmitCleanupOrArm(n, due).next, l, s)
  BY <1>3, EmitCleanupOrArmTyped, TimersOnlyInv DEF ObservationInv, CoreInv
<1> QED BY <1>3, <1>4, StayInv DEF n

\* An executed cleanup keeps the invariant,
LEMMA RenderCleanupAppliedInv ==
    ASSUME NEW c, NEW l, NEW s, ObservationInv(c, l, s),
           NEW e \in Events, e.type = "RenderCleanupApplied"
    PROVE  ObservationInv(ReduceRenderCleanupApplied(c, e).next, l, s)
<1> DEFINE k       == CleanupStateAfterApplied(c.cleanup, e.action)
           w       == LedgerAfterCleanup(c.ledger)
           applied == [c EXCEPT !.cleanup = k, !.ledger = w]
           dueNow  == \/ e.action = "SoftClearedNone"
                      \/ e.action = "NoProgress" /\ e.due
<1>1. k \in Cleanups /\ w \in Ledgers /\ dueNow \in BOOLEAN
  BY FieldTypes, EventFields, CleanupAppliedTyped, LedgerAfterCleanupTyped
  DEF ObservationInv, CoreInv
<1>2. ReduceRenderCleanupApplied(c, e)
        \in {Stay(c), Stay(applied), EmitCleanupOrArm(applied, dueNow)}
  BY DEF ReduceRenderCleanupApplied
<1> HIDE DEF k, w, dueNow
<1>3. /\ ObservationInv(Stay(applied).next, l, s)
      /\ ObservationInv(EmitCleanupOrArm(applied, dueNow).next, l, s)
  BY <1>1, CleanupReportInv
<1> HIDE DEF applied
<1> QED BY <1>2, <1>3, StayInv

\* ... and so does a report of retained resources.
LEMMA RetainedResourcesInv ==
    ASSUME NEW c, NEW l, NEW s, ObservationInv(c, l, s),
           NEW e \in Events, e.type = "RetainedResourcesObserved"
    PROVE  ObservationInv(ReduceRetainedResourcesObserved(c, e).next, l, s)
<1> DEFINE k    == IF c.cleanup.thermal = "Hot" THEN c.cleanup
                   ELSE [c.cleanup EXCEPT !.thermal = "Cooling", !.pushed = FALSE]
           w    == LedgerAfterCleanup(c.ledger)
           next == [c EXCEPT !.cleanup = k, !.ledger = w]
           due  == c.cleanup.thermal = "Hot" /\ e.due
<1>1. k \in Cleanups /\ w \in Ledgers /\ due \in BOOLEAN
  BY FieldTypes, EventFields, CleanupValues, LedgerAfterCleanupTyped
  DEF ObservationInv, CoreInv
<1>2. ReduceRetainedResourcesObserved(c, e)
        \in {Stay(c), Stay(next), EmitCleanupOrArm(next, due)}
  BY DEF ReduceRetainedResourcesObserved
<1> HIDE DEF k, w, due
<1>3. /\ ObservationInv(Stay(next).next, l, s)
      /\ ObservationInv(EmitCleanupOrArm(next, due).next, l, s)
  BY <1>1, CleanupReportInv
<1> HIDE DEF next
<1> QED BY <1>2, <1>3, StayInv

-----------------------------------------------------------------------------
(* Timers. *)

\* Recovery settles without losing a demand.
LEMMA SettleRecoveryInv ==
    ASSUME NEW c, NEW l, NEW s, ObservationInv(c, l, s), c.phase = "Recovering"
    PROVE  ObservationInv(SettleRecovery(c), l, s)
<1> DEFINE n == SettleRecovery(c)
<1>1. /\ CoreInv(n) /\ n.phase \in {"Primed", "Ready"} /\ n.obs = c.obs
      /\ n.queue = c.queue /\ n.seq = c.seq
      /\ n.phase = "Primed" => c.obs = NoObservation
  BY Phases DEF SettleRecovery, ObservationInv, CoreInv, CoreStates
<1> HIDE DEF n
<1>2. ~Waits(n) /\ ~Waits(c)
  BY <1>1 DEF Waits
<1>3. KeepsDemands(c, n)
  BY <1>1, <1>2, ActiveDemandOf DEF KeepsDemands, ObservationInv
<1>4. CompleteInv(n)
  BY <1>1, <1>2
  DEF ObservationInv, CompleteInv, QueuedKinds, Complete, NoObservation
<1> QED BY <1>1, <1>3, <1>4, KeepsDemandsInv DEF ObservationInv, n

\* An animation tick keeps the invariant.
LEMMA AnimationTickInv ==
    ASSUME NEW c, NEW l, NEW s, ObservationInv(c, l, s), NEW d \in Decisions
    PROVE  ObservationInv(AnimationTick(c, d).next, l, s)
  BY StayInv, StartBoundaryRefreshInv, ObserveOrPlanInv DEF AnimationTick

\* The end of the ingress delay keeps the invariant.
LEMMA IngressTimerInv ==
    ASSUME NEW c, NEW l, NEW s, ObservationInv(c, l, s)
    PROVE  /\ ObservationInv(IngressDelayOver(c).next, l, s)
           /\ \A due \in BOOLEAN :
                 ObservationInv(IngressTimerSignal(c, due).next, l, s)
<1> DEFINE over  == [c EXCEPT !.delay = "none"]
           armed == [c EXCEPT !.delay = "armed"]
<1>1. /\ CoreInv(over) /\ SameProtocol(c, over)
      /\ CoreInv(armed) /\ SameProtocol(c, armed)
  BY DEF ObservationInv, CoreInv, CoreStates, Delays, SameProtocol
<1>2. AcceptsObservation(c) => AcceptsObservation(over)
  BY <1>1 DEF SameProtocol, AcceptsObservation
<1> HIDE DEF over, armed
<1>3. ObservationInv(over, l, s) /\ ObservationInv(armed, l, s)
  BY <1>1, SameProtocolInv
<1>4. ObservationInv(ScheduleTimerWithDelay(armed, "Ingress").next, l, s)
  BY <1>3, ScheduleTimerTyped, TimersOnlyInv
  DEF ObservationInv, CoreInv, TimerIds
<1>5. /\ AcceptsObservation(c) => ObservationInv(StartNextObservation(over).next, l, s)
      /\ ObservationInv(Stay(over).next, l, s)
      /\ ObservationInv(Stay(c).next, l, s)
  BY <1>2, <1>3, StartNextInv, StayInv
<1> QED BY <1>4, <1>5 DEF IngressDelayOver, IngressTimerSignal, over, armed

\* A fired timer keeps the invariant.
LEMMA TimerFiredInv ==
    ASSUME NEW c, NEW l, NEW s, ObservationInv(c, l, s), NEW d \in Decisions,
           NEW e \in Events, e.type \in {"TimerFired", "TimerLost"}
    PROVE  ObservationInv(ReduceTimerFired(c, e, d).next, l, s)
<1> DEFINE fired == Disarm(c, e.timer)
<1>1. e.timer \in TimerIds /\ e.due \in BOOLEAN
  BY EventFields
<1>2. CoreInv(fired) /\ SameProtocol(c, fired)
  BY <1>1, DisarmTyped DEF ObservationInv, CoreInv, SameProtocol
<1> HIDE DEF fired
<1>3. ObservationInv(fired, l, s)
  BY <1>2, SameProtocolInv
<1>4. c.phase = "Recovering" =>
         ObservationInv(ObserveOrPlan(SettleRecovery(fired), d).next, l, s)
  BY <1>2, <1>3, SettleRecoveryInv, ObserveOrPlanInv DEF SameProtocol
<1>5. /\ ObservationInv(AnimationTick(fired, d).next, l, s)
      /\ ObservationInv(IngressTimerSignal(fired, e.due).next, l, s)
      /\ ObservationInv(Stay(fired).next, l, s)
      /\ ObservationInv(Stay(c).next, l, s)
  BY <1>1, <1>3, AnimationTickInv, IngressTimerInv, StayInv
<1>6. ObservationInv(EmitCleanupOrArm(fired, e.due).next, l, s)
  BY <1>1, <1>3, EmitCleanupOrArmTyped, TimersOnlyInv DEF ObservationInv, CoreInv
<1> QED BY <1>1, <1>4, <1>5, <1>6 DEF ReduceTimerFired, TimerIds, fired

\* A lost timer keeps the invariant.
LEMMA TimerLostInv ==
    ASSUME NEW c, NEW l, NEW s, ObservationInv(c, l, s),
           NEW e \in Events, e.type \in {"TimerFired", "TimerLost"}
    PROVE  ObservationInv(ReduceTimerLost(c, e).next, l, s)
<1> DEFINE lost  == Disarm(c, e.timer)
           still == [lost EXCEPT !.animating = FALSE]
           owed  == lost.cleanup.thermal # "Cold"
           quiet == [lost EXCEPT !.cleanup.quiesced = owed]
<1>1. e.timer \in TimerIds
  BY EventFields
<1>2. CoreInv(lost) /\ SameProtocol(c, lost)
  BY <1>1, DisarmTyped DEF ObservationInv, CoreInv, SameProtocol
<1> HIDE DEF lost
<1>3. CoreInv(still) /\ SameProtocol(lost, still)
  BY <1>2 DEF CoreInv, CoreStates, SameProtocol
<1>4. CoreInv(quiet) /\ SameProtocol(lost, quiet)
  <2>1. [lost.cleanup EXCEPT !.quiesced = owed] \in Cleanups
    BY <1>2, FieldTypes, CleanupValues DEF CoreInv
  <2> DEFINE k == [lost.cleanup EXCEPT !.quiesced = owed]
  <2>2. /\ CoreInv([lost EXCEPT !.cleanup = k])
        /\ SameProtocol(lost, [lost EXCEPT !.cleanup = k])
    BY <1>2, <2>1, CleanupUpdated DEF CoreInv, SameProtocol
  <2> QED BY <2>2
<1>5. ObservationInv(lost, l, s)
  BY <1>2, SameProtocolInv
<1>6. c.phase = "Recovering" => ObservationInv(SettleRecovery(lost), l, s)
  BY <1>2, <1>5, SettleRecoveryInv DEF SameProtocol
<1> DEFINE n == ReduceTimerLost(c, e).next
<1>7. \/ n \in {c, lost, still, quiet}
      \/ n = IngressDelayOver(lost).next
      \/ c.phase = "Recovering" /\ n = SettleRecovery(lost)
  BY <1>1 DEF ReduceTimerLost, Stay, TimerIds, lost
<1> HIDE DEF still, quiet, n
<1>8. ObservationInv(still, l, s) /\ ObservationInv(quiet, l, s)
  BY <1>3, <1>4, <1>5, SameProtocolInv
<1>9. ObservationInv(IngressDelayOver(lost).next, l, s)
  BY <1>5, IngressTimerInv
<1> QED BY <1>5, <1>6, <1>7, <1>8, <1>9 DEF n

-----------------------------------------------------------------------------
(* The specification. *)

\* Initialize keeps the invariant.
LEMMA InitializeInv ==
    ASSUME NEW c, NEW l, NEW s, ObservationInv(c, l, s)
    PROVE  ObservationInv(ReduceInitialize(c).next, l, s)
<1> DEFINE n == [c EXCEPT !.phase = "Primed"]
<1>1. CASE c.phase # "Idle"
  BY <1>1, StayInv DEF ReduceInitialize
<1>2. CASE c.phase = "Idle"
  <2>1. /\ CoreInv(n) /\ n.phase = "Primed" /\ n.obs = c.obs
        /\ n.queue = c.queue /\ n.seq = c.seq
    BY Phases DEF ObservationInv, CoreInv, CoreStates
  <2>2. ReduceInitialize(c).next = n
    BY <1>2 DEF ReduceInitialize, Stay
  <2> HIDE DEF n
  <2>3. ~Waits(n) /\ ~Waits(c) /\ CompleteInv(n)
    BY <1>2, <2>1 DEF Waits, ObservationInv, CompleteInv
  <2>4. KeepsDemands(c, n)
    BY <2>1, <2>3, ActiveDemandOf DEF KeepsDemands, ObservationInv
  <2> QED BY <2>1, <2>2, <2>3, <2>4, KeepsDemandsInv DEF ObservationInv
<1> QED BY <1>1, <1>2

Reports == {"ObservationBaseCollected", "ProbeReported"}

\* Every event but an external demand keeps the invariant; reports settle.
THEOREM ReduceInv ==
    ASSUME NEW c, NEW l, NEW s, ObservationInv(c, l, s), NEW d \in Decisions,
           NEW e \in Events, e.type # "ExternalDemandQueued"
    PROVE  LET n == Reduce(c, e, d).next
           IN ObservationInv(n, l, IF e.type \in Reports
                                   THEN AfterReport(c, n, s) ELSE s)
<1>1. e.type \in {"Initialize", "ObservationBaseCollected", "ProbeReported",
                  "RenderPlanComputed", "RenderPlanFailed", "ApplyReported",
                  "RenderCleanupApplied", "RetainedResourcesObserved",
                  "EffectFailed", "TimerFired", "TimerLost"}
  BY DEF Events, EditorEvents, ShellEvents
<1>2. CASE e.type \in Reports
  BY <1>2, ObservationBaseCollectedInv, ProbeReportedInv DEF Reduce, Reports
<1>3. CASE e.type \notin Reports
  BY <1>1, <1>3, InitializeInv, RenderPlanInv, ApplyReportedInv,
     RenderCleanupAppliedInv, RetainedResourcesInv, EffectFailedInv,
     TimerFiredInv, TimerLostInv DEF Reduce, Reports
<1> QED BY <1>2, <1>3

\* The inductive invariant of the specification.
DemandsInv == TypeInv /\ ObservationInv(core, latest, settled)

\* Reducing any event but a new demand keeps the invariant, with the history
\* of settled demands updated as the specification does,
LEMMA ReducedInv ==
    ASSUME DemandsInv, NEW e \in Events, e.type # "ExternalDemandQueued",
           NEW d \in PlanChoices, Reduced(e, Reduce(core, e, d)),
           UNCHANGED latest
    PROVE  ObservationInv(core, latest, settled)'
<1>1. d \in Decisions
  BY BoundsAssumption DEF PlanChoices
<1> DEFINE n == Reduce(core, e, d).next
<1>2. core' = n /\ settled' = SettledAfter(e, n)
  BY DEF Reduced
<1>3. ObservationInv(n, latest, IF e.type \in Reports
                                THEN AfterReport(core, n, settled) ELSE settled)
  BY <1>1, ReduceInv DEF DemandsInv
<1> HIDE DEF n
<1>4. SettledAfter(e, n) = IF e.type \in Reports
                           THEN AfterReport(core, n, settled) ELSE settled
  BY DEF SettledAfter, AfterReport, Reports
<1>5. ObservationInv(core', latest', settled')
  BY <1>2, <1>3, <1>4
<1> QED BY <1>5 DEF ObservationInv, DemandInv, QueueInv, ActiveInv, NewestInv,
                    CompleteInv, CoreInv, Waits, ActiveDemand, QueuedKinds,
                    Complete

\* Nothing the invariant speaks of changes.
LEMMA UnreducedInv ==
    ASSUME DemandsInv, UNCHANGED <<core, ghosts>>
    PROVE  ObservationInv(core, latest, settled)'
  BY DEF DemandsInv, ghosts, ObservationInv, DemandInv, QueueInv, ActiveInv,
         NewestInv, CompleteInv, CoreInv, Waits, ActiveDemand, QueuedKinds,
         Complete

\* ... and so does dispatching it.
LEMMA DispatchInv ==
    ASSUME DemandsInv, NEW e \in Events, e.type # "ExternalDemandQueued",
           Dispatch(e), UNCHANGED latest
    PROVE  ObservationInv(core, latest, settled)'
  BY ReducedInv DEF Dispatch

\* A new demand keeps the invariant, with the history of newest demands updated.
LEMMA IngressInv ==
    ASSUME DemandsInv, NEW kind \in ExternalKinds, Ingress(kind)
    PROVE  ObservationInv(core, latest, settled)'
<1>1. PICK presents \in BOOLEAN :
         Dispatch([type |-> "ExternalDemandQueued", kind |-> kind,
                   presents |-> presents])
  BY DEF Ingress
<1> DEFINE e == [type |-> "ExternalDemandQueued", kind |-> kind,
                 presents |-> presents]
<1>2. e \in Events /\ e.type = "ExternalDemandQueued" /\ e.kind = kind
  BY DEF Events, EditorEvents
<1> HIDE DEF e
<1>3. PICK d \in PlanChoices : Reduced(e, Reduce(core, e, d))
  BY <1>1 DEF Dispatch, e
<1>4. core' = ReduceExternalDemandQueued(core, e).next
  BY <1>2, <1>3 DEF Reduced, Reduce
<1>5. settled' = settled
  BY <1>2, <1>3 DEF Reduced, SettledAfter
<1>6. latest' = IF core.phase = "Idle" THEN latest
                ELSE [latest EXCEPT ![kind] = core'.seq]
  BY DEF Ingress
<1>7. ObservationInv(core', latest', settled')
  <2>1. CASE core.phase = "Idle"
    <3>1. core' = core
      BY <1>4, <2>1 DEF ReduceExternalDemandQueued, Stay
    <3> QED BY <1>5, <1>6, <2>1, <3>1 DEF DemandsInv
  <2>2. CASE core.phase # "Idle"
    BY <1>2, <1>4, <1>5, <1>6, <2>2, ExternalDemandQueuedInv DEF DemandsInv
  <2> QED BY <2>1, <2>2
<1> QED BY <1>7 DEF ObservationInv, DemandInv, QueueInv, ActiveInv, NewestInv,
                    CompleteInv, CoreInv, Waits, ActiveDemand, QueuedKinds,
                    Complete

\* The initial state.
LEMMA InitDemands ==
    ASSUME Init
    PROVE  DemandsInv
<1>1. TypeInv
  BY InitTyped
<1>2. /\ core.phase = "Idle" /\ core.obs = NoObservation /\ core.seq = 0
      /\ core.queue = [k \in DemandKinds |-> 0]
      /\ latest = [k \in DemandKinds |-> 0] /\ settled = [k \in DemandKinds |-> 0]
  BY DEF Init, InitialCore
<1>3. QueueInv(core, latest, settled) /\ NewestInv(core, latest, settled)
  BY <1>2, ExternalIsNotBoundary DEF QueueInv, NewestInv
<1>4. ~Waits(core) /\ CompleteInv(core)
  BY <1>2 DEF Waits, CompleteInv, Complete, NoObservation
<1> QED BY <1>1, <1>2, <1>3, <1>4
        DEF DemandsInv, ObservationInv, DemandInv, ActiveInv, Histories, TypeInv

\* No report of the shell is a demand.
LEMMA ReportIsNoDemand ==
    ASSUME NEW e \in ShellEvents
    PROVE  e \in Events /\ e.type # "ExternalDemandQueued"
  BY DEF Events, ShellEvents

\* Every step keeps the inductive invariant.
LEMMA NextDemands ==
    ASSUME DemandsInv, [Next]_vars
    PROVE  DemandsInv'
<1>1. TypeInv'
  BY NextTyped DEF DemandsInv
<1>2. ObservationInv(core, latest, settled)'
  <2>1. CASE Initialize
    <3>1. [type |-> "Initialize"] \in Events
      BY DEF Events, EditorEvents
    <3> QED BY <2>1, <3>1, DispatchInv DEF Initialize
  <2>2. ASSUME NEW kind \in ExternalKinds, Ingress(kind)
        PROVE  ObservationInv(core, latest, settled)'
    BY <2>2, IngressInv
  <2>3. ASSUME NEW t \in TimerIds, TimerFires(t)
        PROVE  ObservationInv(core, latest, settled)'
    <3>1. PICK due \in BOOLEAN :
             Dispatch([type |-> "TimerFired", timer |-> t, gen |-> host[t],
                       due |-> due])
      BY <2>3 DEF TimerFires
    <3>2. [type |-> "TimerFired", timer |-> t, gen |-> host[t], due |-> due]
             \in Events
      BY ShellEventsAreEvents DEF ShellEvents, DemandsInv, TypeInv, TypeOK
    <3> QED BY <2>3, <3>1, <3>2, DispatchInv DEF TimerFires
  <2>4. CASE DispatchStaged
    <3> DEFINE e == Head(work).event
    <3>1. PICK d \in PlanChoices : Reduced(e, Reduce(core, e, d))
      BY <2>4 DEF DispatchStaged
    <3>2. e \in ShellEvents
      BY <2>4, HeadsTyped DEF DispatchStaged, DemandsInv
    <3> QED BY <2>4, <3>1, <3>2, ReportIsNoDemand, ReducedInv DEF DispatchStaged
  <2>5. CASE DispatchFollowUp
    <3> DEFINE e == Head(followUps)
    <3>1. PICK d \in PlanChoices : Reduced(e, Reduce(core, e, d))
      BY <2>5 DEF DispatchFollowUp
    <3>2. e \in ShellEvents
      BY <2>5, HeadsTyped DEF DispatchFollowUp, DemandsInv
    <3> QED BY <2>5, <3>1, <3>2, ReportIsNoDemand, ReducedInv DEF DispatchFollowUp
  <2>6. CASE StartBatch \/ ExecuteEffect \/ StageRefreshReport
             \/ PluginCallbackPanics \/ UNCHANGED vars
    <3>1. UNCHANGED <<core, ghosts>>
      BY <2>6 DEF StartBatch, ExecuteEffect, StageRefreshReport,
                  PluginCallbackPanics, vars, ghosts,
                  ExecuteRequestObservationBase, ExecuteRequestProbe,
                  ExecuteRequestRenderPlan, ExecuteApplyProposal,
                  ExecuteApplyRenderCleanup, ExecuteScheduleTimer,
                  ExecuteIngressCursorPresentation
    <3> QED BY <3>1, UnreducedInv
  <2> QED BY <2>1, <2>2, <2>3, <2>4, <2>5, <2>6 DEF Next, Drain
<1> QED BY <1>1, <1>2 DEF DemandsInv

\* The demand being observed, the queued ones and the settled ones of each kind
\* stay in order in every reachable state.
THEOREM SpecDemandsInv == Spec => []DemandsInv
  BY InitDemands, NextDemands, PTL DEF Spec

\* Coalescing, retries and failures never lose the newest demand of a kind.
THEOREM NewestDemandIsKept == Spec => []NewestDemandKept
<1>1. DemandsInv => NewestDemandKept
  <2> SUFFICES ASSUME DemandsInv, NEW k \in ExternalKinds, latest[k] > settled[k]
               PROVE  \/ core.queue[k] = latest[k]
                      \/ ActiveDemand(core) = [kind |-> k, seq |-> latest[k]]
    BY DEF NewestDemandKept
  <2>1. latest[k] \in Nat /\ settled[k] \in Nat
    BY ExternalIsNotBoundary DEF DemandsInv, ObservationInv, Histories
  <2> QED BY <2>1 DEF DemandsInv, ObservationInv, DemandInv, NewestInv
<1> QED BY <1>1, SpecDemandsInv, PTL

\* A demand overtaken by a newer one of its kind is never observed again.
THEOREM NoStaleObservationEver == Spec => []NoStaleObservation
<1>1. DemandsInv => NoStaleObservation
  <2> SUFFICES ASSUME DemandsInv, ActiveDemand(core) # NoDemand
               PROVE  ActiveDemand(core).seq > settled[ActiveDemand(core).kind]
    BY DEF NoStaleObservation
  <2>1. Waits(core)
    BY ActiveDemandOf DEF DemandsInv, ObservationInv
  <2>2. settled[ActiveDemand(core).kind] < ActiveDemand(core).seq
    BY <2>1 DEF DemandsInv, ObservationInv, DemandInv, ActiveInv
  <2> QED BY <2>2
<1> QED BY <1>1, SpecDemandsInv, PTL

\* Planning starts from a complete observation, whatever a failure retained.
THEOREM PlansComplete == Spec => []PlansOnlyCompleteObservation
<1>1. DemandsInv => PlansOnlyCompleteObservation
  BY DEF DemandsInv, ObservationInv, CompleteInv, Waits, Complete,
         PlansOnlyCompleteObservation
<1> QED BY <1>1, SpecDemandsInv, PTL

=============================================================================
