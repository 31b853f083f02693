-------------------------- MODULE SceneProjection --------------------------
(***************************************************************************)
(* How a render decision becomes a scene and a proposal for the shell:     *)
(* core/reducer/machine/planning (scene.rs, projection.rs, proposal.rs)    *)
(* over core/state/scene.rs and core/realization.rs.  A projection of one  *)
(* frame is retained together with the planner's history, and a later      *)
(* frame may be answered from it: as it is, with only its particles drawn  *)
(* anew, or not at all.                                                    *)
(*                                                                         *)
(* The screen is one row of cells.  The planner's field is, for each cell, *)
(* the step at which what was deposited there expires (LatentField looks   *)
(* inside it), and the glyph of a cell is what it has left.  Odd policies  *)
(* keep particles off the text.  Addresses name allocations of the shared  *)
(* particle aggregate: they are reused once the aggregate is dropped.      *)
(***************************************************************************)
EXTENDS Integers, FiniteSets

CONSTANTS Columns, Addresses, Support, Viewports, Allowed, MaxPlans,
          MaxSteps, MaxObservations, MaxPolicy, Nothing

VARIABLES aggregate,     \* the shared particle aggregate: address, cells
          basis,         \* the active observation: its id, viewport and probe
          policy,        \* revision of the projection policy
          corners,       \* the pose of the trail: corners, mode, stroke
          scene,         \* semantic and projection state, retained projection
          acknowledged,  \* projection the shell is trusted to show
          tail,          \* ghost: age of every cell of the trail drawn so far
          expected,      \* ghost: what the last drawn frame should look like
          misfit         \* ghost: a proposal did not fit its patch
vars == <<aggregate, basis, policy, corners, scene,
               acknowledged, tail, expected, misfit>>

Cell == 1..Columns
NoTail == [c \in Cell |-> 0]
NoPlanner == [step |-> 0, history |-> 0, expiry |-> NoTail]
NoFrameYet == [motion |-> 0, fingerprint |-> Nothing, semantics |-> 0,
               trail |-> FALSE, retained |-> Nothing]

-----------------------------------------------------------------------------
(* The planner.  A sample deposits at its cell for Support steps; steps    *)
(* without a sample only age the field.                                    *)
Advances(f) == f.samples # {} \/ f.idle > 0

StageDeposits(p, f) ==
  LET step == p.step + Cardinality(f.samples) + f.idle
  IN [step |-> step,
      history |-> p.history + Cardinality(f.samples),
      expiry |-> [c \in Cell |-> IF c \in f.samples
                                 THEN p.step + 1 + Support
                                 ELSE p.expiry[c]]]

InBounds(viewport) == {c \in Cell : c <= viewport}

(* The cells of the trail under the frame's cursor are left out.           *)
TrailCells(p, f, viewport) ==
  [c \in {x \in InBounds(viewport) : x # f.target /\ p.expiry[x] > p.step}
     |-> p.expiry[c] - p.step]

RequiresProbe(f) == f.policy % 2 = 1 /\ f.aggregate.cells # {}

ParticleCells(f, o) ==
  {c \in f.aggregate.cells \cap InBounds(o.viewport) :
      c # f.target /\ (RequiresProbe(f) => c \in o.probe)}

-----------------------------------------------------------------------------
(* A raster and the spans that realize it: maximal runs of adjacent cells. *)
Raster(particles, static) == [particles |-> particles, static |-> static]

Runs(S) == {<<a, b>> \in S \X S : /\ a <= b /\ (a..b) \subseteq S
                                  /\ a - 1 \notin S /\ b + 1 \notin S}
Spans(cells) == {[col |-> r[1], chunks |-> [i \in r[1]..r[2] |-> cells[i]]] :
                   r \in Runs(DOMAIN cells)}
ParticleSpans(cells) == Spans([c \in cells |-> "particle"])

Realize(raster) == [particles |-> ParticleSpans(raster.particles),
                    static |-> Spans(raster.static)]

ReplaceParticleCells(retained, particles) ==
  [retained EXCEPT !.raster.particles = particles,
                   !.realization.particles = ParticleSpans(particles)]

-----------------------------------------------------------------------------
(* Keys of a projection.                                                   *)
TrailSignature(f) == [target |-> f.target, corners |-> f.corners]
OverlaySignature(f) == IF f.aggregate.cells = {} THEN Nothing
                       ELSE f.aggregate.address

PlannerSeed(s, f) ==
  IF s.retained # Nothing /\ s.retained.key.policy = f.policy
  THEN s.retained.planner ELSE NoPlanner

ReuseKey(f, seed) ==
  [trail |-> TrailSignature(f), overlay |-> OverlaySignature(f),
   clock |-> IF Advances(f) THEN <<seed.step, seed.history>> ELSE Nothing,
   policy |-> f.policy]

Witness(revision, o) == [revision |-> revision, id |-> o.id,
                         viewport |-> o.viewport]

ProjectFrame(f, seed, revision, o) ==
  LET planner == StageDeposits(seed, f)
      raster == Raster(ParticleCells(f, o), TrailCells(planner, f, o.viewport))
  IN [witness |-> Witness(revision, o), key |-> ReuseKey(f, seed),
      planner |-> planner, raster |-> raster, realization |-> Realize(raster)]

(* Fault: an advancing frame is answered by the retained projection.       *)
AnyClock(retained, key) == TRUE
SameClock(retained, key) == retained.key.clock = key.clock

MayReuse(retained, key, o) ==
  /\ retained # Nothing
  /\ retained.witness.viewport = o.viewport
  /\ retained.key.policy = key.policy
  /\ SameClock(retained, key)
  /\ retained.key.trail = key.trail

MustRefresh(retained, f, key, o) ==
  \/ retained.key.overlay # key.overlay
  \/ RequiresProbe(f) /\ retained.witness.id # o.id

Reuse(retained, f, key, revision, o) ==
  LET rebound == [retained EXCEPT !.witness = Witness(revision, o),
                                  !.key = key]
  IN IF MustRefresh(retained, f, key, o)
     THEN ReplaceParticleCells(rebound, ParticleCells(f, o))
     ELSE rebound

-----------------------------------------------------------------------------
(* Revisions: motion's moves with the fingerprint of the frame, the        *)
(* semantics' with the presence of a trail.                                *)
Fingerprint(f) == [f EXCEPT !.policy = 0, !.aggregate = f.aggregate.cells]
NextMotion(s, fingerprint) ==
  IF s.fingerprint # fingerprint THEN s.motion + 1 ELSE s.motion
NextSemantics(s, trail) ==
  IF s.trail # trail THEN s.semantics + 1 ELSE s.semantics

SceneAfter(s, fingerprint, trail, retained) ==
  [motion |-> NextMotion(s, fingerprint), fingerprint |-> fingerprint,
   semantics |-> NextSemantics(s, trail), trail |-> trail,
   retained |-> retained]

SameRenderOutput(a, b) == a.witness = b.witness /\ a.raster = b.raster

ShellView(r) == [witness |-> r.witness, raster |-> r.raster,
                 realization |-> r.realization]

PatchKind(shown, target) ==
  CASE shown = Nothing /\ target = Nothing -> "noop"
    [] shown # Nothing /\ target # Nothing /\ SameRenderOutput(shown, target)
         -> "noop"
    [] shown # Nothing /\ target = Nothing -> "clear"
    [] OTHER -> "replace"

(* Which plans ProposalExecution accepts for a patch.                      *)
Fits(plan, kind) == CASE plan = "draw" -> kind # "clear"
                      [] plan = "clear" -> kind # "replace"
                      [] plan = "noop" -> kind = "noop"

-----------------------------------------------------------------------------
(* Bound: how many times the scene and its planner move.                   *)
MayPlan == /\ scene.motion < MaxPlans
           /\ scene.retained # Nothing => scene.retained.planner.step < MaxSteps

TailAfter(f) == [c \in Cell |-> IF c \in f.samples THEN Support
                                ELSE LET left == tail[c] - f.idle
                                                - Cardinality(f.samples)
                                     IN IF left > 0 THEN left ELSE 0]

Plan(f) ==
  LET fingerprint == Fingerprint(f)
      revision == <<NextMotion(scene, fingerprint), NextSemantics(scene, TRUE)>>
      seed == PlannerSeed(scene, f)
      key == ReuseKey(f, seed)
      failed == RequiresProbe(f) /\ basis.probe = Nothing
      target == IF failed THEN Nothing
                ELSE IF MayReuse(scene.retained, key, basis)
                THEN Reuse(scene.retained, f, key, revision, basis)
                ELSE ProjectFrame(f, seed, revision, basis)
      aged == IF scene.retained = Nothing \/ scene.retained.key.policy # f.policy
              THEN [c \in Cell |-> IF c \in f.samples THEN Support ELSE 0]
              ELSE TailAfter(f)
  IN /\ scene' = SceneAfter(scene, fingerprint, TRUE, target)
     /\ misfit' = (~ failed /\ ~ Fits("draw", PatchKind(acknowledged, target)))
     /\ acknowledged' = IF failed THEN Nothing ELSE ShellView(target)
     /\ tail' = IF failed THEN NoTail ELSE aged
     /\ expected' =
          IF failed THEN Nothing
          ELSE Raster(ParticleCells(f, basis),
                      [c \in {x \in InBounds(basis.viewport) :
                                x # f.target /\ aged[x] > 0} |-> aged[c]])

(* A draw after a step, with the frame's aggregate and pose of after it.   *)
DrawStep ==
  \E c \in Cell, t \in Cell, particles \in SUBSET Cell,
     a \in Addresses :
    /\ MayPlan
    /\ particles \subseteq {c} /\ (particles = {} => a = aggregate.address)
    /\ aggregate' = [address |-> a, cells |-> particles]
    /\ corners' = c
    /\ Plan([samples |-> {c}, idle |-> 0, target |-> t, corners |-> c,
             aggregate |-> aggregate', policy |-> policy])
    /\ UNCHANGED <<basis, policy>>

(* A draw that only ages the tail, or one of a frame that does not advance *)
(* the planner at all.                                                     *)
DrawStill(idle) ==
  \E t \in Cell :
    /\ MayPlan
    /\ Plan([samples |-> {}, idle |-> idle, target |-> t, corners |-> corners,
             aggregate |-> aggregate, policy |-> policy])
    /\ UNCHANGED <<aggregate, basis, policy, corners>>

DrawIdle == DrawStill(1)
DrawUnmoved == DrawStill(0)

ClearAll ==
    /\ MayPlan
    /\ scene' = SceneAfter(scene, Nothing, FALSE, Nothing)
    /\ misfit' = ~ Fits("clear", PatchKind(acknowledged, Nothing))
    /\ acknowledged' = Nothing
    /\ tail' = NoTail /\ expected' = Nothing
    /\ UNCHANGED <<aggregate, basis, policy, corners>>

(* Fault: a noop proposes the retained projection.                         *)
RetainedTarget == scene.retained
(* A decision to draw nothing proposes what the shell is trusted to show.  *)
NoopTarget == acknowledged

NoopPlan == misfit' = ~ Fits("noop", PatchKind(acknowledged, NoopTarget))
            /\ UNCHANGED <<aggregate, basis, policy, corners,
                           scene, acknowledged, tail, expected>>

-----------------------------------------------------------------------------
Observe == /\ basis.id < MaxObservations
           /\ \E v \in Viewports, p \in Allowed \cup {Nothing} :
                basis' = [id |-> basis.id + 1, viewport |-> v,
                                probe |-> p]
           /\ UNCHANGED <<aggregate, policy, corners, scene,
                          acknowledged, tail, expected, misfit>>

ChangePolicy == /\ policy < MaxPolicy
                /\ policy' = policy + 1
                /\ UNCHANGED <<aggregate, basis, corners, scene,
                               acknowledged, tail, expected, misfit>>

ClearParticles == /\ aggregate' = [aggregate EXCEPT !.cells = {}]
                  /\ aggregate # aggregate'
                  /\ UNCHANGED <<basis, policy, corners, scene,
                                 acknowledged, tail, expected, misfit>>

(* The rendering was cleaned up or diverged in the meantime.               *)
LoseTrust == /\ acknowledged # Nothing
             /\ acknowledged' = Nothing
             /\ UNCHANGED <<aggregate, basis, policy, corners,
                            scene, tail, expected, misfit>>

Init ==
  /\ aggregate = [address |-> CHOOSE a \in Addresses : TRUE, cells |-> {}]
  /\ basis \in [id : {1}, viewport : {Columns}, probe : Allowed]
  /\ policy \in 0..MaxPolicy /\ corners = 1
  /\ scene = NoFrameYet /\ acknowledged = Nothing
  /\ tail = NoTail /\ expected = Nothing /\ misfit = FALSE

Next == \/ DrawStep \/ DrawIdle \/ DrawUnmoved \/ ClearAll \/ NoopPlan
             \/ Observe \/ ChangePolicy \/ ClearParticles \/ LoseTrust

Spec == Init /\ [][Next]_vars
-----------------------------------------------------------------------------
(* What is retained is what a projection of the last drawn frame gives,    *)
(* whatever of it was reused: the tail as old as the steps drawn since it  *)
(* was last reset, and the particles its own observation admits.           *)
RetainedIsTheFrame ==
  scene.retained # Nothing => /\ scene.retained.raster = expected
                              /\ scene.retained.key.policy <= policy

(* The spans kept for the shell are those of the raster kept with them.    *)
SpansAreOfTheRaster ==
  \A r \in {scene.retained, acknowledged} \ {Nothing} :
     r.realization = Realize(r.raster)

(* Every proposal fits the patch it is sent with.                          *)
ProposalsFit == ~ misfit

=============================================================================
