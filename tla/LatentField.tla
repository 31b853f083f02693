---------------------------- MODULE LatentField ----------------------------
(***************************************************************************)
(* The planner's picture of the trail (draw/render/latent_field and        *)
(* draw/render_plan): what every step of the motion deposited is kept in   *)
(* rings of buckets, one bucket per age and one ring per weight curve, and *)
(* a frame compiles the field from them, as a rule only within bounds      *)
(* around the trail's center line and the cells drawn before, and not at   *)
(* all when the field it has is still current.                             *)
(*                                                                         *)
(* The screen is one row of cells.  A pose covers its cell, the sheath of  *)
(* the tail one more on each side; a curve is a band at an intensity that  *)
(* grows with the speed, and its weight falls to zero over the band's      *)
(* support.                                                                *)
(***************************************************************************)
EXTENDS Integers, Sequences, FiniteSets, FiniteSetsExt, SequencesExt

CONSTANTS Columns, Support, MinMass, MaxJump, Margin, Halo, MaxArea,
          MaxSamples, MaxSteps, Absent

VARIABLES planner,   \* PlannerState
          slices,    \* ghost: everything deposited since the planner began
          owed,      \* ghost: cells drawn before the last frame, or swept by it
                     \*        from a pose whose center sample it still had
          idled      \* steps drained since the last sample
vars == <<planner, slices, owed, idled>>

Cell == 1..Columns
Bands == DOMAIN Support
MaxSupport == Max({Support[b] : b \in Bands})
Interval(a, b) == Min({a, b})..Max({a, b})
NoField == [c \in {} |-> 0]

-----------------------------------------------------------------------------
(* A ring of buckets, one for each age below the support of its curve.     *)
NewRing(n) == [zero |-> 0, buckets |-> [i \in 0..n - 1 |-> {}]]
RingSize(ring) == Cardinality(DOMAIN ring.buckets)
Slot(ring, age) == (ring.zero + age) % RingSize(ring)
BucketForAge(ring, age) == ring.buckets[Slot(ring, age)]

(* Fault: the slots that become the youngest keep what they held.          *)
TurnOnly(ring, steps) ==
  IF steps >= RingSize(ring) THEN NewRing(RingSize(ring))
  ELSE [ring EXCEPT !.zero = (ring.zero + RingSize(ring) - steps)
                                % RingSize(ring)]

AdvanceSteps(ring, steps) ==
  IF steps >= RingSize(ring) THEN NewRing(RingSize(ring))
  ELSE LET zero == (ring.zero + RingSize(ring) - steps) % RingSize(ring)
           turned == {(zero + age) % RingSize(ring) : age \in 0..steps - 1}
       IN [zero |-> zero,
           buckets |-> [i \in DOMAIN ring.buckets |->
                          IF i \in turned THEN {} ELSE ring.buckets[i]]]

IsEmptyRing(ring) == \A i \in DOMAIN ring.buckets : ring.buckets[i] = {}

(* The latent cache: its rings by curve, empty ones dropped.               *)
AdvanceTo(p, step) ==
  LET aged == [k \in DOMAIN p.curves |->
                 AdvanceSteps(p.curves[k], step - p.latest)]
  IN IF step = p.latest THEN p
     ELSE [p EXCEPT !.latest = step,
                    !.curves = [k \in {x \in DOMAIN aged : ~ IsEmptyRing(aged[x])}
                                  |-> aged[k]]]

InsertSlice(p, s) ==
  LET ring == IF s.curve \in DOMAIN p.curves THEN p.curves[s.curve]
              ELSE NewRing(Support[s.curve.band])
      filled == [ring EXCEPT !.buckets[Slot(ring, p.latest - s.step)] =
                   @ \cup s.cells]
  IN IF s.cells = {} THEN p
     ELSE [p EXCEPT !.revision = @ + 1,
                    !.curves = [k \in DOMAIN p.curves \cup {s.curve} |->
                                  IF k = s.curve THEN filled ELSE p.curves[k]]]

-----------------------------------------------------------------------------
(* One sample of a frame: a step of the planner and what it deposits along *)
(* the sweep from the pose before it.                                      *)
Widened(band, cells) ==
  IF band = "core" THEN cells
  ELSE {c \in Cell : \E x \in cells : c \in x - 1..x + 1}

SlicesOf(p, pos) ==
  LET start == IF p.pose = Absent THEN pos ELSE p.pose
      sweep == Interval(start, pos)
  IN {[curve |-> [band |-> b, intensity |-> Cardinality(sweep)],
       step |-> p.step + 1, cells |-> Widened(b, sweep)] : b \in Bands}

StageSample(p, pos) ==
  LET stepped == AdvanceTo([p EXCEPT !.step = @ + 1], p.step + 1)
      filled == FoldSet(LAMBDA s, q : InsertSlice(q, s), stepped, SlicesOf(p, pos))
  IN [filled EXCEPT !.pose = pos,
                    !.centers = Append(@, [step |-> p.step + 1, pos |-> pos])]

(* The first stroke a planner hears of is no change.                       *)
EnterStroke(p, newStroke) ==
  IF p.stroked /\ newStroke THEN [p EXCEPT !.pose = Absent, !.centers = <<>>]
  ELSE [p EXCEPT !.stroked = TRUE]

PruneCenters(p) ==
  [p EXCEPT !.centers = SelectSeq(@, LAMBDA c : p.step - c.step < MaxSupport)]

StageFrame(p, f) ==
  LET entered == EnterStroke(p, f.newStroke)
      sampled == FoldLeft(StageSample, entered, f.samples)
      aged == [sampled EXCEPT !.step = @ + f.idle]
  IN PruneCenters(AdvanceTo(aged, aged.step))

-----------------------------------------------------------------------------
(* Compilation.                                                            *)
Weight(curve, age) == (Support[curve.band] - age) * curve.intensity

CurveMass(curve, ring, c) ==
  MapThenSumSet(LAMBDA age : IF c \in BucketForAge(ring, age)
                             THEN Weight(curve, age) ELSE 0,
                0..Support[curve.band] - 1)

Mass(p, c) == MapThenSumSet(LAMBDA k : CurveMass(k, p.curves[k], c),
                            DOMAIN p.curves)

CompileIn(p, cells) ==
  LET mass == [c \in cells |-> Mass(p, c)]
  IN [c \in {x \in cells : mass[x] >= MinMass} |-> mass[c]]

Envelope(p) ==
  LET around == {c.pos : c \in ToSet(p.centers)}
      reach == {x - Margin : x \in around} \cup {x + Margin : x \in around}
               \cup {x - Halo : x \in p.previous} \cup {x + Halo : x \in p.previous}
  IN IF reach = {} THEN Absent ELSE <<Min(reach), Max(reach)>>

QueryBounds(p) ==
  LET envelope == Envelope(p)
  IN IF envelope # Absent /\ envelope[2] - envelope[1] + 1 > MaxArea THEN Absent
     ELSE envelope

(* Fault: a field is current whatever was deposited since.                 *)
SameBounds(p, bounds) == p.cache.bounds = bounds /\ p.cache.step # Absent

IsCurrent(p, bounds) == /\ p.cache.step = p.step
                        /\ p.cache.revision = p.revision
                        /\ p.cache.bounds = bounds

CompiledCache(p) ==
  LET bounds == QueryBounds(p)
  IN IF IsCurrent(p, bounds) THEN p.cache
     ELSE [step |-> p.step, revision |-> p.revision, bounds |-> bounds,
           field |-> CompileIn(p, IF bounds = Absent THEN Cell
                                  ELSE Cell \cap (bounds[1]..bounds[2]))]

(* The decoder may leave cells of the field undrawn: here, the rightmost.  *)
Decoded(field) == {DOMAIN field} \cup
                  {DOMAIN field \ {c} : c \in {Max(DOMAIN field) : x \in DOMAIN field}}

-----------------------------------------------------------------------------
NoPlanner ==
  [step |-> 0, latest |-> 0, revision |-> 0, curves |-> NoField,
   centers |-> <<>>, pose |-> Absent, stroked |-> FALSE, previous |-> {},
   cache |-> [step |-> Absent, revision |-> 0, bounds |-> Absent,
              field |-> NoField]]

Draw(f) ==
  LET staged == StageFrame(planner, f)
      cache == CompiledCache(staged)
      begun == EnterStroke(planner, f.newStroke)
      stages == [i \in 0..Len(f.samples) |->
                   FoldLeft(StageSample, begun, SubSeq(f.samples, 1, i))]
      poses == {c.pos : c \in ToSet(staged.centers)}
  IN /\ staged.step <= MaxSteps
     /\ \E cells \in Decoded(cache.field) :
          planner' = [staged EXCEPT !.cache = cache, !.previous = cells]
     /\ slices' = slices \cup
                  UNION {SlicesOf(stages[i - 1], f.samples[i]) :
                           i \in 1..Len(f.samples)}
     /\ owed' = planner.previous \cup
                UNION {Interval(stages[i - 1].pose, f.samples[i]) :
                         i \in {x \in 1..Len(f.samples) :
                                  stages[x - 1].pose \in poses}}

Near(pos) == {c \in Cell : pos = Absent \/ c \in pos - MaxJump..pos + MaxJump}

DrawMotion ==
  \E new \in BOOLEAN, n \in 1..MaxSamples : \E path \in [1..n -> Cell] :
    /\ new => planner.stroked
    /\ \A i \in 1..n : path[i] \in Near(IF i = 1 THEN planner.pose
                                         ELSE path[i - 1])
    /\ Draw([samples |-> path, idle |-> 0, newStroke |-> new])
    /\ idled' = 0

(* The tail drains for fewer steps than the longest support: the step that *)
(* ends it clears the scene.                                               *)
DrawTail ==
  \E n \in 1..MaxSupport :
    /\ idled + n < MaxSupport /\ planner.stroked
    /\ Draw([samples |-> <<>>, idle |-> n, newStroke |-> FALSE])
    /\ idled' = idled + n

DrawAgain == /\ planner.stroked
             /\ \E new \in BOOLEAN : Draw([samples |-> <<>>, idle |-> 0, newStroke |-> new])
             /\ UNCHANGED idled

ForgetPlanner == /\ planner' = NoPlanner /\ slices' = {} /\ owed' = {}
                 /\ idled' = 0

Init == planner = NoPlanner /\ slices = {} /\ owed = {} /\ idled = 0

Next == DrawMotion \/ DrawTail \/ DrawAgain \/ ForgetPlanner

Spec == Init /\ [][Next]_vars
-----------------------------------------------------------------------------
(* What the slices of a step still weigh, told from the slices themselves. *)
Remaining(s) == LET age == planner.step - s.step
                IN IF age < Support[s.curve.band] THEN Weight(s.curve, age) ELSE 0
TrueMass(c) ==
  MapThenSumSet(LAMBDA s : IF c \in s.cells THEN Remaining(s) ELSE 0, slices)

(* The buckets hold what a rebuild from the deposits of the trail gives:   *)
(* nothing deposited is lost, counted twice or kept past its support.      *)
BucketsAreTheDeposits == \A c \in Cell : Mass(planner, c) = TrueMass(c)

(* The field a frame is decoded from is the field as it is at that frame,  *)
(* cut to the bounds in force.                                             *)
FieldIsCurrent ==
  LET cache == planner.cache
  IN cache.step # Absent =>
       /\ cache.step = planner.step
       /\ \A c \in DOMAIN cache.field : cache.field[c] = TrueMass(c)

(* The bounds cut nothing off that was drawn before and is still alive, or *)
(* that the frame swept from a pose it still knew.                         *)
BoundsCutNothing ==
  \A c \in owed : TrueMass(c) >= MinMass => c \in DOMAIN planner.cache.field

(* The center line is of the stroke being drawn and within the support.    *)
CentersAreOfTheTail ==
  \A c \in ToSet(planner.centers) :
     /\ planner.step - c.step < MaxSupport
     /\ \E s \in slices : s.step = c.step /\ c.pos \in s.cells
=============================================================================
