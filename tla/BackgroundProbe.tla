--------------------------- MODULE BackgroundProbe ---------------------------
(***************************************************************************)
(* Which cells of the screen the particles of a smear may be drawn over    *)
(* (core/state/observation/background_probe.rs and background_probe_cells, *)
(* events/handlers/observation/background.rs, probes.lua).                 *)
(*                                                                         *)
(* The cells under the particles of the frame an observation was planned   *)
(* for are asked about chunk by chunk, the answers are packed into bytes,  *)
(* and every later frame drawn from the observation is held to them.       *)
(* Positions are counted in quarters of a row and halves of a column.      *)
(***************************************************************************)
EXTENDS Integers, Sequences, FiniteSets, FiniteSetsExt, SequencesExt

CONSTANTS Viewports,     \* sizes of the screen, <<rows, columns>>
          Clouds,        \* sequences of particles a frame may have
          Targets,       \* cells of the cursor
          Inscriptions,  \* sets of cells that may have text at first
          MaxLifetime, SwitchAt, Levels,  \* of the particles' glyphs and colours
          Bits,          \* of a byte of a mask
          ChunkSize,     \* MAX_BACKGROUND_PROBE_CELLS_PER_CHUNK
          MaxObservations, MaxEdits, MaxTicks, Absent

VARIABLES screen,        \* the screen: its size, and the cells with text
          probing,       \* the observation and its background probe, or Absent
          asking,        \* requests of chunks on their way to the shell
          frame,         \* the frame on the screen: particles, cells, operations
          answered,      \* ghost: what the screen answered, cell by cell, and
                         \* how often it was asked, for this observation
          events         \* observations, edits and ticks so far
vars == <<screen, probing, asking, frame, answered, events>>

Byte == 2 ^ Bits
Before(a, b) == a[1] < b[1] \/ (a[1] = b[1] /\ a[2] < b[2])
InViewport(viewport, cell) == cell[1] <= viewport[1] /\ cell[2] <= viewport[2]
IsScreenCell(cell) == cell[1] >= 1 /\ cell[2] >= 1
Cells == {c \in UNION {(1..v[1]) \X (1..v[2]) : v \in Viewports} : IsScreenCell(c)}

-----------------------------------------------------------------------------
(* The particles by the cell they are in: every dot of a cell adds up the   *)
(* lifetimes of its particles, and counts once it is visible.               *)
CellOf(p) == <<p.row \div 4, p.col \div 2>>
DotOf(p) == <<p.row % 4, p.col % 2>>
NewCell(cell) == [at |-> cell, dots |-> [d \in (0..3) \X (0..1) |-> 0], count |-> 0, sum |-> 0]

(* Fault: every particle counts as a dot.                                   *)
CountLifetime(c, dot, life) ==
  [c EXCEPT !.dots[dot] = @ + life, !.sum = @ + life, !.count = @ + 1]
AddLifetime(c, dot, life) ==
  [c EXCEPT !.dots[dot] = @ + life, !.sum = @ + life,
            !.count = @ + (IF c.dots[dot] = 0 /\ life > 0 THEN 1 ELSE 0)]

Aggregate(particles) ==
  LET Added(cells, p) ==
        LET known == {c \in cells : c.at = CellOf(p)}
            old == IF known = {} THEN NewCell(CellOf(p)) ELSE CHOOSE c \in known : TRUE
        IN (cells \ known) \cup {AddLifetime(old, DotOf(p), p.life)}
  IN SetToSortSeq(FoldLeft(Added, {}, particles), LAMBDA a, b : Before(a.at, b.at))
ParticleScreenCells(aggregated) ==
  SelectSeq([i \in DOMAIN aggregated |-> aggregated[i].at], IsScreenCell)

-----------------------------------------------------------------------------
(* A cell is drawn as an octant while its particles are young, then as a    *)
(* pattern of braille; 25 octants have their code elsewhere, since they     *)
(* were characters before (octant_chars.rs).                                *)
OctantIndex(c) == FoldSet(+, 0, {2 ^ (2 * d[1] + d[2]) : d \in {e \in DOMAIN c.dots : c.dots[e] > 0}})
OctantsElsewhere == {1, 2, 3, 5, 10, 15, 20, 40, 63, 64, 80, 85, 90, 95, 128, 160, 165, 170,
                     175, 192, 240, 245, 250, 252, 255}
GlyphOf(c) == IF c.sum <= SwitchAt * c.count THEN "braille"
              ELSE IF OctantIndex(c) \in OctantsElsewhere THEN "elsewhere" ELSE "octant"
LevelOf(c) ==
  LET span == IF c.sum <= SwitchAt * c.count THEN SwitchAt ELSE MaxLifetime - SwitchAt
      age == IF c.sum <= SwitchAt * c.count THEN c.sum ELSE c.sum - SwitchAt * c.count
  IN Min({Levels, (2 * Levels * age + c.count * span) \div (2 * c.count * span)})
OverlayOps(aggregated, target) ==
  {[at |-> c.at, glyph |-> GlyphOf(c)] :
     c \in {c \in ToSet(aggregated) : c.at # target /\ c.count > 0 /\ LevelOf(c) > 0}}

-----------------------------------------------------------------------------
(* A view of the cells of a frame: the ranges of them that are asked about, *)
(* each with its place in the source and its place in the view, from 0.     *)
NewRange(source, logical, len) == [source |-> source, logical |-> logical, len |-> len]
SourceEnd(r) == r.source + r.len
LogicalEnd(r) == r.logical + r.len
Range0(ranges, i) == ranges[i + 1]
ViewLen(view) == IF view.ranges = <<>> THEN 0 ELSE LogicalEnd(Last(view.ranges))

PlanFor(cells, target, viewport) ==
  LET Wanted(i) == cells[i] # target /\ InViewport(viewport, cells[i])
      Starts == {i \in DOMAIN cells : Wanted(i) /\ (i = 1 \/ ~Wanted(i - 1))}
      RunOf(i) == CHOOSE n \in 1..Len(cells) :
        /\ \A j \in i..i + n - 1 : j \in DOMAIN cells /\ Wanted(j)
        /\ i + n \notin DOMAIN cells \/ ~Wanted(i + n)
      Earlier(i) == Cardinality({j \in 1..i - 1 : Wanted(j)})
  IN [source |-> cells,
      ranges |-> [k \in 1..Cardinality(Starts) |->
        LET i == SetToSortSeq(Starts, <)[k] IN NewRange(i - 1, Earlier(i), RunOf(i))]]

(* The range that holds a place of the view, and the offset in it.          *)
LocateRange(view, index) ==
  LET n == Len(view.ranges)
      In[left \in 0..n, right \in 0..n] ==
        IF left >= right THEN Absent
        ELSE LET mid == left + (right - left) \div 2
                 r == Range0(view.ranges, mid)
             IN IF index < r.logical THEN In[left, mid]
                ELSE IF index >= LogicalEnd(r) THEN In[mid + 1, right]
                ELSE [range |-> mid, offset |-> index - r.logical]
  IN In[0, n]

(* The cells of the view from start to just before stop.                    *)
IterRange(view, start, stop) ==
  IF start >= stop \/ stop > ViewLen(view) \/ LocateRange(view, start) = Absent THEN <<>>
  ELSE LET at == LocateRange(view, start)
           From(i, offset) == SubSeq(view.source, Range0(view.ranges, i).source + offset + 1,
                                     SourceEnd(Range0(view.ranges, i)))
           All == FoldLeft(\o, From(at.range, at.offset),
                           [k \in 1..Len(view.ranges) - at.range - 1 |-> From(at.range + k, 0)])
       IN SubSeq(All, 1, stop - start)

(* Fault: the ranges before are not counted.                                *)
PositionInRange(view, cell) ==
  LET hits == {<<i, k>> \in (DOMAIN view.ranges) \X (0..Len(view.source)) :
                 /\ k < view.ranges[i].len
                 /\ view.source[view.ranges[i].source + k + 1] = cell}
  IN IF hits = {} THEN Absent ELSE (CHOOSE h \in hits : TRUE)[2]

(* The place of a cell in the view, found by halving the ranges.            *)
PositionOf(view, cell) ==
  LET n == Len(view.ranges)
      In[left \in 0..n, right \in 0..n] ==
        IF left >= right THEN Absent
        ELSE LET mid == left + (right - left) \div 2
                 r == Range0(view.ranges, mid)
                 slice == SubSeq(view.source, r.source + 1, SourceEnd(r))
                 found == {k \in DOMAIN slice : slice[k] = cell}
             IN IF Before(cell, Head(slice)) THEN In[left, mid]
                ELSE IF Before(Last(slice), cell) THEN In[mid + 1, right]
                ELSE IF found = {} THEN Absent
                ELSE r.logical + (CHOOSE k \in found : TRUE) - 1
  IN In[0, n]

IsSortedUnique(view) ==
  LET all == IterRange(view, 0, ViewLen(view))
  IN \A i \in 1..Len(all) - 1 : Before(all[i], all[i + 1])

-----------------------------------------------------------------------------
(* Masks: a bit for each cell, packed into bytes.                           *)
PackedLen(count) == (count + Bits - 1) \div Bits
Bit(bytes, i) == (bytes[i \div Bits + 1] \div 2 ^ (i % Bits)) % 2 = 1
Pack(bools) ==
  [b \in 1..PackedLen(Len(bools)) |->
     FoldLeft(+, 0, [k \in 1..Bits |->
       IF (b - 1) * Bits + k <= Len(bools) /\ bools[Min({(b - 1) * Bits + k, Len(bools)})]
       THEN 2 ^ (k - 1) ELSE 0])]
TrailingMask(count) == IF count % Bits = 0 THEN Byte ELSE 2 ^ (count % Bits)
FromPacked(count, bytes) ==
  IF Len(bytes) # PackedLen(count) THEN Absent
  ELSE [count |-> count,
        bytes |-> IF bytes = <<>> THEN bytes
                  ELSE [bytes EXCEPT ![Len(bytes)] = @ % TrailingMask(count)]]
MaskAllows(mask, i) == i < mask.count /\ Bit(mask.bytes, i)

NewBuilder(count) == [bytes |-> [i \in 1..PackedLen(count) |-> 0], next |-> 0]

(* Fault: what does not fit into a byte is not carried to the next.         *)
AppendDroppingCarry(builder, mask) ==
  LET at == builder.next \div Bits
      shift == builder.next % Bits
  IN [bytes |-> [i \in DOMAIN builder.bytes |->
                   builder.bytes[i] + (IF i - at \in DOMAIN mask.bytes
                                       THEN (mask.bytes[i - at] * 2 ^ shift) % Byte ELSE 0)],
      next |-> builder.next + mask.count]
AppendMask(builder, mask) ==
  LET at == builder.next \div Bits
      shift == builder.next % Bits
      Low(k) == IF k \in DOMAIN mask.bytes THEN (mask.bytes[k] * 2 ^ shift) % Byte ELSE 0
      Carry(k) == IF k \in DOMAIN mask.bytes THEN mask.bytes[k] \div 2 ^ (Bits - shift) ELSE 0
  IN IF builder.next + mask.count > Len(builder.bytes) * Bits THEN Absent
     ELSE [bytes |-> [i \in DOMAIN builder.bytes |->
                        builder.bytes[i] + Low(i - at) + Carry(i - at - 1)],
           next |-> builder.next + mask.count]

EmptyBatch == [cells |-> [source |-> <<>>, ranges |-> <<>>], mask |-> FromPacked(0, <<>>)]
FromPackedMask(view, bytes) ==
  LET mask == FromPacked(ViewLen(view), bytes)
  IN IF mask = Absent \/ ~IsSortedUnique(view) THEN EmptyBatch
     ELSE [cells |-> view, mask |-> mask]
IsValidFor(batch, viewport) ==
  /\ ViewLen(batch.cells) = batch.mask.count /\ IsSortedUnique(batch.cells)
  /\ \A c \in ToSet(IterRange(batch.cells, 0, ViewLen(batch.cells))) : InViewport(viewport, c)
AllowsParticle(batch, cell) ==
  LET i == PositionOf(batch.cells, cell)
  IN i # Absent /\ MaskAllows(batch.mask, i)

-----------------------------------------------------------------------------
(* The probe of an observation, and the requests of its chunks.             *)
Chunk(plan, start) ==
  IF start >= ViewLen(plan) THEN Absent
  ELSE [cells |-> plan, start |-> start, stop |-> Min({start + ChunkSize, ViewLen(plan)})]
NextChunk(o) == IF o.state = "collecting" THEN Chunk(o.plan, o.next) ELSE Absent
FromPlan(plan, basis) ==
  [id |-> basis.id, viewport |-> basis.viewport, particles |-> basis.particles,
   target |-> basis.target, plan |-> plan, next |-> 0, builder |-> NewBuilder(ViewLen(plan)),
   state |-> IF ViewLen(plan) = 0 THEN "ready" ELSE "collecting",
   batch |-> IF ViewLen(plan) = 0 THEN EmptyBatch ELSE Absent]
SetFailed(o) == IF o.state = "collecting" THEN [o EXCEPT !.state = "failed"] ELSE o

AcceptBatch(o, batch) ==
  IF IsValidFor(batch, o.viewport) /\ o.state = "collecting"
  THEN [o EXCEPT !.state = "ready", !.batch = batch] ELSE o

(* A report of other cells than those now asked for changes nothing.        *)
ApplyChunk(o, chunk, mask) ==
  IF NextChunk(o) = Absent \/ NextChunk(o) # chunk \/ mask.count # chunk.stop - chunk.start
     \/ AppendMask(o.builder, mask) = Absent THEN o
  ELSE LET builder == AppendMask(o.builder, mask)
       IN IF chunk.stop < ViewLen(o.plan) THEN [o EXCEPT !.next = chunk.stop, !.builder = builder]
          ELSE AcceptBatch(o, FromPackedMask(o.plan, builder.bytes))

Requests(o) ==
  IF NextChunk(o) = Absent THEN <<>> ELSE <<[id |-> o.id, viewport |-> o.viewport,
                                             chunk |-> NextChunk(o)]>>
Unasked == [c \in Cells |-> [times |-> 0, blank |-> FALSE, refused |-> FALSE]]

(* What a frame leaves on the screen: operations off the screen, and those  *)
(* the batch of the observation does not admit, are dropped.                *)
Drawn(particles, o) ==
  LET aggregated == Aggregate(particles)
  IN [particles |-> particles, cells |-> aggregated,
      ops |-> {op \in OverlayOps(aggregated, o.target) :
                 /\ IsScreenCell(op.at) /\ InViewport(o.viewport, op.at)
                 /\ o.batch # Absent /\ AllowsParticle(o.batch, op.at)}]
DrawnIfKnown(o) ==
  IF o = Absent \/ o.state = "collecting" THEN frame ELSE Drawn(o.particles, o)

(* A new observation, with the frame planned for it.                        *)
Observe ==
  \E particles \in Clouds, target \in Targets :
    LET aggregated == Aggregate(particles)
        o == FromPlan(PlanFor(ParticleScreenCells(aggregated), target, screen.viewport),
                      [id |-> events.observations, viewport |-> screen.viewport,
                       particles |-> particles, target |-> target])
    IN /\ events.observations < MaxObservations
       /\ events' = [events EXCEPT !.observations = @ + 1]
       /\ probing' = o
       /\ asking' = asking \o Requests(o)
       /\ frame' = DrawnIfKnown(o)
       /\ answered' = Unasked
       /\ UNCHANGED screen

(* The screen with what is drawn on it, as probes.lua reads it.             *)
Covering(cell) == {op \in frame.ops : op.at = cell}
Blank(cell) == IF Covering(cell) = {} THEN cell \notin screen.text
               ELSE \A op \in Covering(cell) : op.glyph # "elsewhere"
BackgroundAllowedMask(cells) == Pack([i \in DOMAIN cells |-> Blank(cells[i])])

Answered(cells) ==
  [c \in Cells |->
     IF c \notin ToSet(cells) THEN answered[c]
     ELSE [times |-> answered[c].times + 1, blank |-> Blank(c),
           refused |-> c \notin screen.text /\ ~Blank(c)]]

Report(o, next) ==
  /\ probing' = next
  /\ frame' = IF next = o THEN frame ELSE DrawnIfKnown(next)
  /\ asking' = Tail(asking) \o (IF next = o \/ next = Absent THEN <<>> ELSE Requests(next))

(* A request of an observation that is no longer there changes nothing.     *)
CollectReport ==
  LET r == Head(asking)
      cells == IterRange(r.chunk.cells, r.chunk.start, r.chunk.stop)
      mine == probing # Absent /\ probing.id = r.id
      mask == FromPacked(Len(cells), BackgroundAllowedMask(cells))
  IN /\ asking # <<>>
     /\ \/ /\ ~mine
           /\ asking' = Tail(asking)
           /\ UNCHANGED <<probing, frame, answered>>
        \/ /\ mine /\ screen.viewport # r.viewport
           /\ Report(probing, Absent) /\ UNCHANGED answered
        \/ /\ mine /\ screen.viewport = r.viewport
           /\ Report(probing, ApplyChunk(probing, r.chunk, mask))
           /\ answered' = Answered(cells)
        \/ /\ mine /\ screen.viewport = r.viewport
           /\ Report(probing, SetFailed(probing)) /\ UNCHANGED answered
     /\ UNCHANGED <<screen, events>>

(* A frame of the animation, drawn from the observation there is.           *)
Tick ==
  \E particles \in Clouds :
    /\ probing # Absent /\ probing.state # "collecting"
    /\ events.ticks < MaxTicks /\ events' = [events EXCEPT !.ticks = @ + 1]
    /\ frame' = Drawn(particles, probing)
    /\ UNCHANGED <<screen, probing, asking, answered>>

Edit ==
  \E c \in Cells :
    /\ events.edits < MaxEdits /\ events' = [events EXCEPT !.edits = @ + 1]
    /\ screen' = [screen EXCEPT !.text = IF c \in @ THEN @ \ {c} ELSE @ \cup {c}]
    /\ UNCHANGED <<probing, asking, frame, answered>>

Resize ==
  \E v \in Viewports \ {screen.viewport} :
    /\ events.edits < MaxEdits /\ events' = [events EXCEPT !.edits = @ + 1]
    /\ screen' = [screen EXCEPT !.viewport = v]
    /\ UNCHANGED <<probing, asking, frame, answered>>

Init ==
  /\ \E v \in Viewports, t \in Inscriptions : screen = [viewport |-> v, text |-> t]
  /\ probing = Absent /\ asking = <<>> /\ answered = Unasked
  /\ frame = [particles |-> <<>>, cells |-> <<>>, ops |-> {}]
  /\ events = [observations |-> 0, edits |-> 0, ticks |-> 0]

Next == Observe \/ CollectReport \/ Tick \/ Edit \/ Resize
Spec == Init /\ [][Next]_vars

-----------------------------------------------------------------------------
Planned(o) == ToSet(IterRange(o.plan, 0, ViewLen(o.plan)))
Asked(o) == ToSet(IterRange(o.plan, 0, IF o.state = "ready" THEN ViewLen(o.plan) ELSE o.next))

(* However the cells are cut into ranges and chunks, and the answers packed *)
(* and spliced, an observation asks once about every cell of its particles  *)
(* that is on the screen and not under the cursor, and admits a particle    *)
(* exactly where the screen was found blank (background_probe.rs).          *)
AdmitsWhatWasBlank ==
  probing # Absent =>
    /\ Planned(probing) =
         {c \in Cells : /\ c \in {CellOf(p) : p \in ToSet(probing.particles)}
                        /\ InViewport(probing.viewport, c) /\ c # probing.target}
    /\ probing.state # "failed" =>
         \A c \in Cells : answered[c].times = IF c \in Asked(probing) THEN 1 ELSE 0
    /\ probing.state = "ready" =>
         \A c \in Cells : AllowsParticle(probing.batch, c) <=> answered[c].blank

(* While answers are missing, the request of the next chunk is on its way:  *)
(* late reports of replaced observations neither stop a probe nor start it  *)
(* twice (core/reducer/machine/observation.rs).                             *)
ProbeIsDriven ==
  probing # Absent =>
    Cardinality({i \in DOMAIN asking : asking[i].id = probing.id})
      = IF probing.state = "collecting" THEN 1 ELSE 0

(* Each cell of the frame tells the dots and the lifetime of the particles  *)
(* in it, once, in the order the probe's search needs (types.rs).           *)
CellsAreTheParticles ==
  LET in(c) == SelectSeq(frame.particles, LAMBDA p : CellOf(p) = c)
  IN /\ {c.at : c \in ToSet(frame.cells)} = {CellOf(p) : p \in ToSet(frame.particles)}
     /\ \A i \in 1..Len(frame.cells) - 1 : Before(frame.cells[i].at, frame.cells[i + 1].at)
     /\ \A c \in ToSet(frame.cells) :
          /\ c.count = Cardinality({DotOf(p) : p \in ToSet(in(c.at))})
          /\ c.sum = FoldLeft(+, 0, [i \in DOMAIN in(c.at) |-> in(c.at)[i].life])

(* Not so: the smear's own particles do not keep it from drawing where the  *)
(* screen is blank under them.                                              *)
OwnParticlesAreNoText == \A c \in Cells : ~answered[c].refused
=============================================================================
