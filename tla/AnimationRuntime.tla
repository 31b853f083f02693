---------------------------- MODULE AnimationRuntime ----------------------------
(* The runtime reducer of smear-cursor: how an observation of the cursor, or *)
(* the tick of the animation timer, moves the smear and what it asks of the  *)
(* shell (core/runtime_reducer and state/machine).                           *)
(*                                                                           *)
(* The pose is the cell the four corners of the smear are in, and a step of  *)
(* the simulation brings it one cell nearer; the thresholds that start and   *)
(* stop it are crossed by one cell.                                          *)
EXTENDS Integers, SequencesExt

CONSTANTS Cells,     \* <<row, column>>
          Surfaces,  \* [window, buffer, size, full]: full keeps the particles
          Modes,     \* a subset of "n", "i", "R", "t", "c"
          Configs,   \* [off: options turned off, delay: before a smear, hold: frames at rest]
          MinRows, MinCols, \* shortest smears
          Frame, Step, MaxSteps, CatchUp, DrainSteps, Life,
                     \* periods of the clock, steps a frame, windows of catching up,
                     \* steps of a tail, steps a particle lives
          MaxTime    \* bound: the clock

VARIABLES config, run, observation, wake, shown, hidden, cleaning, time

vars == <<config, run, observation, wake, shown, hidden, cleaning, time>>

Nowhere == <<0, 0>>
NoSurface == [window |-> 0, buffer |-> 0, size |-> 0, full |-> TRUE]
NoWake == 0

AtLeast(a, b) == IF a > b THEN a ELSE b
AtMost(a, b) == IF a < b THEN a ELSE b
Gap(a, b) == IF a > b THEN a - b ELSE b - a
Allows(option) == option \notin config.off

-----------------------------------------------------------------------------
(* RuntimeState: the phase with the window it settles in or the clock it     *)
(* runs by, the target and the pose.                                         *)
Fresh == [enabled |-> TRUE, phase |-> "Uninitialized", since |-> 0, due |-> 0,
          last |-> 0, next |-> 0, acc |-> 0, hold |-> 0, left |-> 0,
          target |-> Nowhere, shape |-> "n", tracked |-> NoSurface,
          pose |-> Nowhere, fast |-> FALSE, sparks |-> 0, observed |-> "Unknown"]

Enter(r, phase) ==
  [r EXCEPT !.phase = phase, !.since = 0, !.due = 0, !.last = 0, !.next = 0,
            !.acc = 0, !.hold = 0, !.left = 0]

Stop(r) == IF r.phase \in {"Running", "Draining"} THEN Enter(r, "Idle") ELSE r
ClearPendingTarget(r) == IF r.phase = "Settling" THEN Enter(r, "Idle") ELSE r
MarkInitialized(r) == IF r.phase = "Uninitialized" THEN Enter(r, "Idle") ELSE r

StartDrain(r, now) == [Enter(r, "Draining") EXCEPT !.last = now, !.left = DrainSteps]

StartTowardsTarget(r) == [Enter(r, "Running") EXCEPT !.fast = r.pose # r.target]

Retarget(r, cell, shape, surface) ==
  [r EXCEPT !.target = cell, !.shape = shape, !.tracked = surface]

SettleAtTarget(r) == [r EXCEPT !.pose = r.target, !.fast = FALSE]

(* The three ways a cursor is put somewhere at once. *)
SyncGeometry(r, cell, shape, surface) ==
  [Retarget(r, cell, shape, surface) EXCEPT !.pose = cell]

Initialize(r, cell, shape, surface) ==
  Stop(ClearPendingTarget(MarkInitialized(
    [SyncGeometry(r, cell, shape, surface) EXCEPT !.fast = FALSE, !.sparks = 0])))

JumpAndStop(r, cell, shape, surface) ==
  Stop(ClearPendingTarget([SyncGeometry(r, cell, shape, surface) EXCEPT !.fast = FALSE]))

JumpPreservingMotion(r, cell, shape, surface) ==
  ClearPendingTarget(MarkInitialized(SyncGeometry(r, cell, shape, surface)))

Settle(r, cell, shape, surface, now, since) ==
  [Enter(Retarget(r, cell, shape, surface), "Settling") EXCEPT
     !.since = since, !.due = now + config.delay]

SettlingMatches(r, cell, shape, surface) ==
  r.target = cell /\ r.shape = shape
  /\ r.tracked # NoSurface
  /\ r.tracked.window = surface.window /\ r.tracked.buffer = surface.buffer
  /\ r.tracked.size = surface.size

ShouldPromote(r, now) == r.phase = "Settling" /\ r.due >= r.since /\ now >= r.due

(* A clock that went back, or stood too long, ends the motion. *)
Recover(r) == Stop([SettleAtTarget(r) EXCEPT !.sparks = 0])

-----------------------------------------------------------------------------
(* The motion clock. *)
Budget == AtLeast(Frame, Step * MaxSteps) * CatchUp

Discontinuous(r, now) == r.last # 0 /\ (now < r.last \/ now - r.last > Budget)

Elapse(r, now) ==
  [r EXCEPT !.last = now,
            !.acc = AtMost(r.acc + (IF r.last = 0 THEN Frame ELSE now - r.last), Budget)]

NextFrame(r, now) ==
  LET planned == IF r.next = 0 THEN now + Frame ELSE r.next
  IN IF planned > now THEN planned
     ELSE planned + ((now - planned) \div Frame + 1) * Frame

Paced(r, now) == [r EXCEPT !.next = NextFrame(r, now)]
ClockWake(r, now) == AtLeast(NextFrame(r, now), now + 1)
SettleWake(r, now) == AtLeast(r.due, now + 1)

Nearer(a, b) == IF a < b THEN a + 1 ELSE IF a > b THEN a - 1 ELSE a

StepOnce(r, emits) ==
  LET pose == <<Nearer(r.pose[1], r.target[1]), Nearer(r.pose[2], r.target[2])>>
  IN [r EXCEPT !.pose = pose, !.fast = pose # r.pose,
               !.sparks = IF emits /\ pose # r.pose THEN Life
                          ELSE AtLeast(r.sparks, 1) - 1]

Steps(r, n, emits) ==
  FoldLeft(LAMBDA s, k : StepOnce(s, emits), [r EXCEPT !.acc = r.acc - n * Step],
           [k \in 1 .. n |-> k])

Affordable(r) == AtMost(MaxSteps, r.acc \div Step)

-----------------------------------------------------------------------------
(* The transitions a reduction ends in. *)
Outcome(r, action, cursor, at, cleanup) ==
  [run |-> r, action |-> action, cursor |-> cursor, wake |-> at, cleanup |-> cleanup]

Noop(r, at, cleanup) == Outcome(r, "Noop", "Show", at, cleanup)
ClearAll(r, cleanup) == Outcome(r, "ClearAll", "Show", NoWake, cleanup)
Draw(r, mode, at, cleanup) ==
  Outcome(r, "Draw", IF mode = "c" \/ r.pose = r.target THEN "Show" ELSE "Hide", at, cleanup)

Waiting(r, now) == Noop(r, SettleWake(r, now), "Invalidate")
Discontinuity(r) == ClearAll(Recover(r), "Schedule")

DrawJump(r, mode, now) ==
  LET draining == StartDrain(r, now)
  IN Draw(Paced(draining, now), mode, ClockWake(draining, now), "Invalidate")

(* Fault: the end of the tail is left to the cleanup of an idle pool. *)
NoopAtTailEnd(r) == Noop([r EXCEPT !.sparks = 0], NoWake, "Invalidate")
EndTail(r) == ClearAll([r EXCEPT !.sparks = 0], "Schedule")

DrawDrain(r, mode, now, full) ==
  IF Discontinuous(r, now) THEN Discontinuity(r)
  ELSE LET e == Elapse(r, now)
           n == AtMost(Affordable(e), e.left)
           s == Steps([e EXCEPT !.left = e.left - n], n, FALSE)
       IN IF s.left = 0 THEN EndTail(Enter(s, "Idle"))
          ELSE IF n = 0 THEN Noop(Paced(s, now), ClockWake(s, now), "Invalidate")
          ELSE Draw(Paced(s, now), mode, ClockWake(s, now), "Invalidate")

Probe(r) ==
  [r EXCEPT !.hold = IF r.pose = r.target /\ ~r.fast /\ r.sparks = 0 THEN r.hold + 1 ELSE 0]

Advance(r, mode, now, justStarted, full) ==
  IF Discontinuous(r, now) THEN Discontinuity(r)
  ELSE LET e == Elapse(r, now)
           n == Affordable(e)
           emits == full /\ Allows("particles_enabled")
           s == IF n = 0 /\ justStarted THEN StepOnce(e, emits) ELSE Steps(e, n, emits)
           p == Probe(s)
           d == StartDrain(SettleAtTarget(p), now)
       IN IF p.hold >= config.hold
            THEN Draw(Paced(d, now), mode, ClockWake(d, now), "Invalidate")
          ELSE Draw(Paced(p, now), mode, ClockWake(p, now), "Invalidate")

-----------------------------------------------------------------------------
(* policy.rs: which events snap, which are smeared, and which are ticks. *)
Ignores(mode) == mode = "c" /\ ~Allows("smear_to_cmd")

RequiresJump(mode) ==
  \/ mode = "i" /\ ~Allows("smear_insert_mode")
  \/ mode = "R" /\ ~Allows("smear_replace_mode")
  \/ mode = "t" /\ ~Allows("smear_terminal_mode")

RequiresImmediateMovement(mode, crossed) ==
  \/ mode = "i" /\ ~Allows("animate_in_insert_mode")
  \/ crossed /\ ~Allows("animate_command_line")

ShouldJump(r, surface, cell) ==
  LET rows == Gap(cell[1], r.pose[1])
      cols == Gap(cell[2], r.pose[2])
  IN \/ surface.window # r.tracked.window /\ ~Allows("smear_between_windows")
     \/ surface.buffer # r.tracked.buffer /\ ~Allows("smear_between_buffers")
     \/ rows <= 1 /\ ~Allows("smear_between_neighbor_lines")
     \/ rows < MinRows /\ cols < MinCols
     \/ rows = 0 /\ ~Allows("smear_horizontally")
     \/ cols = 0 /\ ~Allows("smear_vertically")
     \/ rows > 0 /\ cols > 0 /\ ~Allows("smear_diagonally")

SameSurface(r, surface) ==
  r.tracked.window = surface.window /\ r.tracked.buffer = surface.buffer

EventSource(r, o, event) ==
  IF \/ o.mode = "c"
     \/ event \in {"ModeChanged", "TextMutated", "ViewportMoved"}
     \/ r.phase = "Uninitialized"
    THEN "External"
  ELSE IF r.target # o.cell
    THEN IF r.phase \in {"Running", "Settling"} /\ SameSurface(r, o.surface)
         THEN "AnimationTick" ELSE "External"
  ELSE IF r.tracked = o.surface THEN "AnimationTick" ELSE "External"

Shifted(r, shift) ==
  [r EXCEPT !.pose = <<CHOOSE row \in {c[1] : c \in Cells} :
                         \A other \in {c[1] : c \in Cells} :
                           Gap(row, r.pose[1] - shift) <= Gap(other, r.pose[1] - shift),
                       r.pose[2]>>]

-----------------------------------------------------------------------------
(* reduce_cursor_event_for_perf_class, one operator for each group of early  *)
(* returns.                                                                  *)
WhenDisabled(r) == ClearAll(Stop(ClearPendingTarget(r)), "Invalidate")

Animate(r, o, source, now, justStarted) ==
  IF source = "AnimationTick" /\ r.phase = "Draining"
    THEN DrawDrain(r, o.mode, now, o.surface.full)
  ELSE IF r.phase = "Running" THEN Advance(r, o.mode, now, justStarted, o.surface.full)
  ELSE Noop(r, NoWake, "NoAction")

SettleExternal(r, o, now, unchanged) ==
  LET since == IF r.phase = "Settling" /\ unchanged THEN r.since ELSE now
      s == Settle(r, o.cell, o.mode, o.surface, now, since)
  IN IF ~(r.pose # r.target \/ r.fast)
       THEN Noop(Stop(SettleAtTarget(ClearPendingTarget(r))), NoWake, "Schedule")
     ELSE IF ShouldPromote(s, now)
       THEN Animate(StartTowardsTarget(s), o, "External", now, TRUE)
     ELSE Waiting(s, now)

SettleTick(r, o, cell, now, unchanged) ==
  LET since == IF unchanged THEN r.since ELSE now
      s == Settle(r, cell, o.mode, o.surface, now, since)
  IN IF unchanged /\ ShouldPromote(r, now)
       THEN Animate(StartTowardsTarget(r), o, "AnimationTick", now, TRUE)
     ELSE Waiting(s, now)

Follow(r, o, source, now) ==
  LET moved == source = "External" \/ (r.phase \in {"Settling", "Running", "Draining"}
                                       /\ r.target # o.cell)
      cell == IF moved THEN o.cell ELSE r.target
      unchanged == SettlingMatches(r, cell, o.mode, o.surface)
      shifted == IF moved THEN Shifted(r, o.shift) ELSE r
      aimed == IF moved THEN Retarget(shifted, cell, o.mode, o.surface) ELSE r
  IN IF moved /\ ShouldJump(shifted, o.surface, cell)
       THEN ClearAll(JumpAndStop(shifted, cell, o.mode, o.surface), "Schedule")
     ELSE IF source = "External" /\ r.phase # "Running"
       THEN SettleExternal(aimed, o, now, unchanged)
     ELSE IF source = "AnimationTick" /\ r.phase = "Settling"
       THEN SettleTick(aimed, o, cell, now, unchanged)
     ELSE Animate(aimed, o, source, now, FALSE)

Resized(r, o) ==
  r.tracked # NoSurface /\ SameSurface(r, o.surface) /\ r.tracked.size # o.surface.size

Reduce(start, o, event, now) ==
  LET source == EventSource(start, o, event)
      external == source = "External"
      side == IF o.mode = "c" THEN "Cmdline" ELSE "NonCmdline"
      crossed == start.observed \notin {"Unknown", side}
      r == [start EXCEPT !.observed = side, !.sparks = IF o.surface.full THEN @ ELSE 0]
      s == IF r.phase # "Uninitialized" THEN Shifted(r, o.shift) ELSE r
  IN IF ~start.enabled THEN WhenDisabled(start)
     ELSE IF external /\ Ignores(o.mode) THEN Noop(r, NoWake, "Schedule")
     ELSE IF external /\ (event = "TextMutated" \/ Resized(r, o))
       THEN ClearAll(JumpAndStop(r, o.cell, o.mode, o.surface), "Schedule")
     ELSE IF external /\ RequiresImmediateMovement(o.mode, crossed)
       THEN DrawJump(JumpAndStop(s, o.cell, o.mode, o.surface), o.mode, now)
     ELSE IF external /\ RequiresJump(o.mode)
       THEN DrawJump(JumpPreservingMotion(s, o.cell, o.mode, o.surface), o.mode, now)
     ELSE IF r.phase = "Uninitialized"
       THEN Draw(Initialize(r, o.cell, o.mode, o.surface), o.mode, NoWake, "Schedule")
     ELSE Follow(r, o, source, now)

-----------------------------------------------------------------------------
(* The core and the shell around the reducer, as far as it depends on them:  *)
(* a plan is applied before the next event, a wake replaces the one before.  *)
Apply(out) ==
  /\ run' = out.run
  /\ wake' = out.wake
  /\ shown' = CASE out.action = "Draw" -> TRUE
                [] out.action = "ClearAll" -> FALSE
                [] out.action = "Noop" -> shown
  /\ hidden' = (out.cursor = "Hide")
  /\ cleaning' = CASE out.cleanup = "Schedule" -> TRUE
                   [] out.cleanup = "Invalidate" -> FALSE
                   [] out.cleanup = "NoAction" -> cleaning

Init ==
  /\ config \in Configs
  /\ run = Fresh
  /\ observation = [cell |-> Nowhere, surface |-> NoSurface, mode |-> "n", shift |-> 0, at |-> 0]
  /\ wake = NoWake
  /\ shown = FALSE
  /\ hidden = FALSE
  /\ cleaning = FALSE
  /\ time = 1

(* What an observation says happened since the one before. *)
SemanticEvents(o) ==
  IF observation.at = 0 THEN {"FrameCommitted"}
  ELSE IF observation.mode # o.mode THEN {"ModeChanged"}
  ELSE {"TextMutated"} \cup
       (IF observation.surface # o.surface \/ o.shift # 0 THEN {"ViewportMoved"}
        ELSE IF observation.cell # o.cell THEN {"CursorMoved"} ELSE {"FrameCommitted"})

Observe(cell, surface, mode, shift) ==
  LET o == [cell |-> cell, surface |-> surface, mode |-> mode, shift |-> shift, at |-> time]
  IN /\ shift = 0 \/ observation.surface = surface
     /\ \E event \in SemanticEvents(o) : Apply(Reduce(run, o, event, o.at))
     /\ observation' = o
     /\ UNCHANGED <<config, time>>

(* The animation timer rings: the observation at hand is reduced once more,  *)
(* with the time of the ring only when it counts as a tick.                  *)
TickTime == IF EventSource(run, observation, "FrameCommitted") = "External" THEN observation.at ELSE time

Ring ==
  /\ wake # NoWake /\ wake <= time
  /\ Apply(Reduce(run, observation, "FrameCommitted", TickTime))
  /\ UNCHANGED <<config, observation, time>>

(* The animation timer is lost: the motion is given up and what it left on   *)
(* the screen is cleared.                                                    *)
LoseWake ==
  /\ wake # NoWake
  /\ run' = Recover(run)
  /\ wake' = NoWake
  /\ shown' = FALSE /\ hidden' = FALSE
  /\ UNCHANGED <<config, observation, cleaning, time>>

(* The soft clear a scheduled cleanup comes to. *)
Clean ==
  /\ cleaning
  /\ cleaning' = FALSE
  /\ shown' = FALSE /\ hidden' = FALSE
  /\ UNCHANGED <<config, run, observation, wake, time>>

Toggle ==
  /\ run' = [Enter(run, "Uninitialized") EXCEPT
               !.enabled = ~run.enabled, !.sparks = 0, !.observed = "Unknown"]
  /\ wake' = NoWake
  /\ shown' = FALSE /\ hidden' = FALSE /\ cleaning' = FALSE
  /\ observation' = [observation EXCEPT !.at = 0]
  /\ UNCHANGED <<config, time>>

Pass ==
  /\ \E later \in {time + 1, time + Budget + 1} : later <= MaxTime /\ time' = later
  /\ UNCHANGED <<config, run, observation, wake, shown, hidden, cleaning>>

Next ==
  \/ \E cell \in Cells, surface \in Surfaces, mode \in Modes, shift \in {0, 1} :
       Observe(cell, surface, mode, shift)
  \/ Ring
  \/ LoseWake
  \/ Clean
  \/ Toggle
  \/ Pass

Spec == Init /\ [][Next]_vars

-----------------------------------------------------------------------------
(* A smear on the screen is only ever passing: a wake that goes on with it,  *)
(* or a cleanup that takes it away, is under way.                            *)
SmearIsPassing == shown => wake # NoWake \/ cleaning

(* The cursor is hidden only while something will show it again.             *)
HiddenCursorReturns == hidden => shown /\ wake # NoWake

(* A motion that has not arrived goes on, unless the command line is ignored. *)
MotionIsDriven ==
  run.enabled /\ run.phase # "Uninitialized" /\ run.pose # run.target =>
    wake # NoWake \/ Ignores(observation.mode)

(* What the debug assertions of the runtime say: a settling target is due no *)
(* earlier than it became stable, and time owed stays within the budget.     *)
PhasesAreConsistent ==
  /\ run.phase = "Settling" => run.tracked # NoSurface /\ run.since <= run.due
  /\ run.acc <= Budget /\ run.left <= DrainSteps
  /\ run.phase = "Draining" => run.left > 0 /\ run.last # 0

(* A tick settles nothing but moves on: when it rings at or after the moment *)
(* the target was due, the wake it leaves is later than the ring.            *)
TicksMakeProgress ==
  (wake # NoWake /\ wake <= time /\ observation.mode # "c" /\ observation.at # 0) =>
    LET out == Reduce(run, observation, "FrameCommitted", TickTime)
    IN out.wake = NoWake \/ (out.wake > time /\ (run.phase = "Settling" => out.run.phase # "Settling"))

(* The same of every mode, the command line included. *)
EveryTickMakesProgress ==
  (wake # NoWake /\ wake <= time) =>
    LET out == Reduce(run, observation, "FrameCommitted", TickTime)
    IN out.wake = NoWake \/ out.wake > time

TypeOK ==
  /\ config \in Configs
  /\ run.phase \in {"Uninitialized", "Idle", "Settling", "Running", "Draining"}
  /\ wake \in 0 .. MaxTime + Frame + AtLeast(1, config.delay)
  /\ shown \in BOOLEAN /\ hidden \in BOOLEAN /\ cleaning \in BOOLEAN
=============================================================================
