----------------------------- MODULE RenderCleanup -----------------------------
(* When idle floats are cleaned up. SmearReducer keeps the phases of the     *)
(* cleanup and forgets the clock; here the clock, the deadlines and the      *)
(* backoff are kept and the rest of the core is reduced to the moments at    *)
(* which it asks for a cleanup.                                              *)
EXTENDS Naturals, Sequences

CONSTANTS Interval,      \* the configured delays of a frame
          MaxKept,       \* the configured max_kept_windows
          MinSoft, Multiplier, MinHard, RetryCap, IdleRetention, Teardowns,
                         \* the constants of core/runtime_reducer/cleanup.rs
          Slack,         \* how long the event loop may take to answer
          MaxTime,       \* bound: the clock
          MaxFloats,     \* bound: floats in the pools
          MaxFrames,     \* bound: proposals applied
          MaxFaults      \* bound: closes refused, timers lost

VARIABLES clock,
          cleanup,  \* RenderCleanupState with its deadlines
          due,      \* when the armed cleanup timer rings, or 0
          work,     \* executions under way and their reports
          idle,     \* floats left behind by frames
          jammed,   \* closes are being refused
          trouble,  \* something failed since the plugin was last hot
          burst,    \* executions since the clock moved or a frame was applied
          frames, failed

vars == <<clock, cleanup, due, work, idle, jammed, trouble, burst, frames, failed>>

AtLeast(a, b) == IF a > b THEN a ELSE b
AtMost(a, b) == IF a < b THEN a ELSE b
After(t, delay) == t + delay

(* The policy, derived from the configuration of the moment. *)
SoftDelay == AtLeast(Interval, MinSoft)
HardDelay == AtLeast(SoftDelay * Multiplier, MinHard)
MaxRetryDelay == AtLeast(HardDelay, RetryCap)
IdleBudget == AtMost(MaxKept, IdleRetention)
MaxAttempts == IF MaxKept = 0 THEN 1 ELSE AtMost(MaxKept, Teardowns)

-----------------------------------------------------------------------------
(* RenderCleanupState. *)
Cold == [phase |-> "Cold", next |-> 0, hard |-> 0, attempted |-> FALSE,
         retries |-> 0, quiesced |-> FALSE]

DelayMs(attempt) ==
  AtMost(AtLeast(SoftDelay, 1) * 2 ^ (IF attempt = 0 THEN 0 ELSE attempt - 1),
         AtLeast(MaxRetryDelay, AtLeast(SoftDelay, 1)))

Scheduled(now) ==
  LET soft == AtLeast(SoftDelay, 1)
  IN [Cold EXCEPT !.phase = "Hot", !.next = After(now, soft),
                  !.hard = After(now, AtLeast(HardDelay, soft))]

EnterCooling(c, now) ==
  [c EXCEPT !.phase = "Cooling", !.next = now, !.attempted = FALSE, !.retries = 0]

Cooling(c, now) == IF c.phase = "Hot" THEN EnterCooling(c, now) ELSE c

AfterSoftClear(c, now) ==
  IF c.phase = "Cold" THEN c
  ELSE [Cooling(c, now) EXCEPT
          !.next = now, !.attempted = FALSE, !.retries = 0,
          !.hard = IF now >= @ THEN After(now, AtLeast(HardDelay, 1)) ELSE @]

ContinueAfterProgress(c, now) ==
  IF c.phase = "Cold" THEN c
  ELSE [Cooling(c, now) EXCEPT
          !.next = After(now, AtLeast(SoftDelay, 1)), !.attempted = TRUE, !.retries = 0,
          !.hard = AtLeast(@, After(now, AtLeast(HardDelay, 1)))]

AwaitHardPurge(c, now) ==
  IF c.phase = "Cold" THEN c
  ELSE LET cooling == Cooling(c, now)
       IN [cooling EXCEPT !.next = cooling.hard, !.attempted = TRUE]

RetryHardPurge(c, now) ==
  LET cooling == IF c.phase = "Cold"
                 THEN [Cold EXCEPT !.phase = "Cooling", !.next = now, !.hard = now]
                 ELSE Cooling(c, now)
      at      == After(now, AtLeast(DelayMs(cooling.retries + 1), 1))
  IN [cooling EXCEPT !.next = at, !.hard = at, !.attempted = TRUE, !.retries = @ + 1]

RetryAfterObserved(c, now) == IF c.phase = "Hot" THEN c ELSE RetryHardPurge(c, now)

NextDeadline(c) == IF c.phase = "Hot" THEN c.next ELSE AtMost(c.next, c.hard)

-----------------------------------------------------------------------------
(* What the reducer does with the state. s is the part of the state that a   *)
(* handler returns.                                                          *)
State == [cleanup |-> cleanup, due |-> due, work |-> work]

ArmTimer(s, now) ==
  IF s.cleanup.quiesced \/ s.cleanup.phase = "Cold" THEN s
  ELSE [s EXCEPT !.due = now + AtLeast(NextDeadline(s.cleanup) - now, 1)]

Execute(s, what) == [s EXCEPT !.work = Append(@, [kind |-> "execute", what |-> what, at |-> clock])]

(* What falls due at an instant. *)
WorkDue(c, now) ==
  CASE c.phase = "Hot" /\ now >= c.next -> "SoftClear"
    [] c.phase = "Cooling" /\ ~c.attempted /\ now >= c.next -> "CompactToBudget"
    [] c.phase = "Cooling" /\ (c.attempted \/ now < c.next) /\ now >= c.hard -> "CompactToZero"
    [] c.phase = "Cooling" /\ c.attempted /\ now < c.hard /\ now >= c.next -> "CompactToBudget"
    [] OTHER -> "nothing"

ExecuteDueWork(s, now) ==
  IF WorkDue(s.cleanup, now) = "nothing" THEN s ELSE Execute(s, WorkDue(s.cleanup, now))

ExecuteOrArm(s, now) ==
  IF WorkDue(s.cleanup, now) = "nothing" THEN ArmTimer(s, now)
  ELSE Execute(s, WorkDue(s.cleanup, now))

StateAfterApplied(c, action, now) ==
  CASE action = "SoftCleared" -> AfterSoftClear(c, now)
    [] action \in {"SoftClearedRetained", "CleanupStalled"} -> RetryHardPurge(c, now)
    [] action = "Converged" -> Cold
    [] action = "Progress" -> ContinueAfterProgress(c, now)
    [] action = "NoProgress" -> AwaitHardPurge(c, now)

(* Fault: what is not due yet gets no timer. *)
ApplyUntimed(s, action, now) ==
  ExecuteDueWork([s EXCEPT !.cleanup = StateAfterApplied(s.cleanup, action, now)], now)

ReduceApplied(s, action, now) ==
  LET next == [s EXCEPT !.cleanup = StateAfterApplied(s.cleanup, action, now)]
  IN IF next.cleanup.quiesced THEN next
     ELSE IF /\ action \in {"SoftCleared", "SoftClearedRetained"}
             /\ next.cleanup.phase # "Cold"
             /\ next.cleanup.next <= now
          THEN Execute(next, "CompactToBudget")
          ELSE ExecuteOrArm(next, now)

ReduceObserved(s, now) ==
  LET next == [s EXCEPT !.cleanup = RetryAfterObserved(s.cleanup, now)]
  IN IF next.cleanup.quiesced \/ (next.cleanup = s.cleanup /\ s.due # 0)
     THEN next ELSE ExecuteOrArm(next, now)

Becomes(s) == cleanup' = s.cleanup /\ due' = s.due /\ work' = s.work

-----------------------------------------------------------------------------
Init ==
  /\ clock = 0 /\ cleanup = Cold /\ due = 0 /\ work = <<>>
  /\ idle = 0 /\ jammed = FALSE /\ trouble = FALSE /\ burst = 0 /\ frames = 0 /\ failed = 0

(* The event loop is late by no more than Slack. *)
Tick ==
  /\ clock < MaxTime
  /\ due # 0 => clock < due + Slack
  /\ \A i \in DOMAIN work : clock < work[i].at + Slack
  /\ clock' = clock + 1
  /\ burst' = 0
  /\ UNCHANGED <<cleanup, due, work, idle, jammed, trouble, frames, failed>>

(* A frame was applied and its proposal invalidates the idle state. *)
Invalidate ==
  /\ frames < MaxFrames
  /\ LET hot == [State EXCEPT !.cleanup = Scheduled(clock)]
     IN Becomes(IF due # 0 THEN hot ELSE ArmTimer(hot, clock))
  /\ idle' \in idle .. MaxFloats
  /\ frames' = frames + 1
  /\ trouble' = (trouble /\ work # <<>>)
  /\ burst' = 0
  /\ UNCHANGED <<clock, jammed, failed>>

(* A proposal that leaves nothing to draw asks for the cleanup to go on. *)
Schedule ==
  /\ frames < MaxFrames
  /\ LET next == [State EXCEPT !.cleanup = IF cleanup.phase = "Cold" THEN Scheduled(clock)
                                           ELSE [cleanup EXCEPT !.quiesced = FALSE]]
     IN Becomes(IF due # 0 THEN next ELSE ArmTimer(next, clock))
  /\ frames' = frames + 1
  /\ trouble' = (trouble /\ (cleanup.phase # "Cold" \/ work # <<>>))
  /\ burst' = 0
  /\ UNCHANGED <<clock, idle, jammed, failed>>

TimerFires ==
  /\ due # 0
  /\ clock >= due
  /\ Becomes(ExecuteOrArm([State EXCEPT !.due = 0], clock))
  /\ UNCHANGED <<clock, idle, jammed, trouble, burst, frames, failed>>

(* The host timer cannot be started, or is found gone. *)
TimerLost ==
  /\ due # 0
  /\ failed < MaxFaults
  /\ LET lost == [State EXCEPT !.due = 0, !.cleanup.quiesced = cleanup.phase # "Cold"]
     IN Becomes(ExecuteDueWork(lost, clock))
  /\ failed' = failed + 1
  /\ trouble' = TRUE
  /\ UNCHANGED <<clock, idle, jammed, burst, frames>>

(* A lost animation timer clears the screen whatever the phase. *)
AnimationTimerLost ==
  /\ failed < MaxFaults
  /\ Becomes(Execute(State, "SoftClear"))
  /\ failed' = failed + 1
  /\ trouble' = TRUE
  /\ UNCHANGED <<clock, idle, jammed, burst, frames>>

(* A drawing operation reports floats it could not close. *)
RetainedObserved ==
  /\ failed < MaxFaults
  /\ Becomes(ReduceObserved(State, clock))
  /\ failed' = failed + 1
  /\ trouble' = TRUE
  /\ UNCHANGED <<clock, idle, jammed, burst, frames>>

(* A timer orders a clear, a compaction and a purge at one instant at most,  *)
(* and so may each frame and each failure that came in between.              *)
BurstLimit == 3 * (1 + frames + failed)

(* One execution in the shell; a refused close leaves its float behind. *)
Target(what) == IF what = "CompactToZero" THEN 0 ELSE IdleBudget

Closable(what) == AtMost(MaxAttempts, IF idle > Target(what) THEN idle - Target(what) ELSE 0)

Outcome(what, closed, stalled) ==
  CASE what = "SoftClear" -> IF stalled THEN "SoftClearedRetained" ELSE "SoftCleared"
    [] what # "SoftClear" /\ ~stalled /\ idle - closed <= Target(what) -> "Converged"
    [] what = "CompactToZero" /\ stalled -> "CleanupStalled"
    [] OTHER -> IF closed > 0 THEN "Progress" ELSE "NoProgress"

ExecuteCleanup ==
  /\ work # <<>>
  /\ Head(work).kind = "execute"
  /\ LET what   == Head(work).what
         closes == CASE what = "SoftClear" -> {0}
                     [] what # "SoftClear" /\ jammed -> 0 .. Closable(what)
                     [] OTHER -> {Closable(what)}
     IN \E closed \in closes :
          /\ idle' = idle - closed
          /\ work' = Append(Tail(work), [kind |-> "report", at |-> clock,
                                         what |-> Outcome(what, closed, jammed)])
  /\ trouble' = (trouble \/ jammed)
  /\ burst' = AtMost(burst + 1, BurstLimit + 1)
  /\ UNCHANGED <<clock, cleanup, due, jammed, frames, failed>>

(* The editor starts or stops refusing to close floats. *)
Jam ==
  /\ failed < MaxFaults
  /\ jammed' = ~jammed
  /\ failed' = failed + 1
  /\ UNCHANGED <<clock, cleanup, due, work, idle, trouble, burst, frames>>

RenderCleanupApplied ==
  /\ work # <<>>
  /\ Head(work).kind = "report"
  /\ Becomes(ReduceApplied([State EXCEPT !.work = Tail(work)], Head(work).what, Head(work).at))
  /\ UNCHANGED <<clock, idle, jammed, trouble, burst, frames, failed>>

Next ==
  \/ Tick \/ Invalidate \/ Schedule
  \/ TimerFires \/ TimerLost \/ AnimationTimerLost \/ RetainedObserved
  \/ Jam \/ ExecuteCleanup \/ RenderCleanupApplied

Spec == Init /\ [][Next]_vars

-----------------------------------------------------------------------------
(* A cleanup that is not done is timed, under way, or waits for a frame      *)
(* because its timer could not be started.                                   *)
CleanupIsOwed == cleanup.phase = "Cold" \/ cleanup.quiesced \/ due # 0 \/ work # <<>>

(* Keep disposal incremental while compaction succeeds: the purge, which     *)
(* also closes what may stay, is ordered only after something has failed.    *)
PurgeIsFallback ==
  \A i \in DOMAIN work :
    work[i].kind = "execute" /\ work[i].what = "CompactToZero" => trouble

(* Back off instead of spinning at scheduler speed. *)
NoSpinning == burst <= BurstLimit

(* A deadline is never farther away than the longest of the delays. *)
DeadlinesInReach ==
  cleanup.phase # "Cold" =>
    cleanup.next <= AtLeast(HardDelay, MaxRetryDelay) + clock

CleanupIsPaced == CleanupIsOwed /\ PurgeIsFallback /\ NoSpinning /\ DeadlinesInReach
=============================================================================
