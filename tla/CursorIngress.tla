---------------------------- MODULE CursorIngress ----------------------------
(***************************************************************************)
(* From an autocommand to the place the smear is told to be                *)
(* (events/ingress.rs, events/handlers/ingress_router, the base            *)
(* observation): what an event captures when it comes, what is left to     *)
(* read when its demand is observed, which events are dropped because      *)
(* nothing seems to have changed, and how far a scroll drags the smear.    *)
(*                                                                         *)
(* A cell of the screen is its row.  When a demand is started, and for how *)
(* long it is observed, is SmearCore's matter: here it may take any time.  *)
(***************************************************************************)
EXTENDS Integers, Sequences, FiniteSets, FiniteSetsExt, SequencesExt

CONSTANTS Windows,      \* the windows, and the first of them
          FirstWindow,
          Origin,       \* the row of the screen at which a window begins
          Rows,         \* the rows of a window
          Tall,         \* how many rows a line takes, the same in every buffer
          Buffers,
          FirstBuffer,
          Skipped,      \* buffers of the class Skip
          CommandRows,  \* where the command line may be
          SmearsToCommandLine,
          MaxFailures,  \* reads of a surface that fail
          MaxSteps,     \* what the user does
          Missing

VARIABLES editor,     \* the windows, the current one, the mode, the command row
          announced,  \* events of the last command, to be handled in turn
          viewport,   \* EditorViewportCache: a command row, or Missing
          demands,    \* the demand queue, by kind
          asked,      \* the demand being observed
          smear,      \* RuntimeState: the tracked cursor, its target, the pose
          newest,     \* ghost: the surface captured for the last demand queued
          overtaken,  \* ghost: an event was dropped over demands of elsewhere
          dragged,    \* ghost: the pose was moved off the text under it
          spent       \* steps of the user, and failures
vars == <<editor, announced, viewport, demands, asked, smear, newest,
          overtaken, dragged, spent>>

Line == DOMAIN Tall
RowsBetween(from, to) == FoldLeft(+, 0, [i \in 1..to - from |-> Tall[from + i - 1]])
CursorKinds == {"ExternalCursor", "ModeChanged", "BufferEntered"}

-----------------------------------------------------------------------------
(* The editor.                                                             *)
Row(s, line) == Origin[s.win] + RowsBetween(s.top, line)
InWindow(win, row) == row \in Origin[win]..Origin[win] + Rows - 1
Surface(win) == [win |-> win, buf |-> editor.wins[win].buf, top |-> editor.wins[win].top]
Current == Surface(editor.cur)
Sees(win, top, line) ==
  top <= line /\ InWindow(win, Row([win |-> win, buf |-> FirstBuffer, top |-> top], line))

(* Where a window's cursor is, as the mode and the command row in use say. *)
ReadCursor(win, mode, row) ==
  [line |-> editor.wins[win].line,
   cell |-> IF mode = "command" /\ ~SmearsToCommandLine THEN Missing
            ELSE IF mode = "command" /\ editor.mode = "command" THEN row
            ELSE Row(Surface(win), editor.wins[win].line)]
CommandRow == IF viewport # Missing THEN viewport ELSE editor.commandRow
Tracked(surface, cursor) == [surface |-> surface, line |-> cursor.line]

-----------------------------------------------------------------------------
(* Which events ask for the cursor, and which are followed up elsewhere.    *)
DemandKind(e) == CASE e = "ModeChanged" -> "ModeChanged"
                   [] e = "BufEnter" -> "BufferEntered"
                   [] OTHER -> "ExternalCursor"
RequestsObservation == {"CursorMoved", "CursorMovedI", "WinEnter", "WinScrolled",
                        "CmdlineChanged", "ModeChanged", "BufEnter"}
SupportsUnchangedFastPath == {"WinEnter", "WinScrolled", "BufEnter"}
RefreshesViewport == {"VimResized", "OptionSet"}

Pending == {k \in CursorKinds : demands.slots[k] # Missing}
Quiet == announced = <<>> /\ Pending = {} /\ asked = Missing

(* Fault: the demand that waits is kept.                                    *)
EnqueueKeepingOld(kind, read) ==
  IF demands.slots[kind] # Missing THEN demands
  ELSE [slots |-> [demands.slots EXCEPT ![kind] = [seq |-> demands.seq, read |-> read]],
        seq |-> demands.seq + 1]

(* DemandQueue: the newest demand of a kind, the oldest of them first.      *)
Enqueue(kind, read) ==
  [slots |-> [demands.slots EXCEPT ![kind] = [seq |-> demands.seq, read |-> read]],
   seq |-> demands.seq + 1]
NextReadyKind == CHOOSE k \in Pending :
  \A other \in Pending : demands.slots[k].seq <= demands.slots[other].seq

(* The fast path may be taken while the window and the buffer are tracked.  *)
TracksTheCurrent ==
  smear.tracked # Missing /\ smear.tracked.surface.win = editor.cur
                          /\ smear.tracked.surface.buf = Current.buf
(* Fault: the line of the cursor, and its cell, are not compared.           *)
SurfaceUnchanged(surface, cursor) == smear.tracked.surface = surface
ShouldDropUnchanged(surface, cursor) ==
  /\ smear.tracked = Tracked(surface, cursor)
  /\ cursor.cell # Missing
  /\ smear.target = cursor.cell
ShouldCoalesceFollowUp(e) ==
  e = "BufEnter" /\ smear.tracked # Missing /\ smear.tracked.surface.win # editor.cur

(* What the event leaves for its demand: nothing when no surface was read,  *)
(* no cursor unless the fast path had read it.                              *)
Capture(fast, reread) ==
  IF fast THEN [surface |-> Current, mode |-> editor.mode,
                cursor |-> ReadCursor(editor.cur, editor.mode, CommandRow)]
  ELSE IF reread THEN [surface |-> Current, mode |-> editor.mode, cursor |-> Missing]
  ELSE Missing

Reads == {ok \in BOOLEAN : ok \/ spent.failures < MaxFailures}
Failing(first, second) ==
  [spent EXCEPT !.failures = @ + (IF first THEN 0 ELSE 1) + (IF second THEN 0 ELSE 1)]

IngressReadSnapshot == [needsInitialize |-> ~smear.primed, skips |-> Current.buf \in Skipped]
TriesFastPath(e) ==
  /\ e \in SupportsUnchangedFastPath
  /\ ~IngressReadSnapshot.needsInitialize
  /\ TracksTheCurrent

Unchanged(fast) ==
  fast /\ ShouldDropUnchanged(Current, ReadCursor(editor.cur, editor.mode, CommandRow))
Ignored(e) == IngressReadSnapshot.skips \/ ShouldCoalesceFollowUp(e)

(* The command row is looked up by a fast read of the command line's cursor,*)
(* and by the presentation prepared with a demand of the cursor.            *)
Looked(fast) ==
  IF fast /\ editor.mode = "command" /\ SmearsToCommandLine THEN CommandRow ELSE viewport
Presented(e, fast) == IF DemandKind(e) = "ExternalCursor" THEN CommandRow ELSE Looked(fast)

DropUnchanged(fast) ==
  /\ Unchanged(fast)
  /\ viewport' = Looked(fast)
  /\ overtaken' = (overtaken \/ Pending # {} \/ asked # Missing)
  /\ UNCHANGED <<demands, smear, newest>>
DropIgnored(e, fast) ==
  /\ ~Unchanged(fast) /\ Ignored(e)
  /\ viewport' = Looked(fast)
  /\ overtaken' = (overtaken \/ (~IngressReadSnapshot.skips /\ newest # Current))
  /\ UNCHANGED <<demands, smear, newest>>
QueueDemand(e, fast, reread) ==
  /\ ~Unchanged(fast) /\ ~Ignored(e)
  /\ viewport' = Presented(e, fast)
  /\ smear' = [smear EXCEPT !.primed = TRUE]
  /\ demands' = Enqueue(DemandKind(e), Capture(fast, reread))
  /\ newest' = IF Capture(fast, reread) = Missing THEN Missing ELSE Current
  /\ overtaken' = FALSE

OnCursorEvent(e) ==
  \E first \in Reads, second \in Reads :
    LET fast == TriesFastPath(e) /\ first
    IN /\ (~TriesFastPath(e) => first) /\ (fast => second)
       /\ Failing(first, second).failures <= MaxFailures
       /\ spent' = Failing(first, second)
       /\ DropUnchanged(fast) \/ DropIgnored(e, fast) \/ QueueDemand(e, fast, second)

OnOtherEvent(e) ==
  /\ viewport' = IF e \in RefreshesViewport THEN editor.commandRow ELSE viewport
  /\ UNCHANGED <<demands, smear, newest, overtaken, spent>>

OnAutocmd ==
  /\ announced # <<>>
  /\ announced' = Tail(announced)
  /\ IF Head(announced) \in RequestsObservation
     THEN OnCursorEvent(Head(announced)) ELSE OnOtherEvent(Head(announced))
  /\ UNCHANGED <<editor, asked, dragged>>

-----------------------------------------------------------------------------
(* Observing a demand: it is taken from the queue with what it captured,    *)
(* the rest is read when the scheduled effect runs, and the plan made from  *)
(* it is committed when its probes have answered; neither happens between   *)
(* the events of one command.                                               *)
Start ==
  /\ asked = Missing /\ Pending # {}
  /\ asked' = [stage |-> "requested", read |-> demands.slots[NextReadyKind].read,
               pose |-> smear.pose]
  /\ demands' = [demands EXCEPT !.slots[NextReadyKind] = Missing]
  /\ UNCHANGED <<editor, announced, viewport, smear, newest, overtaken, dragged, spent>>

(* How many rows the text moved up between two top lines of one window.     *)
ScreenDistance(from, to) ==
  LET upper == Min({from, to})
      lower == Max({from, to})
      distance == IF lower - upper >= Rows THEN Rows - 1
                  ELSE RowsBetween(upper, lower + 1) - 1
  IN IF from > to THEN -distance ELSE distance

SameSurfaceMoved(old, new) == old.win = new.win /\ old.buf = new.buf /\ old.top # new.top

(* Fault: the smear is dragged down when the text moves up.                 *)
ScrollShiftTurned(pose, surface) ==
  IF smear.tracked = Missing \/ pose >= CommandRow THEN 0
  ELSE IF SameSurfaceMoved(smear.tracked.surface, surface)
       THEN ScreenDistance(surface.top, smear.tracked.surface.top) ELSE 0

ScrollShift(pose, surface) ==
  IF smear.tracked = Missing \/ pose >= CommandRow THEN 0
  ELSE IF SameSurfaceMoved(smear.tracked.surface, surface)
       THEN ScreenDistance(smear.tracked.surface.top, surface.top) ELSE 0

(* What the demand captured stands for what it would read now.              *)
EditorSeen ==
  IF asked.read = Missing THEN [mode |-> editor.mode, surface |-> Current]
  ELSE [mode |-> asked.read.mode, surface |-> asked.read.surface]
CursorSeen ==
  IF asked.read # Missing /\ asked.read.cursor # Missing THEN asked.read.cursor
  ELSE ReadCursor(EditorSeen.surface.win, EditorSeen.mode, CommandRow)

Collect ==
  /\ announced = <<>> /\ asked # Missing /\ asked.stage = "requested"
  /\ asked' = [stage |-> "collected", mode |-> EditorSeen.mode,
               surface |-> EditorSeen.surface, cursor |-> CursorSeen,
               shift |-> ScrollShift(asked.pose, EditorSeen.surface)]
  /\ viewport' = CommandRow
  /\ UNCHANGED <<editor, announced, demands, smear, newest, overtaken, dragged, spent>>

(* The text under a row of a surface: the line, and the row within it.      *)
TextAt(surface, row) ==
  {<<l, k>> \in Line \X (0..Max({Tall[l] : l \in Line}) - 1) :
     /\ l >= surface.top /\ k < Tall[l] /\ row = Row(surface, l) + k}
Clamped(win, row) == Max({Origin[win], Min({row, Origin[win] + Rows - 1})})
Shifted(pose, o) == IF o.shift = 0 THEN pose ELSE Clamped(o.surface.win, pose - o.shift)

(* The pose follows the text it was on while that is in the window, but for *)
(* a wrapped line at the lower of the two tops.                             *)
Follows(o) ==
  LET old == smear.tracked.surface
      kept == {t \in TextAt(old, smear.pose) :
                 \E r \in Origin[old.win]..Origin[old.win] + Rows - 1 :
                   t \in TextAt(o.surface, r)}
  IN (InWindow(old.win, smear.pose) /\ Tall[Max({old.top, o.surface.top})] = 1)
       => kept \subseteq TextAt(o.surface, Shifted(smear.pose, o))

Commit ==
  /\ announced = <<>> /\ asked # Missing /\ asked.stage = "collected"
  /\ asked' = Missing
  /\ \/ /\ asked.mode = "command" /\ ~SmearsToCommandLine
        /\ UNCHANGED <<smear, dragged>>
     \/ /\ asked.mode # "command" \/ SmearsToCommandLine
        /\ \E jumps \in BOOLEAN :
             smear' = [smear EXCEPT
               !.tracked = Tracked(asked.surface, asked.cursor),
               !.target = asked.cursor.cell,
               !.pose = IF jumps \/ smear.tracked = Missing THEN asked.cursor.cell
                        ELSE Shifted(smear.pose, asked)]
        /\ dragged' = (dragged \/ (asked.shift # 0 /\ ~Follows(asked)))
  /\ UNCHANGED <<editor, announced, viewport, demands, newest, overtaken, spent>>

Animate ==
  /\ announced = <<>> /\ smear.pose # smear.target
  /\ smear' = [smear EXCEPT !.pose = smear.target]
  /\ UNCHANGED <<editor, announced, viewport, demands, asked, newest, overtaken,
                 dragged, spent>>

-----------------------------------------------------------------------------
(* The user, and the events the editor announces.                           *)
Does(events, state) ==
  /\ announced = <<>> /\ spent.steps < MaxSteps
  /\ spent' = [spent EXCEPT !.steps = @ + 1]
  /\ announced' = events
  /\ editor' = state
  /\ UNCHANGED <<viewport, demands, asked, smear, newest, overtaken, dragged>>

SwitchWindow == \E w \in Windows \ {editor.cur} :
  /\ editor.mode = "normal"
  /\ Does(IF editor.wins[w].buf = Current.buf THEN <<"WinEnter">> ELSE <<"WinEnter", "BufEnter">>,
          [editor EXCEPT !.cur = w])

EnterBuffer == \E b \in Buffers \ {Current.buf} :
  /\ editor.mode = "normal"
  /\ Does(<<"BufEnter">>,
          [editor EXCEPT !.wins[editor.cur] = [buf |-> b, top |-> 1, line |-> 1]])

(* The cursor moves, and the window scrolls as far as it must.              *)
MoveCursor == \E l \in Line \ {editor.wins[editor.cur].line} :
  LET tops == {t \in Line : Sees(editor.cur, t, l)}
      old == Current.top
      top == IF old \in tops THEN old ELSE CHOOSE t \in tops :
               \A u \in tops : (t - old) * (t - old) <= (u - old) * (u - old)
  IN /\ editor.mode = "normal"
     /\ Does(IF top = old THEN <<"CursorMoved">> ELSE <<"CursorMoved", "WinScrolled">>,
             [editor EXCEPT !.wins[editor.cur].line = l, !.wins[editor.cur].top = top])

Scroll == \E t \in Line \ {Current.top} :
  /\ Sees(editor.cur, t, editor.wins[editor.cur].line)
  /\ Does(<<"WinScrolled">>, [editor EXCEPT !.wins[editor.cur].top = t])

TurnCommandLine ==
  Does(<<"ModeChanged">>,
       [editor EXCEPT !.mode = IF @ = "normal" THEN "command" ELSE "normal"])

TypeCommand == editor.mode = "command" /\ Does(<<"CmdlineChanged">>, editor)

ResizeCommandLine == \E r \in CommandRows \ {editor.commandRow}, e \in RefreshesViewport :
  /\ editor.mode = "normal"
  /\ Does(<<e>>, [editor EXCEPT !.commandRow = r])

Init ==
  /\ \E r \in CommandRows :
       editor = [wins |-> [w \in Windows |-> [buf |-> FirstBuffer, top |-> 1, line |-> 1]],
                 cur |-> FirstWindow, mode |-> "normal", commandRow |-> r]
  /\ announced = <<>> /\ viewport = Missing
  /\ demands = [slots |-> [k \in CursorKinds |-> Missing], seq |-> 1]
  /\ asked = Missing
  /\ smear = [primed |-> FALSE, tracked |-> Missing, target |-> Missing, pose |-> Missing]
  /\ newest = Missing /\ overtaken = FALSE /\ dragged = FALSE
  /\ spent = [steps |-> 0, failures |-> 0]

Next == \/ OnAutocmd \/ Start \/ Collect \/ Commit \/ Animate
        \/ SwitchWindow \/ EnterBuffer \/ MoveCursor \/ Scroll
        \/ TurnCommandLine \/ TypeCommand \/ ResizeCommandLine
Spec == Init /\ [][Next]_vars

-----------------------------------------------------------------------------
LiveCursor == ReadCursor(editor.cur, editor.mode, editor.commandRow)
AtTheCursor == /\ smear.tracked = Tracked(Current, LiveCursor)
               /\ smear.target = LiveCursor.cell
Followed == /\ Quiet /\ smear.primed /\ Current.buf \notin Skipped
            /\ editor.mode # "command" \/ SmearsToCommandLine

(* Whatever was captured, replaced, reread or dropped on the way, when      *)
(* everything has been observed the smear is told to be where the cursor    *)
(* is, unless the last word was an event dropped over older demands, or one *)
(* taken for the follow-up of a demand that was never queued                *)
(* (cursor_autocmd.rs, base.rs).                                            *)
SmearReachesTheCursor == Followed /\ ~overtaken => AtTheCursor

(* Without the exception: what was captured at ingress never leaves the     *)
(* smear at a place the cursor has left (core/state/ingress.rs).            *)
SmearAlwaysReachesTheCursor == Followed => AtTheCursor

(* A scroll drags a smear with the text it is on, once per scroll, whenever *)
(* the scroll is observed (handlers/viewport.rs).                           *)
ScrollsDragWithTheText == ~dragged

(* The command row and the bounds in use are those of the editor, once the  *)
(* events of a resize are handled (runtime/editor_viewport.rs).             *)
ViewportIsCurrent == announced = <<>> => viewport \in {Missing, editor.commandRow}
=============================================================================
