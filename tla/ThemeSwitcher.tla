---------------------------- MODULE ThemeSwitcher ----------------------------
(* The colour scheme picker of the theme-switcher plugin: the reducer of one *)
(* session (core/reducer.rs), how an index is chosen (core/selection.rs),    *)
(* and the session, window, colour scheme and stored name around it          *)
(* (picker.rs).                                                              *)
(*                                                                           *)
(* Calls run on the main thread to their end, so each call is one action.    *)
(* What Neovim and the file system may refuse (a colour scheme, a file, a    *)
(* rendering, a window) is chosen freely at every call.                      *)
EXTENDS Naturals, Sequences, FiniteSets

CONSTANTS Schemes,       \* names of colour schemes
          Catalogs,      \* sequences of colour schemes that a caller offers
          PickerWins,    \* 1 .. n, the bound n on the windows that are opened
          NoScheme,      \* no name, no session
          MaxSwitches    \* bound: colour schemes applied

VARIABLES
  session,    \* the PickerSession, or NoScheme
  scheme,     \* the colour scheme of the editor
  stored,     \* the name in the file at state_path, NoScheme if there is none
  windows,    \* per window: unused, picker, other (buffer replaced), closed, or
              \* stranded: left open because its setup or its closing failed
  marked,     \* the theme lines with the "> " prefix in the session's window
  applied,    \* history: names the editor accepted, and the first stored one
  switches    \* counter of the bound MaxSwitches

vars == <<session, scheme, stored, windows, marked, applied, switches>>

Init ==
  /\ session = NoScheme
  /\ scheme \in Schemes
  /\ stored \in Schemes \cup {NoScheme}
  /\ windows = [w \in PickerWins |-> "unused"]
  /\ marked = {}
  /\ applied = {stored}
  /\ switches = 0

-----------------------------------------------------------------------------
(* The catalogue.  An index is a position; 0 stands for None.                *)

(* find_by_colorscheme: of two themes with one colour scheme, the first.     *)
FindByColorscheme(catalog, name) ==
  LET S == {i \in DOMAIN catalog : catalog[i] = name}
  IN IF S = {} THEN 0 ELSE CHOOSE i \in S : \A j \in S : i <= j

NextWrapped(catalog, i) == IF i = Len(catalog) THEN 1 ELSE i + 1
PrevWrapped(catalog, i) == IF i = 1 THEN Len(catalog) ELSE i - 1

(* cycle_theme_index_from_index: from no index, the first or the last theme. *)
CycleThemeIndex(catalog, i, forward) ==
  IF forward THEN (IF i = 0 THEN 1 ELSE NextWrapped(catalog, i))
  ELSE IF i = 0 THEN Len(catalog) ELSE PrevWrapped(catalog, i)

(* resolve_effective_theme_index, of the stored and of the current name.     *)
ResolveEffectiveIndex(catalog, persisted, current) ==
  LET p == FindByColorscheme(catalog, persisted)
  IN IF p # 0 THEN p ELSE FindByColorscheme(catalog, current)

(* The name the store gives: none if the caller has no path or reading fails.*)
ReadPersisted(path) == IF path THEN {stored, NoScheme} ELSE {NoScheme}

-----------------------------------------------------------------------------
(* The editor and the file. *)

(* close_window, the windows it may leave: one that is gone is left alone,   *)
(* and closing a window may fail.                                            *)
CloseWindow(w) ==
  CASE windows[w] = "picker" -> {[windows EXCEPT ![w] = "closed"],
                                 [windows EXCEPT ![w] = "stranded"]}
    [] windows[w] = "other" -> {windows, [windows EXCEPT ![w] = "closed"]}
    [] OTHER -> {windows}

(* Fault: a picker that is open stays open when the next call begins.        *)
LeaveActiveSession == {windows}

(* close_active_session. *)
CloseActiveSession == IF session = NoScheme THEN {windows} ELSE CloseWindow(session.win)

NoSession == session' = NoScheme /\ marked' = {}

(* apply_colorscheme, and what is left when the editor refuses. *)
Switch(name) ==
  /\ switches < MaxSwitches /\ switches' = switches + 1
  /\ scheme' = name
  /\ applied' = applied \cup {name}

Refused ==
  /\ switches < MaxSwitches /\ switches' = switches + 1
  /\ UNCHANGED <<scheme, applied>>

ApplyColorscheme(name) == (Switch(name) \/ Refused) /\ UNCHANGED stored

(* Fault: the name is stored whether it could be applied or not. *)
PersistAnyway(name, path) ==
  /\ Switch(name) \/ Refused
  /\ stored' = IF path THEN name ELSE stored

(* apply_then_persist: only a name that was applied is stored, if there is a *)
(* path and the write succeeds.                                              *)
ApplyThenPersist(name, path) ==
  \/ Switch(name) /\ path /\ stored' = name
  \/ Switch(name) /\ UNCHANGED stored
  \/ Refused /\ UNCHANGED stored

-----------------------------------------------------------------------------
(* Opening and cycling. *)

(* session_from_args.  intact is the model's note that every rendering of    *)
(* the session succeeded.                                                    *)
OpenedSession(catalog, path, current, index, w) ==
  LET start == IF index = 0 THEN 1 ELSE index
  IN [catalog |-> catalog, path |-> path, win |-> w, persisted |-> start, cursor |-> start,
      restore |-> IF index = 0 THEN current ELSE NoScheme,
      intact |-> TRUE]

(* render_session writes every line; it may fail. *)
RenderSession(s) ==
  \/ session' = s /\ marked' = {s.cursor}
  \/ session' = [s EXCEPT !.intact = FALSE] /\ marked' = {}

(* open.  The session that is there is closed without restoring anything; if *)
(* the new window is opened and cannot be set up, it stays.                  *)
Open(catalog, path, current) ==
  \E w \in PickerWins, ws \in CloseActiveSession, name \in ReadPersisted(path) :
    /\ windows[w] = "unused" /\ \A v \in 1 .. (w - 1) : windows[v] # "unused"
    /\ LET index == ResolveEffectiveIndex(catalog, name, current)
       IN \/ /\ windows' = [ws EXCEPT ![w] = "picker"]
             /\ RenderSession(OpenedSession(catalog, path, current, index, w))
          \/ /\ windows' = ws \/ windows' = [ws EXCEPT ![w] = "stranded"]
             /\ NoSession
    /\ UNCHANGED <<scheme, stored, applied, switches>>

(* cycle_next and cycle_prev. *)
Cycle(catalog, path, current, forward) ==
  \E ws \in CloseActiveSession, name \in ReadPersisted(path) :
    LET index == ResolveEffectiveIndex(catalog, name, current)
        target == catalog[CycleThemeIndex(catalog, index, forward)]
    IN /\ windows' = ws
       /\ NoSession
       /\ ApplyThenPersist(target, path)

Close ==
  /\ windows' \in CloseActiveSession
  /\ NoSession
  /\ UNCHANGED <<scheme, stored, applied, switches>>

-----------------------------------------------------------------------------
(* Events of the picker. *)

(* has_valid_handles: the window is there and shows the picker's buffer.     *)
HasValidHandles == session # NoScheme /\ windows[session.win] = "picker"

(* dispatch_event and with_active_session drop a session whose window or     *)
(* buffer is gone.                                                           *)
DropDeadSession ==
  /\ session # NoScheme /\ ~HasValidHandles
  /\ NoSession
  /\ UNCHANGED <<scheme, stored, windows, applied, switches>>

(* Fault: the line the cursor leaves keeps its prefix. *)
MarkOnly(lines, previous, current) == lines \cup {current}

(* The two line updates of render_cursor_delta. *)
MarkMoved(lines, previous, current) == (lines \ {previous}) \cup {current}

(* render_cursor_delta may fail before either update or between the two.     *)
RenderCursorDelta(previous, current) ==
  \/ /\ marked' = MarkMoved(marked, previous, current)
     /\ session' = [session EXCEPT !.cursor = current]
  \/ /\ marked' \in {marked, marked \ {previous}}
     /\ session' = [session EXCEPT !.cursor = current, !.intact = FALSE]

(* reduce_move and the actions of PreviewTheme; the only theme of a          *)
(* catalogue is not previewed again.                                         *)
Move(forward) ==
  /\ HasValidHandles
  /\ LET next == CycleThemeIndex(session.catalog, session.cursor, forward)
     IN /\ next # session.cursor
        /\ ApplyColorscheme(session.catalog[next])
        /\ RenderCursorDelta(session.cursor, next)
  /\ UNCHANGED windows

(* reduce_confirm, then PersistTheme and ClosePicker. *)
Confirm ==
  /\ HasValidHandles
  /\ ApplyThenPersist(session.catalog[session.cursor], session.path)
  /\ windows' \in CloseWindow(session.win)
  /\ NoSession

(* The name RestoreTheme applies. *)
RestoredName ==
  IF session.restore # NoScheme THEN session.restore ELSE session.catalog[session.persisted]

(* reduce_cancel: the theme is restored only if the cursor has left it.      *)
Cancel ==
  /\ HasValidHandles
  /\ IF session.cursor # session.persisted
     THEN ApplyColorscheme(RestoredName)
     ELSE UNCHANGED <<scheme, applied, switches, stored>>
  /\ windows' \in CloseWindow(session.win)
  /\ NoSession

(* The user closes the picker's window, or shows another buffer in it: the   *)
(* picker's buffer is wiped out either way (bufhidden).                      *)
PickerIsLeft(w) ==
  /\ windows[w] \in {"picker", "stranded"}
  /\ windows' \in {[windows EXCEPT ![w] = "closed"], [windows EXCEPT ![w] = "other"]}
  /\ UNCHANGED <<session, scheme, stored, marked, applied, switches>>

Next ==
  \/ \E catalog \in Catalogs, path \in BOOLEAN, current \in {scheme, NoScheme} :
       \/ Open(catalog, path, current)
       \/ \E forward \in BOOLEAN : Cycle(catalog, path, current, forward)
  \/ Close
  \/ \E forward \in BOOLEAN : Move(forward)
  \/ Confirm
  \/ Cancel
  \/ DropDeadSession
  \/ \E w \in PickerWins : PickerIsLeft(w)

Spec == Init /\ [][Next]_vars

-----------------------------------------------------------------------------
(* The stored name is one the editor accepted: a colour scheme that cannot   *)
(* be loaded is never what the next start of the editor reads.               *)
StoredWasApplied == stored \in applied

(* Every picker on the screen is the session's, so that its keys act on what *)
(* it shows; while every rendering has succeeded, exactly the line of the    *)
(* session's cursor is marked in it.                                         *)
PickersAreAnswered ==
  \A w \in PickerWins : windows[w] = "picker" =>
    /\ session # NoScheme /\ session.win = w
    /\ session.intact => marked = {session.cursor}
=============================================================================
