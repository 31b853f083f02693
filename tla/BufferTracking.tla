---------------------------- MODULE BufferTracking ----------------------------
(* Buffers and windows as the autocmds plugin follows them (lib.rs): the     *)
(* list of recent buffers behind switch_to_last_buffer, the last Oil buffer  *)
(* of each window, and the directory that BufEnter gives a window.  Events   *)
(* can be suppressed (:noautocmd), so what is remembered may be stale.       *)
(*                                                                           *)
(* The windows are those of one tab page, numbered in the order bufwinid     *)
(* looks at them.  A buffer has one directory; of a file it is that of its   *)
(* name, of an Oil buffer what get_current_dir answers, and it exists.       *)
EXTENDS Naturals, SequencesExt

CONSTANTS Files,       \* buffers with the name of a file
          OilBufs,     \* buffers with an oil:// name
          EditorWins,  \* window numbers
          NoBuf,       \* no buffer, no directory
          MaxRecent,   \* MAX_RECENT_BUFFERS
          MaxCommands  \* bound: what the user does

VARIABLES
  buffers,   \* per buffer: "listed", "unlisted", or "gone" when it is wiped
  views,     \* per window: the buffer it shows; NoBuf is one without a name
  open,      \* the windows that are open
  at,        \* the current window
  recent,    \* BufferMruState::recent, the most recent first
  oilOf,     \* OilLastBufState: per window its last Oil buffer, or NoBuf
  lcd,       \* per window, the buffer whose directory it was given
  dashboard, \* scheduled calls of maybe_show_dashboard
  reply,     \* what the last call answered
  entered,   \* history: the buffers whose BufEnter ran, the latest first
  commands   \* counter of the bound MaxCommands

vars == <<buffers, views, open, at, recent, oilOf, lcd, dashboard, reply, entered, commands>>

Buffers == Files \cup OilBufs

Init ==
  /\ buffers = [b \in Buffers |-> IF b \in OilBufs THEN "unlisted" ELSE "listed"]
  /\ views = [w \in EditorWins |-> NoBuf]
  /\ open = EditorWins
  /\ at \in EditorWins
  /\ recent = <<>>
  /\ oilOf = [w \in EditorWins |-> NoBuf]
  /\ lcd = [w \in EditorWins |-> NoBuf]
  /\ dashboard = 0
  /\ reply = NoBuf
  /\ entered = <<>>
  /\ commands = 0

-----------------------------------------------------------------------------
Tracked(b) == b # NoBuf /\ (buffers[b] = "listed" \/ (b \in OilBufs /\ buffers[b] # "gone"))

(* BufferMruState::enter. *)
Entered(list, b) ==
  LET others == <<b>> \o SelectSeq(list, LAMBDA x : x # b)
  IN SubSeq(others, 1, IF Len(others) < MaxRecent THEN Len(others) ELSE MaxRecent)

WithFirst(list, b) == <<b>> \o SelectSeq(list, LAMBDA x : x # b)

(* bufwinid: the first window that shows the buffer. *)
WindowOf(shown, b) ==
  LET W == {w \in open : shown[w] = b}
  IN CHOOSE w \in W : \A v \in W : w <= v

(* OilLastBufState::reduce for OilBufEntered and BufWiped. *)
OilBufEntered(w, b) == IF b \in OilBufs THEN [oilOf EXCEPT ![w] = b] ELSE oilOf
BufWiped(b) == [w \in EditorWins |-> IF oilOf[w] = b THEN NoBuf ELSE oilOf[w]]

-----------------------------------------------------------------------------
(* What BufEnter does for a buffer that a window shows: on_file_cwd, and     *)
(* on_oil_buf for an Oil buffer.                                             *)
OnFileCwd(b, shown) ==
  LET w == WindowOf(shown, b)
  IN /\ recent' = Entered(recent, b)
     /\ entered' = WithFirst(entered, b)
     /\ oilOf' = OilBufEntered(w, b)
     /\ lcd' = [lcd EXCEPT ![w] = b]

NoEvent == UNCHANGED <<recent, entered, oilOf, lcd>>

Command == commands < MaxCommands /\ commands' = commands + 1

(* A window shows a buffer and becomes the current one; entering a buffer    *)
(* by name lists it again, unless it is an Oil buffer.                       *)
Edit(w, b, noticed) ==
  /\ Command
  /\ w \in open /\ buffers[b] # "gone"
  /\ ~noticed => Tracked(b)
  /\ views' = [views EXCEPT ![w] = b]
  /\ at' = w
  /\ buffers' = IF b \in Files THEN [buffers EXCEPT ![b] = "listed"] ELSE buffers
  /\ IF noticed THEN OnFileCwd(b, [views EXCEPT ![w] = b]) ELSE NoEvent
  /\ reply' = NoBuf
  /\ UNCHANGED <<open, dashboard>>

(* on_win_closed.  The last window stays. *)
CloseWindow(w, noticed) ==
  /\ Command
  /\ w \in open /\ open # {w}
  /\ open' = open \ {w}
  /\ at' \in IF at = w THEN open \ {w} ELSE {at}
  /\ oilOf' = IF noticed THEN [oilOf EXCEPT ![w] = NoBuf] ELSE oilOf
  /\ reply' = NoBuf
  /\ UNCHANGED <<buffers, views, recent, lcd, dashboard, entered>>

(* BufferMruState::wipe. *)
Wiped(list, b) == SelectSeq(list, LAMBDA x : x # b)

(* Windows on a buffer that is deleted or wiped show one without a name.     *)
Leave(b) == [w \in EditorWins |-> IF views[w] = b THEN NoBuf ELSE views[w]]

(* :bwipeout, with on_buf_wipeout and on_dashboard_delete when events run.   *)
WipeBuffer(b, noticed) ==
  /\ Command
  /\ buffers[b] # "gone"
  /\ buffers' = [buffers EXCEPT ![b] = "gone"]
  /\ views' = Leave(b)
  /\ recent' = IF noticed THEN Wiped(recent, b) ELSE recent
  /\ oilOf' = IF noticed THEN BufWiped(b) ELSE oilOf
  /\ dashboard' = IF noticed THEN dashboard + 1 ELSE dashboard
  /\ reply' = NoBuf
  /\ UNCHANGED <<open, at, lcd, entered>>

(* :bdelete keeps the buffer, unlisted. *)
DeleteBuffer(b) ==
  /\ Command
  /\ buffers[b] = "listed"
  /\ buffers' = [buffers EXCEPT ![b] = "unlisted"]
  /\ views' = Leave(b)
  /\ dashboard' = dashboard + 1
  /\ reply' = NoBuf
  /\ UNCHANGED <<open, at, recent, oilOf, lcd, entered>>

-----------------------------------------------------------------------------
(* The plugin's calls. *)

(* Fault: the list is searched as it is. *)
Unpruned(list) == list

(* The retain of BufferMruState::previous_buffer. *)
Pruned(list) == SelectSeq(list, Tracked)

(* switch_to_last_buffer: what it goes to fires BufEnter in turn. *)
SwitchToLastBuffer ==
  LET kept == Pruned(recent)
      others == SelectSeq(kept, LAMBDA b : b # views[at])
      first == IF others = <<>> THEN NoBuf ELSE Head(others)
      to == IF first = NoBuf THEN NoBuf ELSE IF buffers[first] = "gone" THEN NoBuf ELSE first
      shown == [views EXCEPT ![at] = to]
  IN /\ Command
     /\ reply' = [call |-> "last", from |-> views[at], to |-> to, past |-> entered]
     /\ IF to = NoBuf
        THEN recent' = kept /\ UNCHANGED <<views, entered, oilOf, lcd>>
        ELSE /\ views' = shown
             /\ LET w == WindowOf(shown, to)
                IN /\ recent' = Entered(kept, to)
                   /\ entered' = WithFirst(entered, to)
                   /\ oilOf' = OilBufEntered(w, to)
                   /\ lcd' = [lcd EXCEPT ![w] = to]
     /\ UNCHANGED <<buffers, open, at, dashboard>>

(* Fault: the mapping is answered without a look at the buffer. *)
AnyMapping(b) == TRUE

(* is_valid_buffer_handle. *)
StillValid(b) == buffers[b] # "gone"

(* oil_last_buf_for_win: a mapping to a buffer that is gone is dropped.      *)
OilLastBufForWin(w) ==
  LET b == IF w \in open THEN oilOf[w] ELSE NoBuf
  IN /\ b # NoBuf
     /\ reply' = [call |-> "oil", win |-> w, buf |-> IF StillValid(b) THEN b ELSE NoBuf]
     /\ oilOf' = IF StillValid(b) THEN oilOf ELSE [oilOf EXCEPT ![w] = NoBuf]
     /\ UNCHANGED <<buffers, views, open, at, recent, lcd, dashboard, entered, commands>>

(* maybe_show_dashboard, from the schedule of an earlier BufDelete: only in  *)
(* a buffer without a buftype, and only if nothing with a name is listed.    *)
MaybeShowDashboard ==
  /\ dashboard > 0
  /\ dashboard' = dashboard - 1
  /\ reply' = [call |-> "dashboard",
               shown |-> views[at] \notin OilBufs /\ \A b \in Buffers : buffers[b] # "listed"]
  /\ UNCHANGED <<buffers, views, open, at, recent, oilOf, lcd, entered, commands>>

Next ==
  \/ \E w \in EditorWins, b \in Buffers, noticed \in BOOLEAN : Edit(w, b, noticed)
  \/ \E w \in EditorWins, noticed \in BOOLEAN : CloseWindow(w, noticed)
  \/ \E b \in Buffers, noticed \in BOOLEAN : WipeBuffer(b, noticed)
  \/ \E b \in Buffers : DeleteBuffer(b)
  \/ SwitchToLastBuffer
  \/ \E w \in EditorWins : OilLastBufForWin(w)
  \/ MaybeShowDashboard

Spec == Init /\ [][Next]_vars

-----------------------------------------------------------------------------
IsReply(call) == IF reply = NoBuf THEN FALSE ELSE reply.call = call

(* switch_to_last_buffer goes to a buffer that can still be shown, other     *)
(* than the one it leaves, and to the one of them that was entered last,     *)
(* whatever was wiped, unlisted or entered without events in between; it     *)
(* stays only if the MaxRecent buffers that were entered last have none.     *)
LastBufferIsMostRecent ==
  IsReply("last") =>
    LET past == reply.past
        Candidate(b) == Tracked(b) /\ b # reply.from
    IN IF reply.to = NoBuf
       THEN \A i \in DOMAIN past : i <= MaxRecent => ~Candidate(past[i])
       ELSE /\ Candidate(reply.to)
            /\ \A i \in DOMAIN past : Candidate(past[i]) =>
                 \E j \in 1 .. i : past[j] = reply.to

(* The answer about a window is an Oil buffer that exists and that BufEnter  *)
(* has met, even when its wiping went unnoticed.                             *)
OilBuffersAreLive ==
  IsReply("oil") /\ reply.buf # NoBuf =>
    /\ reply.buf \in OilBufs /\ buffers[reply.buf] # "gone"
    /\ reply.buf \in ToSet(entered)
=============================================================================
