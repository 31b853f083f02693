----------------------------- MODULE WeztermSync -----------------------------
(* The WezTerm integration of the autocmds plugin: the tab title and the     *)
(* working directory that the terminal shows are brought up to date by a     *)
(* worker thread.  Two update slots (machines/wezterm) decide what is sent,  *)
(* a bounded channel carries work items to the worker, and a deque carries   *)
(* the results back, noticed by an async handle or, when that fails, by the  *)
(* next autocommand (integrations/wezterm.rs).                               *)
(*                                                                           *)
(* A title is the one derive_tab_title makes, None when the buffer has no    *)
(* project root.  Statistics are left out.  A write that fails may still     *)
(* have reached the terminal: what standard output buffered is sent later.   *)
EXTENDS Naturals, SequencesExt

CONSTANTS Targets,      \* values of a title or a directory
          Nothing,      \* no value
          QueueLimit,   \* WEZTERM_WORKER_QUEUE_CAPACITY
          DrainBatch,   \* completion_drain_batch_size
          MaxSyncs      \* bound: syncs that get past the debounce

Channels == {"title", "cwd"}

VARIABLES
  slots,      \* WEZTERM_STATE: per channel, applied, inFlight and queued
  queue,      \* the channel to the worker: sequences of one or two commands
  worker,     \* what the worker thread is doing
  completed,  \* WeztermDispatcherShared::completed
  notice,     \* mode, whether there is a handle, a send of it not yet served,
              \*   degraded_warning_pending
  terminal,   \* per channel, what the terminal shows, and whether that is sure
  faults,     \* history: the ways a result or a command has been lost track of
  syncs       \* counter of the bound MaxSyncs

vars == <<slots, queue, worker, completed, notice, terminal, faults, syncs>>

Idle == [doing |-> "waiting", item |-> <<>>, results |-> <<>>]

Init ==
  /\ slots = [c \in Channels |-> [applied |-> Nothing, inFlight |-> Nothing, queued |-> Nothing]]
  /\ queue = <<>>
  /\ worker \in {Idle, [Idle EXCEPT !.doing = "gone"]}        \* the spawn may fail
  /\ completed = <<>>
  /\ \E handle \in BOOLEAN :
       notice = [healthy |-> handle, handle |-> handle, sent |-> FALSE, warn |-> FALSE]
  /\ terminal = [c \in Channels |-> [shown |-> Nothing, sure |-> TRUE]]
  /\ faults = {}
  /\ syncs = 0

-----------------------------------------------------------------------------
(* The update slots: each operation gives the slot and the value to send.    *)

(* UpdateSlot::request. *)
Request(slot, target) ==
  IF target \in {slot.applied, slot.inFlight, slot.queued}
  THEN [slot |-> slot, send |-> Nothing]
  ELSE IF slot.inFlight # Nothing
  THEN [slot |-> [slot EXCEPT !.queued = target], send |-> Nothing]
  ELSE [slot |-> [slot EXCEPT !.inFlight = target], send |-> target]

(* UpdateSlot::start_queued, in a slot with nothing in flight. *)
StartQueued(slot) ==
  LET next == IF slot.queued = slot.applied THEN Nothing ELSE slot.queued
  IN [slot |-> [slot EXCEPT !.queued = Nothing, !.inFlight = next], send |-> next]

(* Fault: a success is not remembered. *)
ForgetApplied(slot, command) == StartQueued([slot EXCEPT !.inFlight = Nothing])

(* UpdateSlot::complete_success, of the value in flight. *)
CompleteSuccess(slot, command) ==
  StartQueued([slot EXCEPT !.applied = command.value, !.inFlight = Nothing])

(* WeztermState::complete_slot: all slots after a result, and what to send.  *)
(* A result of another value than the one in flight changes nothing, but an  *)
(* unavailable terminal clears what both channels wait for.                  *)
CompleteSlot(all, command, outcome) ==
  LET slot == all[command.channel]
      next == CASE slot.inFlight # command.value -> [slot |-> slot, send |-> Nothing]
                [] outcome = "success" -> CompleteSuccess(slot, command)
                [] OTHER -> StartQueued([slot EXCEPT !.inFlight = Nothing])
  IN IF outcome = "unavailable"
     THEN [slots |-> [c \in Channels |-> [all[c] EXCEPT !.inFlight = Nothing, !.queued = Nothing]],
           send |-> Nothing]
     ELSE [slots |-> [all EXCEPT ![command.channel] = next.slot], send |-> next.send]

-----------------------------------------------------------------------------
(* Dispatch.  State of the main thread: the slots and the worker's channel.  *)

Accepts(q) == worker.doing # "gone" /\ Len(q) < QueueLimit

(* Fault: what the channel does not take is forgotten. *)
ForgetRefused(all, item) == all

(* on_wezterm_dispatch_error: each command of the item has failed.  Nothing  *)
(* is queued behind a command that is only now sent, so nothing more starts. *)
Refused(all, item) ==
  LET InItem(c) == \E i \in DOMAIN item : item[i].channel = c /\ item[i].value = all[c].inFlight
  IN [c \in Channels |-> IF InItem(c) THEN StartQueued([all[c] EXCEPT !.inFlight = Nothing]).slot
                         ELSE all[c]]

(* start_wezterm_work_item. *)
StartWorkItem(main, item) ==
  IF item = <<>> THEN main
  ELSE IF Accepts(main.queue) THEN [main EXCEPT !.queue = Append(@, item)]
  ELSE [main EXCEPT !.slots = Refused(@, item)]

Command(channel, value) ==
  IF value = Nothing THEN <<>> ELSE <<[channel |-> channel, value |-> value]>>

(* on_wezterm_command_completion. *)
OnCompletion(main, result) ==
  LET next == CompleteSlot(main.slots, result.command, result.outcome)
  IN StartWorkItem([main EXCEPT !.slots = next.slots], Command(result.command.channel, next.send))

-----------------------------------------------------------------------------
(* drain_wezterm_completions: at most a batch of results, and another wakeup *)
(* if that was not all.                                                      *)
Smaller(a, b) == IF a < b THEN a ELSE b

AfterDrain ==
  FoldLeft(OnCompletion, [slots |-> slots, queue |-> queue],
           SubSeq(completed, 1, Smaller(DrainBatch, Len(completed))))

LeftOver == SubSeq(completed, DrainBatch + 1, Len(completed))

(* request_async_wakeup: how the notice may be afterwards. *)
Wakeups(n) ==
  IF ~n.healthy THEN {n}
  ELSE {[n EXCEPT !.healthy = FALSE, !.warn = TRUE]}
       \cup (IF n.handle THEN {[n EXCEPT !.sent = TRUE]} ELSE {})

(* Fault: the rest waits for an event that may not come. *)
LeaveRest(n) == {n}

RequestDrainAgain(n) == Wakeups(n)

NoticesAfterDrain(n) ==
  LET read == [n EXCEPT !.warn = FALSE]
  IN IF LeftOver # <<>> THEN RequestDrainAgain(read) ELSE {read}

(* An unavailable terminal is remembered as a fault: it makes later results  *)
(* of commands already sent unknown to the slots.                            *)
FaultsOfDrain ==
  faults \cup (IF \E i \in 1 .. Smaller(DrainBatch, Len(completed)) :
                    completed[i].outcome = "unavailable"
               THEN {"unavailable"} ELSE {})

(* The handle's callback. *)
ServeWakeup ==
  /\ notice.sent
  /\ notice' \in NoticesAfterDrain([notice EXCEPT !.sent = FALSE])
  /\ slots' = AfterDrain.slots
  /\ queue' = AfterDrain.queue
  /\ completed' = LeftOver
  /\ faults' = FaultsOfDrain
  /\ UNCHANGED <<worker, terminal, syncs>>

(* sync_wezterm_state_for.  After the drain the buffer may not call for a    *)
(* sync, or the debounce window may still be open.                           *)
SyncSkipped ==
  /\ completed # <<>>
  /\ notice' \in NoticesAfterDrain(notice)
  /\ slots' = AfterDrain.slots
  /\ queue' = AfterDrain.queue
  /\ completed' = LeftOver
  /\ faults' = FaultsOfDrain
  /\ UNCHANGED <<worker, terminal, syncs>>

(* What the requests of a sync ask for: the title, then the directory.       *)
Requested(main, title, cwd) ==
  LET asked == [c \in Channels |-> IF c = "title" THEN title ELSE cwd]
      reply == [c \in Channels |-> IF asked[c] = Nothing
                                   THEN [slot |-> main.slots[c], send |-> Nothing]
                                   ELSE Request(main.slots[c], asked[c])]
  IN [slots |-> [c \in Channels |-> reply[c].slot],
      item |-> Command("title", reply["title"].send) \o Command("cwd", reply["cwd"].send)]

Sync(title, cwd) ==
  LET main == AfterDrain
      asked == Requested(main, title, cwd)
      after == StartWorkItem([main EXCEPT !.slots = asked.slots], asked.item)
  IN /\ syncs < MaxSyncs
     /\ syncs' = syncs + 1
     /\ notice' \in NoticesAfterDrain(notice)
     /\ slots' = after.slots
     /\ queue' = after.queue
     /\ completed' = LeftOver
     /\ faults' = FaultsOfDrain
     /\ UNCHANGED <<worker, terminal>>

(* getcwd fails after the title was requested: the error returns at once,    *)
(* and the command for the title is dropped.                                 *)
SyncWithoutCwd(title) ==
  LET main == AfterDrain
  IN /\ syncs < MaxSyncs
     /\ syncs' = syncs + 1
     /\ notice' \in NoticesAfterDrain(notice)
     /\ slots' = Requested(main, title, Nothing).slots
     /\ queue' = main.queue
     /\ completed' = LeftOver
     /\ faults' = FaultsOfDrain \cup (IF Requested(main, title, Nothing).item = <<>> THEN {}
                                      ELSE {"title dropped"})
     /\ UNCHANGED <<worker, terminal>>

-----------------------------------------------------------------------------
(* The worker thread. *)

Receive ==
  /\ worker.doing = "waiting"
  /\ queue # <<>>
  /\ worker' = [doing |-> "running", item |-> Head(queue), results |-> <<>>]
  /\ queue' = Tail(queue)
  /\ UNCHANGED <<slots, completed, notice, terminal, faults, syncs>>

(* run_wezterm_command: write_terminal_sequence. *)
Run(outcome, reaches) ==
  LET command == Head(worker.item)
  IN /\ worker.doing = "running"
     /\ worker.item # <<>>
     /\ outcome = "success" => reaches
     /\ worker' = [worker EXCEPT !.item = Tail(@),
                                 !.results = Append(@, [command |-> command, outcome |-> outcome])]
     /\ terminal' = IF outcome = "success"
                    THEN [terminal EXCEPT ![command.channel] = [shown |-> command.value, sure |-> TRUE]]
                    ELSE [terminal EXCEPT ![command.channel] =
                            [shown |-> IF reaches THEN command.value ELSE @.shown, sure |-> FALSE]]
     /\ UNCHANGED <<slots, queue, completed, notice, faults, syncs>>

(* on_worker_results: the results of an item are pushed together ... *)
Push ==
  /\ worker.doing = "running"
  /\ worker.item = <<>>
  /\ completed' = completed \o worker.results
  /\ worker' = [Idle EXCEPT !.doing = "waking"]
  /\ UNCHANGED <<slots, queue, notice, terminal, faults, syncs>>

(* ... and the main thread is woken in another step. *)
Wake ==
  /\ worker.doing = "waking"
  /\ notice' \in Wakeups(notice)
  /\ worker' = Idle
  /\ UNCHANGED <<slots, queue, completed, terminal, faults, syncs>>

Next ==
  \/ ServeWakeup
  \/ SyncSkipped
  \/ \E title, cwd \in Targets \cup {Nothing} : Sync(title, cwd)
  \/ \E title \in Targets : SyncWithoutCwd(title)
  \/ Receive
  \/ \E outcome \in {"success", "failed", "unavailable"}, reaches \in BOOLEAN : Run(outcome, reaches)
  \/ Push
  \/ Wake

Spec == Init /\ [][Next]_vars

-----------------------------------------------------------------------------
(* The commands between a dispatch and the slot that waits for the result.   *)
Underway ==
  UNION {ToSet(queue[i]) : i \in DOMAIN queue} \cup ToSet(worker.item)
  \cup {r.command : r \in ToSet(worker.results) \cup ToSet(completed)}

(* A slot with a value in flight has a command of that value under way, so a *)
(* result will free it: no failure of the channel, of the terminal or of the *)
(* worker's start wedges a slot.  The one exception is the title whose       *)
(* command was dropped because the working directory could not be read.      *)
NoStuckUpdate ==
  \A c \in Channels :
    slots[c].inFlight # Nothing =>
      \/ [channel |-> c, value |-> slots[c].inFlight] \in Underway
      \/ c = "title" /\ "title dropped" \in faults

(* When nothing is under way for a channel and the last write succeeded, the *)
(* value that the slot refuses to send again is the one the terminal shows,  *)
(* unless an unavailable terminal made the slot ignore results.              *)
DedupIsTrue ==
  \A c \in Channels :
    /\ \A command \in Underway : command.channel # c
    /\ terminal[c].sure
    /\ "unavailable" \notin faults
    => slots[c].applied = terminal[c].shown

(* While the mode is healthy, results that wait have a wakeup on its way:    *)
(* sent and not served, or about to be sent by the worker.                   *)
ResultsAreNoticed ==
  notice.healthy /\ completed # <<>> => notice.sent \/ worker.doing = "waking"
=============================================================================
