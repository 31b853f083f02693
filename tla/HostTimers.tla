----------------------------- MODULE HostTimers -----------------------------
(* The way of a timer of the reducer through the shell and the editor and    *)
(* back (events/runtime/timer_bridge.rs, timers.rs, events/timers.rs), and   *)
(* the resets that cut it (events/runtime/recovery.rs).                      *)
(*                                                                           *)
(* The reducer arms a slot and emits a request; the shell starts a one-shot  *)
(* timer of the editor and keeps a handle; the fired timer schedules a       *)
(* callback; the callback looks its handle up and dispatches the token.      *)
(* Everything runs on the editor's main thread, one action at a time, but    *)
(* any of these steps may come between two others.                           *)
(*                                                                           *)
(* A lane found in use stays in use for the whole callback, since its holder *)
(* is further down the same stack.  The lookup and the staging of a retry    *)
(* therefore fail together: the retry is the uncoalesced one and the set of  *)
(* pending retries stays empty.                                              *)
EXTENDS Naturals, Sequences, SequencesExt

CONSTANTS Timers,      \* TimerId
          MaxRequests, \* bound: timers armed
          MaxFaults,   \* bound: lanes in use, failed host calls, failed drains
          MaxResets    \* bound: transient resets and lane panics

VARIABLES
  slots,       \* TimerState: the generation of each timer and whether it is armed
  queue,       \* scheduled effects and events: ScheduleTimer, TimerFired, TimerLost
  handles,     \* CoreTimerHandles: per timer, the host timer it waits for
  host,        \* live one-shot timers of the editor
  callbacks,   \* scheduled dispatches of fired timers
  allocated,   \* next_host_callback_id
  started,     \* host timer ids handed out by the editor
  requests, newest, answered,   \* history: requests made, per timer the newest, answered
  unstopped, dropped,           \* history: timers that could not be stopped, lost requests
  faults, resets

vars == <<slots, queue, handles, host, callbacks, allocated, started, requests,
          newest, answered, unstopped, dropped, faults, resets>>

reducerVars == <<slots, newest, answered>>
bridgeVars == <<handles, host, allocated, started, unstopped>>
historyVars == <<requests, dropped, resets>>

(* A token names a timer and its generation; its request tells two tokens of *)
(* different lives of the core apart, which the code cannot.                 *)
Tokens == [timer : Timers, gen : Nat, request : Nat]

HostTimers == [callback : Nat, id : Nat]

NoHandle == [callback |-> 0, id |-> 0]

NoToken == [gen |-> 0, request |-> 0]

Handles == [fired : HostTimers, token : [gen : Nat, request : Nat]]

EmptyHandle == [fired |-> NoHandle, token |-> NoToken]

UnarmedSlots == [t \in Timers |-> [gen |-> 0, armed |-> FALSE]]

Init ==
  /\ slots = UnarmedSlots
  /\ queue = <<>>
  /\ handles = [t \in Timers |-> EmptyHandle]
  /\ host = {} /\ callbacks = <<>>
  /\ allocated = 0 /\ started = 0
  /\ requests = 0 /\ newest = [t \in Timers |-> 0] /\ answered = {}
  /\ unstopped = {} /\ dropped = {}
  /\ faults = 0 /\ resets = 0

Fault == faults < MaxFaults /\ faults' = faults + 1

-----------------------------------------------------------------------------
(* The reducer. *)

IsActive(token) ==
  slots[token.timer].armed /\ slots[token.timer].gen = token.gen

(* TimerState::arm and the ScheduleTimer effect. *)
ArmTimer(t) ==
  /\ requests < MaxRequests
  /\ LET gen == slots[t].gen + 1
     IN /\ slots' = [slots EXCEPT ![t] = [gen |-> gen, armed |-> TRUE]]
        /\ queue' = Append(queue,
             [type |-> "ScheduleTimer",
              token |-> [timer |-> t, gen |-> gen, request |-> requests + 1]])
  /\ requests' = requests + 1
  /\ newest' = [newest EXCEPT ![t] = requests + 1]
  /\ UNCHANGED <<bridgeVars, callbacks, answered, dropped, faults, resets>>

(* The reducer clears a slot on its own; nothing stops the host timer. *)
ClearActive(t) ==
  /\ slots[t].armed
  /\ slots' = [slots EXCEPT ![t].armed = FALSE]
  /\ UNCHANGED <<queue, bridgeVars, callbacks, newest, answered, historyVars, faults>>

(* Fault: any token of an armed timer is accepted. *)
ReduceAnyTokenOfTimer(token, fired) ==
  IF slots[token.timer].armed
  THEN /\ slots' = [slots EXCEPT ![token.timer].armed = FALSE]
       /\ answered' = IF fired THEN answered \cup {token.request} ELSE answered
       /\ UNCHANGED newest
  ELSE UNCHANGED reducerVars

(* TimerFiredWithToken and TimerLostWithToken: clear_matching. *)
ReduceTimerSignal(token, fired) ==
  IF IsActive(token)
  THEN /\ slots' = [slots EXCEPT ![token.timer].armed = FALSE]
       /\ answered' = IF fired THEN answered \cup {token.request} ELSE answered
       /\ UNCHANGED newest
  ELSE UNCHANGED reducerVars

-----------------------------------------------------------------------------
(* The shell. *)

WaitsFor(t) == handles[t].fired # NoHandle

(* A timer that cannot be stopped goes on; its callback will find no handle. *)
StopFails(timers) ==
  /\ host \cap timers # {}
  /\ Fault
  /\ unstopped' = unstopped \cup (host \cap timers)
  /\ UNCHANGED host

StopHandles(timers) ==
  \/ host' = host \ timers /\ UNCHANGED <<unstopped, faults>>
  \/ StopFails(timers)

(* Fault: the displaced timer is not stopped. *)
ReplaceHandleOnly(t, new) ==
  /\ handles' = [handles EXCEPT ![t] = new]
  /\ host' = host \cup {new.fired}
  /\ UNCHANGED <<faults, unstopped>>

(* set_core_timer_handle: the new handle takes the slot, then the displaced  *)
(* timer is stopped.                                                         *)
SetCoreTimerHandle(t, new) ==
  /\ handles' = [handles EXCEPT ![t] = new]
  /\ \/ /\ host' = (host \ {handles[t].fired}) \cup {new.fired}
        /\ UNCHANGED <<faults, unstopped>>
     \/ /\ handles[t].fired \in host
        /\ Fault
        /\ host' = host \cup {new.fired}
        /\ unstopped' = unstopped \cup {handles[t].fired}

(* schedule_core_timer_effect.  A timer that gets no callback id or is not   *)
(* started is reported lost; so is one whose handle cannot be recorded, and  *)
(* it is stopped again.                                                      *)
ScheduleCoreTimer ==
  /\ queue # <<>> /\ Head(queue).type = "ScheduleTimer"
  /\ LET token == Head(queue).token
         fired == [callback |-> allocated + 1, id |-> started + 1]
     IN \/ /\ SetCoreTimerHandle(token.timer,
                [fired |-> fired,
                 token |-> [gen |-> token.gen, request |-> token.request]])
           /\ allocated' = allocated + 1
           /\ started' = started + 1
           /\ queue' = Tail(queue)
        \/ /\ Fault
           /\ queue' = Append(Tail(queue), [type |-> "TimerLost", token |-> token])
           /\ UNCHANGED bridgeVars
  /\ UNCHANGED <<callbacks, reducerVars, historyVars>>

(* on_core_timer_fired_event, called by the editor, schedules the dispatch. *)
HostTimerFires(timer) ==
  /\ timer \in host
  /\ host' = host \ {timer}
  /\ callbacks' = Append(callbacks, timer)
  /\ UNCHANGED <<queue, handles, allocated, started, unstopped, reducerVars,
                 historyVars, faults>>

(* Fault: the first handle that waits is taken, whatever callback fired. *)
ResolvedAny(fired) == {t \in Timers : WaitsFor(t)}

(* resolve_fired: the callback id finds the handle, the host timer id must   *)
(* agree with it.                                                            *)
Resolved(fired) ==
  {t \in Timers : handles[t].fired.callback = fired.callback
                    /\ handles[t].fired.id = fired.id}

(* Fault: the event is forgotten. *)
ForgetTimerFired(token) == UNCHANGED queue

(* stage_core_event_with_default_scheduler. *)
StageTimerFired(token) ==
  queue' = Append(queue, [type |-> "TimerFired", token |-> token])

(* dispatch_core_timer_fired.  With the timer bridge in use the callback is  *)
(* scheduled again; with the reducer in use the event is staged.             *)
DispatchCoreTimerFired ==
  /\ callbacks # <<>>
  /\ LET fired == Head(callbacks)
     IN \/ /\ Resolved(fired) = {}
           /\ callbacks' = Tail(callbacks)
           /\ UNCHANGED <<queue, handles, reducerVars, faults>>
        \/ \E t \in Resolved(fired) :
             LET token == [timer |-> t, gen |-> handles[t].token.gen,
                           request |-> handles[t].token.request]
             IN /\ handles' = [handles EXCEPT ![t] = EmptyHandle]
                /\ callbacks' = Tail(callbacks)
                /\ \/ /\ ReduceTimerSignal(token, TRUE)
                      /\ UNCHANGED <<queue, faults>>
                   \/ /\ Fault
                      /\ StageTimerFired(token)
                      /\ UNCHANGED reducerVars
        \/ /\ Fault
           /\ callbacks' = Append(Tail(callbacks), fired)
           /\ UNCHANGED <<queue, handles, reducerVars>>
  /\ UNCHANGED <<host, allocated, started, unstopped, historyVars>>

(* The drain reduces a staged event or a report of its own. *)
DrainEvent ==
  /\ queue # <<>> /\ Head(queue).type # "ScheduleTimer"
  /\ queue' = Tail(queue)
  /\ ReduceTimerSignal(Head(queue).token, Head(queue).type = "TimerFired")
  /\ UNCHANGED <<bridgeVars, callbacks, historyVars, faults>>

(* Another effect of the batch fails: the drain drops what is queued. *)
DrainFails ==
  /\ queue # <<>>
  /\ Fault
  /\ dropped' = dropped \cup {queue[i].token.request : i \in DOMAIN queue}
  /\ queue' = <<>>
  /\ UNCHANGED <<bridgeVars, callbacks, reducerVars, requests, resets>>

-----------------------------------------------------------------------------
(* Resets. *)

HeldTimers == {handles[t].fired : t \in {u \in Timers : WaitsFor(u)}}

(* Fault: the handles survive the reset of the core. *)
CoreResetOnly ==
  /\ queue' = <<>>
  /\ slots' = UnarmedSlots
  /\ newest' = [t \in Timers |-> 0]
  /\ UNCHANGED handles

(* The bridge is emptied, then the queue, then the core starts anew: its     *)
(* generations begin again, the callback ids go on.                          *)
ClearBridgeQueueAndCore ==
  /\ handles' = [t \in Timers |-> EmptyHandle]
  /\ queue' = <<>>
  /\ slots' = UnarmedSlots
  /\ newest' = [t \in Timers |-> 0]

MayReset ==
  /\ resets < MaxResets
  /\ resets' = resets + 1
  /\ UNCHANGED <<allocated, started, callbacks, requests, answered, dropped>>

(* Setup and toggle: TRANSIENT_RESET_ACTIONS. *)
TransientReset ==
  /\ MayReset
  /\ StopHandles(HeldTimers)
  /\ ClearBridgeQueueAndCore

(* RUNTIME_LANE_PANIC_ACTIONS: the handles are captured while the lane is    *)
(* held.  If that fails they are forgotten without being stopped.            *)
LanePanic ==
  /\ MayReset
  /\ \/ StopHandles(HeldTimers)
     \/ /\ Fault
        /\ unstopped' = unstopped \cup (host \cap HeldTimers)
        /\ UNCHANGED host
  /\ ClearBridgeQueueAndCore

-----------------------------------------------------------------------------
Next ==
  \/ \E t \in Timers : ArmTimer(t) \/ ClearActive(t)
  \/ ScheduleCoreTimer
  \/ \E timer \in host : HostTimerFires(timer)
  \/ DispatchCoreTimerFired
  \/ DrainEvent
  \/ DrainFails
  \/ TransientReset
  \/ LanePanic

Spec == Init /\ [][Next]_vars

(* The editor serves scheduled callbacks, the drain among them, and fires    *)
(* the timers it holds.                                                      *)
Fairness ==
  /\ WF_vars(ScheduleCoreTimer)
  /\ WF_vars(DrainEvent)
  /\ WF_vars(DispatchCoreTimerFired)
  /\ WF_vars(\E timer \in host : HostTimerFires(timer))

FairSpec == Spec /\ Fairness

-----------------------------------------------------------------------------
TypeOK ==
  /\ slots \in [Timers -> [gen : Nat, armed : BOOLEAN]]
  /\ queue \in Seq([type : {"ScheduleTimer", "TimerFired", "TimerLost"},
                    token : Tokens])
  /\ handles \in [Timers -> Handles]
  /\ host \in SUBSET HostTimers
  /\ callbacks \in Seq(HostTimers)
  /\ allocated \in Nat /\ started \in Nat
  /\ requests \in Nat /\ newest \in [Timers -> Nat] /\ answered \in SUBSET Nat
  /\ unstopped \in SUBSET HostTimers /\ dropped \in SUBSET Nat
  /\ faults \in Nat /\ resets \in Nat

(* A handle waits for exactly one thing: its host timer, or the one callback *)
(* of it.  Otherwise the slot would wait for ever, or fire early or twice.   *)
HandlesAreDriven ==
  \A t \in Timers : WaitsFor(t) =>
    IF handles[t].fired \in host
    THEN handles[t].fired \notin ToSet(callbacks)
    ELSE \E i \in DOMAIN callbacks :
           /\ callbacks[i] = handles[t].fired
           /\ \A j \in DOMAIN callbacks :
                callbacks[j] = handles[t].fired => j = i

(* Replacing a handle, resets and panics leave no timer of the editor that   *)
(* nobody holds, but those whose stop failed.                                *)
NoOrphanTimers == host \subseteq HeldTimers \cup unstopped

Promised == [t \in Timers |-> IF slots[t].armed THEN newest[t] ELSE 0]

Timer == INSTANCE OneShotTimers WITH promised <- Promised

(* The reducer sees one-shot timers: whatever callbacks of displaced or      *)
(* earlier timers come in, across resets that reuse generations too, only    *)
(* the newest request of a timer is answered, and once.                      *)
ImplementsOneShotTimers == Timer!Spec

(* An armed timer is answered or withdrawn in the end, unless a failing      *)
(* drain dropped its request.                                                *)
ArmedTimersAnswer ==
  \A t \in Timers : \A r \in 1 .. MaxRequests :
    (Promised[t] = r) ~> (Promised[t] # r \/ r \in dropped)
=============================================================================
