-------------------------- MODULE HostTimersProofs --------------------------
(* The timers of the reducer are one-shot timers, for any number of timers,  *)
(* requests, faults and resets.  The bounds occur in guards only.            *)
(*                                                                           *)
(* Two inductive invariants: IInv relates the tokens under way to the        *)
(* reducer's slots and carries the refinement, BridgeInv relates the handles *)
(* to the timers and callbacks of the editor.                                *)
EXTENDS HostTimers, TLAPS, SequenceTheorems

(* A token that is still on its way is not newer than its slot, and if it    *)
(* has the generation of the slot it is the newest request: generations      *)
(* begin again with the core, but no token of before is left then.           *)
Current(token) ==
  /\ token.gen <= slots[token.timer].gen
  /\ token.gen = slots[token.timer].gen => token.request = newest[token.timer]

(* The same after a step, of a token of before it. *)
StillCurrent(token) ==
  /\ token.gen <= slots'[token.timer].gen
  /\ token.gen = slots'[token.timer].gen => token.request = newest'[token.timer]

HandleToken(t) ==
  [timer |-> t, gen |-> handles[t].token.gen, request |-> handles[t].token.request]

SlotsStarted ==
  \A t \in Timers :
    /\ slots[t].armed => newest[t] # 0 /\ slots[t].gen # 0
    /\ slots[t].gen = 0 => newest[t] = 0

QueueCurrent == \A i \in DOMAIN queue : Current(queue[i].token)

HandlesCurrent == \A t \in Timers : Current(HandleToken(t))

IInv == TypeOK /\ SlotsStarted /\ QueueCurrent /\ HandlesCurrent

Signals == [type : {"ScheduleTimer", "TimerFired", "TimerLost"}, token : Tokens]

-----------------------------------------------------------------------------
(* What a signal does to the reducer, as a step of the abstract timers.      *)
LEMMA SignalStep ==
  ASSUME IInv, NEW token \in Tokens, Current(token), NEW fired \in BOOLEAN,
         ReduceTimerSignal(token, fired), UNCHANGED requests
  PROVE  [Timer!Next]_Timer!vars
<1> DEFINE t == token.timer
<1>0. t \in Timers
  BY DEF Tokens
<1>1. CASE IsActive(token)
  <2>1. slots' = [slots EXCEPT ![t].armed = FALSE] /\ newest' = newest
    BY <1>1 DEF ReduceTimerSignal
  <2>2. Promised' = [Promised EXCEPT ![t] = 0]
    BY <2>1, <1>0 DEF Promised, IInv, TypeOK
  <2>3. Promised[t] = token.request /\ Promised[t] # 0
    BY <1>0, <1>1 DEF Promised, IsActive, Current, IInv, SlotsStarted
  <2>4. CASE fired
    <3>1. answered' = answered \cup {Promised[t]}
      BY <1>1, <2>3, <2>4 DEF ReduceTimerSignal
    <3>2. Timer!Answer(t)
      BY <2>2, <2>3, <3>1 DEF Timer!Answer
    <3> QED
      BY <1>0, <3>2 DEF Timer!Next
  <2>5. CASE ~fired
    <3>1. Timer!Withdraw(t)
      BY <1>1, <2>2, <2>5 DEF Timer!Withdraw, ReduceTimerSignal
    <3> QED
      BY <1>0, <3>1 DEF Timer!Next
  <2> QED
    BY <2>4, <2>5
<1>2. CASE ~IsActive(token)
  BY <1>2 DEF ReduceTimerSignal, reducerVars, Timer!vars, Promised
<1> QED
  BY <1>1, <1>2

(* A signal leaves generations and requests alone and disarms at most. *)
LEMMA SignalKeeps ==
  ASSUME IInv, NEW token \in Tokens, NEW fired \in BOOLEAN,
         ReduceTimerSignal(token, fired)
  PROVE  /\ slots' \in [Timers -> [gen : Nat, armed : BOOLEAN]]
         /\ newest' = newest /\ answered' \in SUBSET Nat
         /\ \A t \in Timers : /\ slots'[t].gen = slots[t].gen
                              /\ slots'[t].armed => slots[t].armed
<1>0. token.timer \in Timers /\ token.request \in Nat
  BY DEF Tokens
<1>1. CASE IsActive(token)
  <2>1. /\ slots' = [slots EXCEPT ![token.timer].armed = FALSE]
        /\ newest' = newest
        /\ answered' = IF fired THEN answered \cup {token.request} ELSE answered
    BY <1>1 DEF ReduceTimerSignal
  <2>2. slots \in [Timers -> [gen : Nat, armed : BOOLEAN]] /\ answered \in SUBSET Nat
    BY DEF IInv, TypeOK
  <2>3. answered' \in SUBSET Nat
    BY <1>0, <2>1, <2>2
  <2>4. /\ slots' \in [Timers -> [gen : Nat, armed : BOOLEAN]]
        /\ \A t \in Timers : /\ slots'[t].gen = slots[t].gen
                             /\ slots'[t].armed => slots[t].armed
    BY <1>0, <2>1, <2>2
  <2> QED
    BY <2>1, <2>3, <2>4
<1>2. CASE ~IsActive(token)
  BY <1>2 DEF ReduceTimerSignal, reducerVars, IInv, TypeOK
<1> QED
  BY <1>1, <1>2

(* Steps that keep generations and newest requests keep the tokens current. *)
LEMMA CurrentKept ==
  ASSUME IInv, newest' = newest,
         slots' \in [Timers -> [gen : Nat, armed : BOOLEAN]],
         \A t \in Timers : /\ slots'[t].gen = slots[t].gen
                           /\ slots'[t].armed => slots[t].armed
  PROVE  /\ SlotsStarted'
         /\ \A token \in Tokens : Current(token) => StillCurrent(token)
BY DEF IInv, SlotsStarted, Current, StillCurrent, Tokens

-----------------------------------------------------------------------------
(* The queue and the handles under the operations of the shell. *)

LEMMA AppendCurrent ==
  ASSUME IInv, SlotsStarted', newest' \in [Timers -> Nat],
         slots' \in [Timers -> [gen : Nat, armed : BOOLEAN]],
         \A token \in Tokens : Current(token) => StillCurrent(token),
         NEW signal \in Signals, StillCurrent(signal.token),
         queue' = Append(queue, signal)
  PROVE  queue' \in Seq(Signals) /\ QueueCurrent'
<1>1. queue \in Seq(Signals)
  BY DEF IInv, TypeOK, Signals
<1>2. queue' \in Seq(Signals) /\ Len(queue') = Len(queue) + 1
  BY <1>1
<1>3. ASSUME NEW i \in DOMAIN queue'
      PROVE  StillCurrent(queue'[i].token)
  <2>1. CASE i \in DOMAIN queue
    <3>1. queue'[i] = queue[i] /\ queue[i] \in Signals
      BY <1>1, <2>1
    <3>2. queue[i].token \in Tokens /\ Current(queue[i].token)
      BY <2>1, <3>1 DEF IInv, QueueCurrent, Signals
    <3> QED
      BY <3>1, <3>2
  <2>2. CASE i \notin DOMAIN queue
    <3>1. queue'[i] = signal
      BY <1>1, <1>2, <2>2
    <3> QED
      BY <3>1
  <2> QED
    BY <2>1, <2>2
<1> QED
  BY <1>2, <1>3 DEF QueueCurrent, Current, StillCurrent

LEMMA TailCurrent ==
  ASSUME IInv, queue # <<>>,
         \A token \in Tokens : Current(token) => StillCurrent(token),
         queue' = Tail(queue)
  PROVE  queue' \in Seq(Signals) /\ QueueCurrent'
<1>1. queue \in Seq(Signals)
  BY DEF IInv, TypeOK, Signals
<1>2. /\ queue' \in Seq(Signals) /\ Len(queue') = Len(queue) - 1
      /\ Len(queue) \in Nat
      /\ \A i \in 1 .. Len(queue') : queue'[i] = queue[i + 1]
  BY <1>1, HeadTailProperties
<1>3. ASSUME NEW i \in DOMAIN queue'
      PROVE  StillCurrent(queue'[i].token)
  <2>1. i \in 1 .. Len(queue')
    BY <1>2
  <2>2. i + 1 \in 1 .. Len(queue) /\ queue'[i] = queue[i + 1]
    BY <1>2, <2>1
  <2>3. i + 1 \in DOMAIN queue /\ queue[i + 1] \in Signals
    BY <1>1, <2>2
  <2>4. queue[i + 1].token \in Tokens /\ Current(queue[i + 1].token)
    BY <2>3 DEF Signals, IInv, QueueCurrent
  <2> QED
    BY <2>2, <2>4
<1> QED
  BY <1>2, <1>3 DEF QueueCurrent, Current, StillCurrent

LEMMA EmptyHandleTyped == EmptyHandle \in Handles /\ EmptyHandle.token = NoToken
BY DEF EmptyHandle, Handles, NoHandle, NoToken, HostTimers

-----------------------------------------------------------------------------
(* The invariant is inductive. *)

LEMMA InitInv == Init => IInv
<1> SUFFICES ASSUME Init PROVE IInv
  OBVIOUS
<1>1. TypeOK
  BY EmptyHandleTyped DEF Init, TypeOK, UnarmedSlots
<1>2. SlotsStarted /\ QueueCurrent
  BY DEF Init, SlotsStarted, QueueCurrent, UnarmedSlots
<1>3. HandlesCurrent
  BY EmptyHandleTyped
  DEF Init, HandlesCurrent, HandleToken, Current, UnarmedSlots, NoToken
<1> QED
  BY <1>1, <1>2, <1>3 DEF IInv

(* A new generation outdates every token of the timer. *)
LEMMA ArmStep == ASSUME IInv, NEW t \in Timers, ArmTimer(t) PROVE IInv'
<1> DEFINE gen == slots[t].gen + 1
           token == [timer |-> t, gen |-> gen, request |-> requests + 1]
<1>1. /\ slots' = [slots EXCEPT ![t] = [gen |-> gen, armed |-> TRUE]]
      /\ newest' = [newest EXCEPT ![t] = requests + 1]
      /\ requests' = requests + 1
      /\ queue' = Append(queue, [type |-> "ScheduleTimer", token |-> token])
      /\ UNCHANGED <<handles, host, allocated, started, unstopped, callbacks,
                     answered, dropped, faults, resets>>
  BY DEF ArmTimer, bridgeVars
<1>2. gen \in Nat /\ requests + 1 \in Nat
  BY DEF IInv, TypeOK
<1>3. /\ slots' \in [Timers -> [gen : Nat, armed : BOOLEAN]]
      /\ newest' \in [Timers -> Nat]
  BY <1>1, <1>2 DEF IInv, TypeOK
<1>4. SlotsStarted'
  BY <1>1, <1>2, <1>3 DEF IInv, TypeOK, SlotsStarted
<1>5. ASSUME NEW x \in Tokens, Current(x) PROVE StillCurrent(x)
  <2>1. x.timer \in Timers /\ x.gen \in Nat
    BY DEF Tokens
  <2>2. slots \in [Timers -> [gen : Nat, armed : BOOLEAN]] /\ newest \in [Timers -> Nat]
    BY DEF IInv, TypeOK
  <2>3. CASE x.timer = t
    <3>1. slots'[x.timer].gen = slots[t].gen + 1 /\ slots[t].gen \in Nat
      BY <1>1, <2>2, <2>3
    <3>2. x.gen <= slots[t].gen
      BY <1>5, <2>3 DEF Current
    <3>3. x.gen <= slots'[x.timer].gen /\ x.gen # slots'[x.timer].gen
      BY <2>1, <3>1, <3>2
    <3> QED
      BY <3>3 DEF StillCurrent
  <2>4. CASE x.timer # t
    <3>1. slots'[x.timer] = slots[x.timer] /\ newest'[x.timer] = newest[x.timer]
      BY <1>1, <2>1, <2>2, <2>4
    <3> QED
      BY <1>5, <3>1 DEF Current, StillCurrent
  <2> QED
    BY <2>3, <2>4
<1>6. token \in Tokens /\ StillCurrent(token)
  <2>1. token \in Tokens
    BY <1>2 DEF Tokens
  <2>2. slots'[t].gen = gen /\ newest'[t] = requests + 1
    BY <1>1, <1>2 DEF IInv, TypeOK
  <2>3. token.timer = t /\ token.gen = gen /\ token.request = requests + 1
    OBVIOUS
  <2>4. slots'[token.timer].gen = gen /\ newest'[token.timer] = requests + 1
    BY <2>2, <2>3
  <2> HIDE DEF token
  <2>5. gen <= gen
    BY <1>2
  <2> QED
    BY <2>1, <2>3, <2>4, <2>5 DEF StillCurrent
<1>7. queue' \in Seq(Signals) /\ QueueCurrent'
  <2> DEFINE signal == [type |-> "ScheduleTimer", token |-> token]
  <2>1. signal \in Signals /\ signal.token = token
    BY <1>6 DEF Signals
  <2>2. StillCurrent(signal.token) /\ queue' = Append(queue, signal)
    BY <1>1, <1>6, <2>1
  <2> HIDE DEF signal
  <2> QED
    BY <1>3, <1>4, <1>5, <2>1, <2>2, AppendCurrent
<1>8. \A u \in Timers : HandleToken(u) \in Tokens /\ HandleToken(u)' = HandleToken(u)
  BY <1>1 DEF IInv, TypeOK, Handles, HandleToken, Tokens
<1>9. HandlesCurrent'
  BY <1>5, <1>8 DEF IInv, HandlesCurrent, Current, StillCurrent
<1>10. TypeOK'
  BY <1>1, <1>2, <1>3, <1>7 DEF IInv, TypeOK, Signals
<1> QED
  BY <1>4, <1>7, <1>9, <1>10 DEF IInv

(* Steps that leave the reducer's slots alone, or only disarm them, keep the *)
(* tokens current; the queue and the handles then decide.                    *)
LEMMA StepWith ==
  ASSUME IInv, newest' = newest, requests' = requests,
         slots' \in [Timers -> [gen : Nat, armed : BOOLEAN]],
         \A t \in Timers : /\ slots'[t].gen = slots[t].gen
                           /\ slots'[t].armed => slots[t].armed,
         queue' \in Seq(Signals), QueueCurrent',
         handles' \in [Timers -> Handles],
         \A t \in Timers : handles'[t].token = handles[t].token
                              \/ handles'[t].token = NoToken
                              \/ Current(HandleToken(t))',
         host' \in SUBSET HostTimers, callbacks' \in Seq(HostTimers),
         allocated' \in Nat, started' \in Nat, answered' \in SUBSET Nat,
         unstopped' \in SUBSET HostTimers, dropped' \in SUBSET Nat,
         faults' \in Nat, resets' \in Nat
  PROVE  IInv'
<1>1. SlotsStarted' /\ \A token \in Tokens : Current(token) => StillCurrent(token)
  BY CurrentKept
<1>2. TypeOK'
  BY DEF IInv, TypeOK, Signals
<1>3. ASSUME NEW t \in Timers PROVE Current(HandleToken(t))'
  <2>1. CASE handles'[t].token = handles[t].token
    <3>1. HandleToken(t)' = HandleToken(t) /\ HandleToken(t) \in Tokens
      BY <2>1 DEF HandleToken, IInv, TypeOK, Handles, Tokens
    <3> QED
      BY <1>1, <3>1 DEF IInv, HandlesCurrent, Current, StillCurrent
  <2>2. CASE handles'[t].token = NoToken
    <3>1. slots'[t].gen = 0 => newest'[t] = 0
      BY <1>1 DEF SlotsStarted
    <3>2. slots'[t].gen \in Nat
      OBVIOUS
    <3> QED
      BY <2>2, <3>1, <3>2 DEF Current, HandleToken, NoToken
  <2>3. CASE Current(HandleToken(t))'
    BY <2>3
  <2> QED
    BY <2>1, <2>2, <2>3
<1> QED
  BY <1>1, <1>2, <1>3 DEF IInv, HandlesCurrent

(* What the invariant says of the head of the queue. *)
LEMMA HeadCurrent ==
  ASSUME IInv, queue # <<>>
  PROVE  Head(queue) \in Signals /\ Head(queue).token \in Tokens
           /\ Current(Head(queue).token)
<1>1. queue \in Seq(Signals)
  BY DEF IInv, TypeOK, Signals
<1>2. Head(queue) \in Signals /\ Head(queue) = queue[1] /\ 1 \in DOMAIN queue
  BY <1>1, HeadTailProperties
<1>3. Head(queue).token \in Tokens
  BY <1>2 DEF Signals
<1>4. Current(queue[1].token)
  BY <1>2 DEF IInv, QueueCurrent
<1> QED
  BY <1>2, <1>3, <1>4

(* The slots as they are: premises of the lemmas above. *)
LEMMA SlotsKept ==
  ASSUME IInv, UNCHANGED slots, UNCHANGED newest
  PROVE  /\ slots' \in [Timers -> [gen : Nat, armed : BOOLEAN]]
         /\ \A t \in Timers : /\ slots'[t].gen = slots[t].gen
                              /\ slots'[t].armed => slots[t].armed
         /\ SlotsStarted' /\ newest' \in [Timers -> Nat]
         /\ \A token \in Tokens : Current(token) => StillCurrent(token)
         /\ UNCHANGED queue => queue' \in Seq(Signals) /\ QueueCurrent'
<1>1. /\ slots' \in [Timers -> [gen : Nat, armed : BOOLEAN]]
      /\ \A t \in Timers : /\ slots'[t].gen = slots[t].gen
                           /\ slots'[t].armed => slots[t].armed
      /\ newest' \in [Timers -> Nat] /\ newest' = newest
  BY DEF IInv, TypeOK
<1>2. SlotsStarted' /\ \A token \in Tokens : Current(token) => StillCurrent(token)
  BY <1>1, CurrentKept
<1>3. UNCHANGED queue => queue' \in Seq(Signals) /\ QueueCurrent'
  BY DEF IInv, TypeOK, Signals, QueueCurrent, Current
<1> QED
  BY <1>1, <1>2, <1>3

LEMMA ClearStep == ASSUME IInv, NEW t \in Timers, ClearActive(t) PROVE IInv'
<1>1. /\ slots' = [slots EXCEPT ![t].armed = FALSE]
      /\ UNCHANGED <<queue, handles, host, allocated, started, unstopped, callbacks,
                     newest, answered, requests, dropped, resets, faults>>
  BY DEF ClearActive, bridgeVars, historyVars
<1>2. /\ slots' \in [Timers -> [gen : Nat, armed : BOOLEAN]]
      /\ \A u \in Timers : /\ slots'[u].gen = slots[u].gen
                           /\ slots'[u].armed => slots[u].armed
  BY <1>1 DEF IInv, TypeOK
<1>3. queue' \in Seq(Signals) /\ QueueCurrent'
  BY <1>1, <1>2 DEF IInv, TypeOK, Signals, QueueCurrent, Current
<1>4. handles' \in [Timers -> Handles] /\ host' \in SUBSET HostTimers
      /\ callbacks' \in Seq(HostTimers) /\ allocated' \in Nat /\ started' \in Nat
      /\ answered' \in SUBSET Nat /\ unstopped' \in SUBSET HostTimers
      /\ dropped' \in SUBSET Nat /\ faults' \in Nat /\ resets' \in Nat
  BY <1>1 DEF IInv, TypeOK
<1> QED
  BY <1>1, <1>2, <1>3, <1>4, StepWith

LEMMA ScheduleStep == ASSUME IInv, ScheduleCoreTimer PROVE IInv'
<1> DEFINE token == Head(queue).token
           fired == [callback |-> allocated + 1, id |-> started + 1]
           new == [fired |-> fired,
                   token |-> [gen |-> token.gen, request |-> token.request]]
<1>1. /\ queue # <<>>
      /\ UNCHANGED <<callbacks, slots, newest, answered, requests, dropped, resets>>
  BY DEF ScheduleCoreTimer, reducerVars, historyVars
<1>2. Head(queue) \in Signals /\ token \in Tokens /\ Current(token) /\ StillCurrent(token)
  BY <1>1, HeadCurrent, SlotsKept
<1>3. fired \in HostTimers /\ new \in Handles
  <2>1. fired \in HostTimers
    BY DEF IInv, TypeOK, HostTimers
  <2>2. token.gen \in Nat /\ token.request \in Nat
    BY <1>2 DEF Tokens
  <2> HIDE DEF fired, token
  <2> QED
    BY <2>1, <2>2 DEF Handles
<1>4. callbacks' \in Seq(HostTimers) /\ answered' \in SUBSET Nat
      /\ dropped' \in SUBSET Nat /\ resets' \in Nat /\ requests' = requests
      /\ newest' = newest
  BY <1>1 DEF IInv, TypeOK
<1>5. CASE /\ SetCoreTimerHandle(token.timer, new)
           /\ allocated' = allocated + 1
           /\ started' = started + 1
           /\ queue' = Tail(queue)
  <2>1. queue' \in Seq(Signals) /\ QueueCurrent'
    BY <1>1, <1>5, SlotsKept, TailCurrent
  <2>2. handles' = [handles EXCEPT ![token.timer] = new]
    BY <1>5 DEF SetCoreTimerHandle
  <2>3. handles' \in [Timers -> Handles]
    BY <1>3, <2>2 DEF IInv, TypeOK
  <2>4. ASSUME NEW t \in Timers
        PROVE  handles'[t].token = handles[t].token \/ Current(HandleToken(t))'
    <3>1. CASE t = token.timer
      <4>1. handles'[t].token = [gen |-> token.gen, request |-> token.request]
        BY <2>2, <3>1 DEF IInv, TypeOK
      <4> QED
        BY <1>2, <3>1, <4>1 DEF HandleToken, Current, StillCurrent
    <3>2. CASE t # token.timer
      BY <2>2, <3>2 DEF IInv, TypeOK
    <3> QED
      BY <3>1, <3>2
  <2>5. host' \in SUBSET HostTimers /\ unstopped' \in SUBSET HostTimers /\ faults' \in Nat
    <3>1. handles[token.timer].fired \in HostTimers
      BY <1>2 DEF IInv, TypeOK, Handles, Tokens
    <3>2. QED
      <4> HIDE DEF fired, token
      <4>1. host \in SUBSET HostTimers /\ unstopped \in SUBSET HostTimers /\ faults \in Nat
        BY DEF IInv, TypeOK
      <4>2. new.fired = fired
        OBVIOUS
      <4> QED
        BY <1>3, <1>5, <3>1, <4>1, <4>2 DEF SetCoreTimerHandle, Fault
  <2>6. allocated' \in Nat /\ started' \in Nat
    BY <1>5 DEF IInv, TypeOK
  <2> HIDE DEF new, fired, token
  <2> QED
    BY <1>1, <1>4, <2>1, <2>3, <2>4, <2>5, <2>6, SlotsKept, StepWith
<1>6. CASE /\ Fault
           /\ queue' = Append(Tail(queue), [type |-> "TimerLost", token |-> token])
           /\ UNCHANGED bridgeVars
  <2> DEFINE lost == [type |-> "TimerLost", token |-> token]
  <2>1. lost \in Signals /\ StillCurrent(lost.token)
    BY <1>2 DEF Signals
  <2>2. queue \in Seq(Signals)
    BY DEF IInv, TypeOK, Signals
  <2>3. /\ Tail(queue) \in Seq(Signals) /\ Len(Tail(queue)) = Len(queue) - 1
        /\ Len(queue) \in Nat
        /\ \A i \in 1 .. Len(Tail(queue)) : Tail(queue)[i] = queue[i + 1]
    BY <1>1, <2>2, HeadTailProperties
  <2>4. queue' \in Seq(Signals) /\ Len(queue') = Len(queue)
    BY <1>6, <2>1, <2>3
  <2>5. ASSUME NEW i \in DOMAIN queue' PROVE StillCurrent(queue'[i].token)
    <3>1. i \in 1 .. Len(queue)
      BY <2>4
    <3>2. CASE i = Len(queue)
      BY <1>6, <2>1, <2>3, <3>2
    <3>3. CASE i # Len(queue)
      <4>1. i \in 1 .. Len(Tail(queue)) /\ queue'[i] = Tail(queue)[i]
        BY <1>6, <2>1, <2>3, <3>1, <3>3
      <4>2. i + 1 \in DOMAIN queue /\ queue'[i] = queue[i + 1]
        BY <2>2, <2>3, <4>1
      <4>3. queue[i + 1] \in Signals /\ Current(queue[i + 1].token)
        BY <2>2, <4>2 DEF IInv, QueueCurrent
      <4> QED
        BY <1>1, <4>2, <4>3, SlotsKept DEF Signals
    <3> QED
      BY <3>2, <3>3
  <2>6. QueueCurrent'
    BY <2>5 DEF QueueCurrent, Current, StillCurrent
  <2>7. /\ handles' \in [Timers -> Handles] /\ host' \in SUBSET HostTimers
        /\ \A t \in Timers : handles'[t].token = handles[t].token
        /\ allocated' \in Nat /\ started' \in Nat
        /\ unstopped' \in SUBSET HostTimers /\ faults' \in Nat
    BY <1>6 DEF IInv, TypeOK, bridgeVars, Fault
  <2> HIDE DEF new, fired, token
  <2> QED
    BY <1>1, <1>4, <2>4, <2>6, <2>7, SlotsKept, StepWith
<1> QED
  BY <1>5, <1>6 DEF ScheduleCoreTimer

LEMMA FireStep == ASSUME IInv, NEW timer \in host, HostTimerFires(timer) PROVE IInv'
<1>1. /\ host' = host \ {timer} /\ callbacks' = Append(callbacks, timer)
      /\ UNCHANGED <<queue, handles, allocated, started, unstopped, slots, newest,
                     answered, requests, dropped, resets, faults>>
  BY DEF HostTimerFires, reducerVars, historyVars
<1>2. /\ host' \in SUBSET HostTimers /\ callbacks' \in Seq(HostTimers)
      /\ handles' \in [Timers -> Handles] /\ allocated' \in Nat /\ started' \in Nat
      /\ answered' \in SUBSET Nat /\ unstopped' \in SUBSET HostTimers
      /\ dropped' \in SUBSET Nat /\ faults' \in Nat /\ resets' \in Nat
  BY <1>1 DEF IInv, TypeOK
<1> QED
  BY <1>1, <1>2, SlotsKept, StepWith

(* The token of a resolved handle. *)
LEMMA HandleCurrent ==
  ASSUME IInv, NEW t \in Timers
  PROVE  HandleToken(t) \in Tokens /\ Current(HandleToken(t))
BY DEF IInv, TypeOK, Handles, HandleToken, Tokens, HandlesCurrent

LEMMA DispatchKeeps ==
  ASSUME IInv, DispatchCoreTimerFired
  PROVE  /\ callbacks' \in Seq(HostTimers)
         /\ UNCHANGED <<host, allocated, started, unstopped, requests, dropped, resets>>
         /\ host' \in SUBSET HostTimers /\ allocated' \in Nat /\ started' \in Nat
         /\ unstopped' \in SUBSET HostTimers /\ dropped' \in SUBSET Nat
         /\ resets' \in Nat /\ faults' \in Nat
<1>1. callbacks \in Seq(HostTimers) /\ callbacks # <<>> /\ faults \in Nat
  BY DEF DispatchCoreTimerFired, IInv, TypeOK
<1>2. Tail(callbacks) \in Seq(HostTimers) /\ Head(callbacks) \in HostTimers
  BY <1>1, HeadTailProperties
<1>3. callbacks' = Tail(callbacks) \/ callbacks' = Append(Tail(callbacks), Head(callbacks))
  BY DEF DispatchCoreTimerFired
<1>4. callbacks' \in Seq(HostTimers)
  BY <1>2, <1>3
<1>5. UNCHANGED <<host, allocated, started, unstopped, requests, dropped, resets>>
  BY DEF DispatchCoreTimerFired, historyVars
<1>6. faults' = faults \/ faults' = faults + 1
  <2>1. Fault => faults' = faults + 1
    BY DEF Fault
  <2> QED
    BY <2>1 DEF DispatchCoreTimerFired
<1>7. faults' \in Nat
  BY <1>1, <1>6
<1> QED
  BY <1>4, <1>5, <1>7 DEF IInv, TypeOK

LEMMA DispatchStep == ASSUME IInv, DispatchCoreTimerFired PROVE IInv'
<1> DEFINE fired == Head(callbacks)
<1>1. CASE UNCHANGED <<queue, handles, slots, newest, answered>>
  <2>1. handles' \in [Timers -> Handles] /\ answered' \in SUBSET Nat
    BY <1>1 DEF IInv, TypeOK
  <2> QED
    BY <1>1, <2>1, DispatchKeeps, SlotsKept, StepWith
<1>2. ASSUME NEW t \in Resolved(fired),
             handles' = [handles EXCEPT ![t] = EmptyHandle],
             \/ ReduceTimerSignal(HandleToken(t), TRUE) /\ UNCHANGED queue
             \/ StageTimerFired(HandleToken(t)) /\ UNCHANGED reducerVars
      PROVE  IInv'
  <2>0. t \in Timers
    BY DEF Resolved
  <2>1. HandleToken(t) \in Tokens /\ Current(HandleToken(t))
    BY <2>0, HandleCurrent
  <2>2. handles' \in [Timers -> Handles]
        /\ \A u \in Timers : handles'[u].token = handles[u].token
                                \/ handles'[u].token = NoToken
    BY <1>2, EmptyHandleTyped DEF IInv, TypeOK
  <2>3. CASE ReduceTimerSignal(HandleToken(t), TRUE) /\ UNCHANGED queue
    <3>1. /\ slots' \in [Timers -> [gen : Nat, armed : BOOLEAN]]
          /\ newest' = newest /\ answered' \in SUBSET Nat
          /\ \A u \in Timers : /\ slots'[u].gen = slots[u].gen
                               /\ slots'[u].armed => slots[u].armed
      BY <2>1, <2>3, SignalKeeps
    <3>2. queue' \in Seq(Signals) /\ QueueCurrent'
      <4>1. queue' = queue /\ queue \in Seq(Signals) /\ QueueCurrent
        BY <2>3 DEF IInv, TypeOK, Signals
      <4>2. \A i \in DOMAIN queue : queue[i] \in Signals
        BY <4>1
      <4>3. \A i \in DOMAIN queue : queue[i].token \in Tokens
        BY <4>2 DEF Signals
      <4>4. \A token \in Tokens : Current(token) => StillCurrent(token)
        BY <3>1, CurrentKept
      <4>5. \A i \in DOMAIN queue : StillCurrent(queue[i].token)
        BY <4>1, <4>3, <4>4 DEF QueueCurrent
      <4> QED
        BY <4>1, <4>5 DEF QueueCurrent, StillCurrent, Current
    <3> QED
      BY <2>2, <3>1, <3>2, DispatchKeeps, StepWith
  <2>4. CASE StageTimerFired(HandleToken(t)) /\ UNCHANGED reducerVars
    <3> DEFINE signal == [type |-> "TimerFired", token |-> HandleToken(t)]
    <3>1. UNCHANGED <<slots, newest, answered>> /\ queue' = Append(queue, signal)
      BY <2>4 DEF StageTimerFired, reducerVars
    <3>2. signal \in Signals /\ StillCurrent(signal.token)
      BY <2>1, <3>1, SlotsKept DEF Signals
    <3>3. queue' \in Seq(Signals) /\ QueueCurrent'
      <4> HIDE DEF signal
      <4> QED
        BY <3>1, <3>2, SlotsKept, AppendCurrent
    <3>4. answered' \in SUBSET Nat
      BY <3>1 DEF IInv, TypeOK
    <3> QED
      BY <2>2, <3>1, <3>3, <3>4, DispatchKeeps, SlotsKept, StepWith
  <2> QED
    BY <1>2, <2>3, <2>4
<1> QED
  BY <1>1, <1>2 DEF DispatchCoreTimerFired, HandleToken, reducerVars

LEMMA DrainStep == ASSUME IInv, DrainEvent PROVE IInv'
<1> DEFINE token == Head(queue).token
           fired == (Head(queue).type = "TimerFired")
<1>1. /\ queue # <<>> /\ queue' = Tail(queue) /\ ReduceTimerSignal(token, fired)
      /\ UNCHANGED <<handles, host, allocated, started, unstopped, callbacks,
                     requests, dropped, resets, faults>>
  BY DEF DrainEvent, bridgeVars, historyVars
<1>2. token \in Tokens /\ fired \in BOOLEAN
  BY <1>1, HeadCurrent
<1>3. /\ slots' \in [Timers -> [gen : Nat, armed : BOOLEAN]]
      /\ newest' = newest /\ answered' \in SUBSET Nat
      /\ \A t \in Timers : /\ slots'[t].gen = slots[t].gen
                           /\ slots'[t].armed => slots[t].armed
  BY <1>1, <1>2, SignalKeeps
<1>4. queue' \in Seq(Signals) /\ QueueCurrent'
  BY <1>1, <1>3, CurrentKept, TailCurrent
<1>5. /\ handles' \in [Timers -> Handles] /\ host' \in SUBSET HostTimers
      /\ callbacks' \in Seq(HostTimers) /\ allocated' \in Nat /\ started' \in Nat
      /\ unstopped' \in SUBSET HostTimers /\ dropped' \in SUBSET Nat
      /\ faults' \in Nat /\ resets' \in Nat
  BY <1>1 DEF IInv, TypeOK
<1> QED
  BY <1>1, <1>3, <1>4, <1>5, StepWith

LEMMA DrainFailsStep == ASSUME IInv, DrainFails PROVE IInv'
<1>1. /\ queue' = <<>> /\ faults' = faults + 1
      /\ dropped' = dropped \cup {queue[i].token.request : i \in DOMAIN queue}
      /\ UNCHANGED <<handles, host, allocated, started, unstopped, callbacks,
                     slots, newest, answered, requests, resets>>
  BY DEF DrainFails, bridgeVars, reducerVars, Fault
<1>2. queue' \in Seq(Signals) /\ QueueCurrent'
  BY <1>1 DEF QueueCurrent
<1>3. dropped' \in SUBSET Nat
  <2>1. \A i \in DOMAIN queue : queue[i].token.request \in Nat
    <3>1. queue \in Seq(Signals)
      BY DEF IInv, TypeOK, Signals
    <3>2. \A i \in DOMAIN queue : queue[i] \in Signals
      BY <3>1
    <3> QED
      BY <3>2 DEF Signals, Tokens
  <2> QED
    BY <1>1, <2>1 DEF IInv, TypeOK
<1>4. /\ handles' \in [Timers -> Handles] /\ host' \in SUBSET HostTimers
      /\ callbacks' \in Seq(HostTimers) /\ allocated' \in Nat /\ started' \in Nat
      /\ unstopped' \in SUBSET HostTimers /\ answered' \in SUBSET Nat
      /\ faults' \in Nat /\ resets' \in Nat
  BY <1>1 DEF IInv, TypeOK
<1> QED
  BY <1>1, <1>2, <1>3, <1>4, SlotsKept, StepWith

(* A reset leaves no token behind, so generations may begin again. *)
LEMMA ResetStep ==
  ASSUME IInv, TransientReset \/ LanePanic
  PROVE  IInv'
<1>1. /\ ClearBridgeQueueAndCore /\ resets' = resets + 1
      /\ UNCHANGED <<allocated, started, callbacks, requests, answered, dropped>>
  BY DEF TransientReset, LanePanic, MayReset
<1>2. host' \in SUBSET HostTimers /\ unstopped' \in SUBSET HostTimers /\ faults' \in Nat
  BY DEF TransientReset, LanePanic, StopHandles, StopFails, Fault, IInv, TypeOK
<1>3. TypeOK'
  BY <1>1, <1>2, EmptyHandleTyped DEF ClearBridgeQueueAndCore, UnarmedSlots, IInv, TypeOK
<1>4. SlotsStarted' /\ QueueCurrent'
  BY <1>1 DEF ClearBridgeQueueAndCore, UnarmedSlots, SlotsStarted, QueueCurrent
<1>5. HandlesCurrent'
  BY <1>1, EmptyHandleTyped
  DEF ClearBridgeQueueAndCore, UnarmedSlots, HandlesCurrent, HandleToken, Current, NoToken
<1> QED
  BY <1>3, <1>4, <1>5 DEF IInv

LEMMA InvStep == IInv /\ [Next]_vars => IInv'
<1> SUFFICES ASSUME IInv, [Next]_vars PROVE IInv'
  OBVIOUS
<1>1. CASE UNCHANGED vars
  BY <1>1 DEF vars, IInv, TypeOK, SlotsStarted, QueueCurrent, HandlesCurrent,
              HandleToken, Current
<1>2. CASE Next
  BY <1>2, ArmStep, ClearStep, ScheduleStep, FireStep, DispatchStep, DrainStep,
     DrainFailsStep, ResetStep DEF Next
<1> QED
  BY <1>1, <1>2

(* Every variable keeps its type, and the tokens under way stay consistent   *)
(* with the reducer's slots (core/state/policy.rs).                          *)
THEOREM TypeCorrect == Spec => []TypeOK
<1>1. IInv => TypeOK
  BY DEF IInv
<1> QED
  BY <1>1, InitInv, InvStep, PTL DEF Spec

-----------------------------------------------------------------------------
(* Every step is one of the abstract timers' or changes nothing they show. *)
LEMMA RefinementStep == IInv /\ [Next]_vars => [Timer!Next]_Timer!vars
<1> SUFFICES ASSUME IInv, [Next]_vars PROVE [Timer!Next]_Timer!vars
  OBVIOUS
<1>1. CASE UNCHANGED <<slots, newest, requests, answered>>
  BY <1>1 DEF Timer!vars, Promised
<1>2. ASSUME NEW t \in Timers, ArmTimer(t) PROVE [Timer!Next]_Timer!vars
  <2>1. /\ slots' = [slots EXCEPT ![t] = [gen |-> slots[t].gen + 1, armed |-> TRUE]]
        /\ newest' = [newest EXCEPT ![t] = requests + 1]
        /\ requests' = requests + 1 /\ answered' = answered
    BY <1>2 DEF ArmTimer
  <2>2. Promised' = [Promised EXCEPT ![t] = requests + 1]
    BY <2>1 DEF Promised, IInv, TypeOK
  <2>3. Timer!Request(t)
    BY <2>1, <2>2 DEF Timer!Request
  <2> QED
    BY <2>3 DEF Timer!Next
<1>3. ASSUME NEW t \in Timers, ClearActive(t) PROVE [Timer!Next]_Timer!vars
  <2>1. /\ slots' = [slots EXCEPT ![t].armed = FALSE]
        /\ UNCHANGED <<newest, requests, answered>>
    BY <1>3 DEF ClearActive, historyVars
  <2>2. Promised' = [Promised EXCEPT ![t] = 0]
    BY <2>1 DEF Promised, IInv, TypeOK
  <2>3. Timer!Withdraw(t)
    BY <2>1, <2>2 DEF Timer!Withdraw
  <2> QED
    BY <2>3 DEF Timer!Next
<1>4. CASE ScheduleCoreTimer \/ DrainFails \/ \E timer \in host : HostTimerFires(timer)
  BY <1>1, <1>4 DEF ScheduleCoreTimer, DrainFails, HostTimerFires, reducerVars, historyVars
<1>5. CASE DispatchCoreTimerFired
  <2>1. ASSUME NEW t \in Resolved(Head(callbacks)),
               ReduceTimerSignal(HandleToken(t), TRUE)
        PROVE  [Timer!Next]_Timer!vars
    <3>1. HandleToken(t) \in Tokens /\ Current(HandleToken(t))
      BY HandleCurrent DEF Resolved
    <3>2. UNCHANGED requests
      BY <1>5, DispatchKeeps
    <3> QED
      BY <2>1, <3>1, <3>2, SignalStep
  <2>2. UNCHANGED requests
    BY <1>5, DispatchKeeps
  <2> QED
    BY <1>1, <1>5, <2>1, <2>2 DEF DispatchCoreTimerFired, HandleToken, reducerVars
<1>6. CASE DrainEvent
  <2> DEFINE fired == (Head(queue).type = "TimerFired")
  <2>1. queue # <<>> /\ ReduceTimerSignal(Head(queue).token, fired) /\ UNCHANGED requests
    BY <1>6 DEF DrainEvent, historyVars
  <2>2. Head(queue).token \in Tokens /\ Current(Head(queue).token) /\ fired \in BOOLEAN
    BY <2>1, HeadCurrent
  <2> QED
    BY <2>1, <2>2, SignalStep
<1>7. CASE TransientReset \/ LanePanic
  <2>1. /\ slots' = UnarmedSlots /\ UNCHANGED <<requests, answered>>
    BY <1>7 DEF TransientReset, LanePanic, MayReset, ClearBridgeQueueAndCore
  <2>2. Promised' = [t \in Timers |-> 0]
    BY <2>1 DEF Promised, UnarmedSlots
  <2>3. Timer!Reset
    BY <2>1, <2>2 DEF Timer!Reset
  <2> QED
    BY <2>3 DEF Timer!Next
<1>8. CASE UNCHANGED vars
  BY <1>1, <1>8 DEF vars
<1> QED
  BY <1>2, <1>3, <1>4, <1>5, <1>6, <1>7, <1>8 DEF Next

(* Through displaced timers, late callbacks, lanes in use and resets that    *)
(* begin generations again (timers.rs, recovery.rs), the reducer sees        *)
(* one-shot timers.                                                          *)
THEOREM OneShot == Spec => ImplementsOneShotTimers
<1>1. Init => Timer!Init
  BY DEF Init, Timer!Init, Promised, UnarmedSlots
<1> QED
  BY <1>1, InitInv, InvStep, RefinementStep, PTL DEF Spec, ImplementsOneShotTimers, Timer!Spec
-----------------------------------------------------------------------------
(* The handles and the timers of the editor (timer_bridge.rs).  What a step  *)
(* needs to know of them: the timers that run and the callbacks that wait    *)
(* are different ones and none is yet to be handed out, a handle is driven   *)
(* by one of them, and no two handles by the same.                           *)
Started(timer) == timer.id \in 1 .. started

TimersApart ==
  /\ \A timer \in host : Started(timer)
  /\ \A i \in DOMAIN callbacks : Started(callbacks[i]) /\ callbacks[i] \notin host
  /\ \A i, j \in DOMAIN callbacks : callbacks[i] = callbacks[j] => i = j

HandlesApart ==
  \A t, u \in Timers :
    WaitsFor(t) /\ handles[t].fired = handles[u].fired => t = u

EachDriven ==
  \A t \in Timers : WaitsFor(t) =>
    \/ handles[t].fired \in host
    \/ \E i \in DOMAIN callbacks : callbacks[i] = handles[t].fired

BridgeInv == TypeOK /\ TimersApart /\ HandlesApart /\ EachDriven /\ NoOrphanTimers

LEMMA BridgeTyped ==
  ASSUME BridgeInv
  PROVE  /\ host \in SUBSET HostTimers /\ callbacks \in Seq(HostTimers)
         /\ handles \in [Timers -> Handles] /\ started \in Nat
         /\ \A t \in Timers : handles[t].fired \in HostTimers
BY DEF BridgeInv, TypeOK, Handles

(* What a handle waits for has been handed out. *)
LEMMA WaitedStarted ==
  ASSUME BridgeInv, NEW t \in Timers, WaitsFor(t)
  PROVE  Started(handles[t].fired)
BY DEF BridgeInv, EachDriven, TimersApart

(* Steps of the reducer and the drain leave the bridge alone. *)
LEMMA BridgeKept ==
  ASSUME BridgeInv, TypeOK', UNCHANGED <<handles, host, callbacks, started, unstopped>>
  PROVE  BridgeInv'
BY DEF BridgeInv, TimersApart, HandlesApart, EachDriven, NoOrphanTimers, Started,
       WaitsFor, HeldTimers

(* The new timer is none of those that were handed out; the displaced one    *)
(* leaves the host or is noted, and drove no other handle.                   *)
LEMMA SetHandleStep ==
  ASSUME BridgeInv, TypeOK', NEW t \in Timers, NEW new \in Handles,
         new.fired.id = started + 1, started' = started + 1,
         UNCHANGED callbacks, SetCoreTimerHandle(t, new)
  PROVE  BridgeInv'
<1>1. /\ handles' = [handles EXCEPT ![t] = new]
      /\ host' \subseteq host \cup {new.fired} /\ new.fired \in host'
      /\ \A timer \in host : timer # handles[t].fired => timer \in host'
      /\ handles[t].fired \in host' => handles[t].fired \in unstopped' \cup {new.fired}
      /\ unstopped \subseteq unstopped'
  BY DEF SetCoreTimerHandle
<1>2. /\ \A u \in Timers : u # t => handles'[u] = handles[u]
      /\ handles'[t] = new /\ started \in Nat
  BY <1>1, BridgeTyped
<1>3. \A timer \in HostTimers : Started(timer) => Started(timer)' /\ timer # new.fired
  BY <1>2 DEF Started, HostTimers
<1>4. Started(new.fired)' /\ new.fired \in HostTimers /\ new.fired # NoHandle
  BY <1>2 DEF Started, Handles, NoHandle
<1>5. TimersApart'
  <2>1. \A timer \in host' : Started(timer)'
    BY <1>1, <1>3, <1>4, BridgeTyped DEF BridgeInv, TimersApart
  <2>2. ASSUME NEW i \in DOMAIN callbacks
        PROVE  Started(callbacks[i])' /\ callbacks[i] \notin host'
    <3>1. callbacks[i] \in HostTimers /\ Started(callbacks[i]) /\ callbacks[i] \notin host
      BY <2>2, BridgeTyped DEF BridgeInv, TimersApart
    <3> QED
      BY <1>1, <1>3, <3>1
  <2>3. \A i, j \in DOMAIN callbacks : callbacks[i] = callbacks[j] => i = j
    BY DEF BridgeInv, TimersApart
  <2>4. callbacks' = callbacks
    OBVIOUS
  <2> QED
    BY <2>1, <2>2, <2>3, <2>4 DEF TimersApart
<1>6. \A u \in Timers : u # t /\ WaitsFor(u) => handles[u].fired # new.fired
  BY <1>3, BridgeTyped, WaitedStarted
<1>7. HandlesApart'
  <2> SUFFICES ASSUME NEW u \in Timers, NEW v \in Timers, WaitsFor(u)',
                      handles'[u].fired = handles'[v].fired
               PROVE  u = v
    BY DEF HandlesApart
  <2>1. CASE u # t /\ v # t
    BY <1>2, <2>1 DEF BridgeInv, HandlesApart, WaitsFor
  <2>2. CASE u # t /\ v = t
    BY <1>2, <1>6, <2>2 DEF WaitsFor
  <2>3. CASE u = t /\ v # t
    BY <1>2, <1>4, <1>6, <2>3 DEF WaitsFor
  <2> QED
    BY <2>1, <2>2, <2>3
<1>8. EachDriven'
  <2> SUFFICES ASSUME NEW u \in Timers, WaitsFor(u)'
               PROVE  \/ handles'[u].fired \in host'
                      \/ \E i \in DOMAIN callbacks : callbacks[i] = handles'[u].fired
    BY DEF EachDriven
  <2>1. CASE u = t
    BY <1>1, <1>2, <2>1
  <2>2. CASE u # t
    <3>1. WaitsFor(u) /\ handles'[u].fired = handles[u].fired
      BY <1>2, <2>2 DEF WaitsFor
    <3>2. handles[u].fired # handles[t].fired
      BY <2>2, <3>1 DEF BridgeInv, HandlesApart
    <3> QED
      BY <1>1, <3>1, <3>2 DEF BridgeInv, EachDriven
  <2> QED
    BY <2>1, <2>2
<1>9. NoOrphanTimers'
  <2> SUFFICES ASSUME NEW timer \in host', timer \notin unstopped'
               PROVE  \E u \in Timers : WaitsFor(u)' /\ timer = handles'[u].fired
    BY DEF NoOrphanTimers, HeldTimers
  <2>1. CASE timer = new.fired
    BY <1>2, <1>4, <2>1 DEF WaitsFor
  <2>2. CASE timer # new.fired
    <3>1. PICK u \in Timers : WaitsFor(u) /\ timer = handles[u].fired
      BY <1>1, <2>2 DEF BridgeInv, NoOrphanTimers, HeldTimers
    <3>2. u # t
      BY <1>1, <2>2, <3>1
    <3> QED
      BY <1>2, <3>1, <3>2 DEF WaitsFor
  <2> QED
    BY <2>1, <2>2
<1> QED
  BY <1>5, <1>7, <1>8, <1>9 DEF BridgeInv

(* A fired timer turns into a callback: its handle stays driven. *)
LEMMA FiresApart ==
  ASSUME BridgeInv, TypeOK', NEW timer \in host, HostTimerFires(timer)
  PROVE  BridgeInv'
<1>1. /\ host' = host \ {timer} /\ callbacks' = Append(callbacks, timer)
      /\ UNCHANGED <<handles, started, unstopped>>
  BY DEF HostTimerFires
<1>2. callbacks \in Seq(HostTimers) /\ timer \in HostTimers
  BY BridgeTyped
<1>3. /\ DOMAIN callbacks' = DOMAIN callbacks \cup {Len(callbacks) + 1}
      /\ Len(callbacks) + 1 \notin DOMAIN callbacks
      /\ \A i \in DOMAIN callbacks : callbacks'[i] = callbacks[i]
      /\ callbacks'[Len(callbacks) + 1] = timer
  BY <1>1, <1>2
<1>4. \A i \in DOMAIN callbacks : callbacks[i] # timer
  BY DEF BridgeInv, TimersApart
<1>5. TimersApart'
  BY <1>1, <1>3, <1>4 DEF BridgeInv, TimersApart, Started
<1>6. HandlesApart'
  BY <1>1 DEF BridgeInv, HandlesApart, WaitsFor
<1>7. EachDriven'
  BY <1>1, <1>3 DEF BridgeInv, EachDriven, WaitsFor
<1>8. NoOrphanTimers'
  BY <1>1 DEF BridgeInv, NoOrphanTimers, HeldTimers, WaitsFor
<1> QED
  BY <1>5, <1>6, <1>7, <1>8 DEF BridgeInv

(* The callbacks behind the one that is served. *)
LEMMA CallbackTaken ==
  ASSUME BridgeInv, callbacks # <<>>
  PROVE  LET first == Head(callbacks)
             rest == Tail(callbacks)
         IN /\ rest \in Seq(HostTimers) /\ first \in HostTimers
            /\ first \notin host /\ Started(first)
            /\ \A i \in DOMAIN rest : rest[i] \notin host /\ Started(rest[i])
            /\ \A i \in DOMAIN rest : rest[i] # first
            /\ \A i, j \in DOMAIN rest : rest[i] = rest[j] => i = j
            /\ \A i \in DOMAIN callbacks :
                 callbacks[i] = first \/ \E j \in DOMAIN rest : rest[j] = callbacks[i]
<1> DEFINE first == Head(callbacks)
           rest == Tail(callbacks)
<1>1. callbacks \in Seq(HostTimers)
  BY BridgeTyped
<1>2. /\ rest \in Seq(HostTimers) /\ first \in HostTimers /\ first = callbacks[1]
      /\ 1 \in DOMAIN callbacks /\ Len(rest) = Len(callbacks) - 1
      /\ Len(callbacks) \in Nat
      /\ \A i \in 1 .. Len(rest) : rest[i] = callbacks[i + 1]
  BY <1>1, HeadTailProperties
<1>3. \A i \in DOMAIN rest : i \in Nat /\ i + 1 \in DOMAIN callbacks
                               /\ rest[i] = callbacks[i + 1] /\ i + 1 # 1
  BY <1>1, <1>2
<1>4. ASSUME NEW i \in DOMAIN callbacks
      PROVE  callbacks[i] = first \/ \E j \in DOMAIN rest : rest[j] = callbacks[i]
  <2>1. CASE i = 1
    BY <1>2, <2>1
  <2>2. CASE i # 1
    <3>1. i - 1 \in DOMAIN rest /\ rest[i - 1] = callbacks[i]
      BY <1>1, <1>2, <2>2
    <3> QED
      BY <3>1
  <2> QED
    BY <2>1, <2>2
<1> HIDE DEF first, rest
<1>5. \A i \in DOMAIN rest : rest[i] \notin host /\ Started(rest[i]) /\ rest[i] # first
  BY <1>2, <1>3 DEF BridgeInv, TimersApart
<1>6. first \notin host /\ Started(first)
  BY <1>2 DEF BridgeInv, TimersApart
<1>7. ASSUME NEW i \in DOMAIN rest, NEW j \in DOMAIN rest, rest[i] = rest[j]
      PROVE  i = j
  <2>1. i + 1 = j + 1 /\ i \in Nat /\ j \in Nat
    BY <1>3, <1>7 DEF BridgeInv, TimersApart
  <2> QED
    BY <2>1
<1> QED
  BY <1>2, <1>4, <1>5, <1>6, <1>7 DEF first, rest

(* A callback is dropped when it drives nothing, taken with its handle, or   *)
(* scheduled again.                                                          *)
LEMMA DispatchApart ==
  ASSUME BridgeInv, TypeOK', DispatchCoreTimerFired
  PROVE  BridgeInv'
<1> DEFINE first == Head(callbacks)
           rest == Tail(callbacks)
<1>1. callbacks # <<>> /\ UNCHANGED <<host, started, unstopped>>
  BY DEF DispatchCoreTimerFired
<1>2. /\ rest \in Seq(HostTimers) /\ first \in HostTimers
      /\ first \notin host /\ Started(first)
      /\ \A i \in DOMAIN rest : rest[i] \notin host /\ Started(rest[i])
      /\ \A i \in DOMAIN rest : rest[i] # first
      /\ \A i, j \in DOMAIN rest : rest[i] = rest[j] => i = j
      /\ \A i \in DOMAIN callbacks :
           callbacks[i] = first \/ \E j \in DOMAIN rest : rest[j] = callbacks[i]
  BY <1>1, CallbackTaken
<1>3. CASE Resolved(first) = {} /\ callbacks' = rest /\ UNCHANGED handles
  <2> HIDE DEF first, rest
  <2>1. \A t \in Timers : handles[t].fired # first
    BY <1>3 DEF Resolved
  <2>2. TimersApart'
    BY <1>1, <1>2, <1>3 DEF TimersApart, BridgeInv, Started
  <2>3. EachDriven'
    BY <1>1, <1>2, <1>3, <2>1 DEF BridgeInv, EachDriven, WaitsFor
  <2>4. HandlesApart' /\ NoOrphanTimers'
    BY <1>1, <1>3 DEF BridgeInv, HandlesApart, NoOrphanTimers, HeldTimers, WaitsFor
  <2> QED
    BY <2>2, <2>3, <2>4 DEF BridgeInv
<1>4. ASSUME NEW t \in Resolved(first), callbacks' = rest,
             handles' = [handles EXCEPT ![t] = EmptyHandle]
      PROVE  BridgeInv'
  <2> HIDE DEF first, rest
  <2>1. t \in Timers /\ handles[t].fired = first
    <3>1. /\ t \in Timers /\ handles[t].fired.callback = first.callback
          /\ handles[t].fired.id = first.id
      BY DEF Resolved
    <3>2. \A a, b \in HostTimers : a.callback = b.callback /\ a.id = b.id => a = b
      BY DEF HostTimers
    <3> QED
      BY <1>2, <3>1, <3>2, BridgeTyped
  <2>2. /\ handles'[t].fired = NoHandle
        /\ \A u \in Timers : u # t => handles'[u] = handles[u]
    BY <1>4, <2>1, BridgeTyped DEF EmptyHandle
  <2>3. \A u \in Timers : WaitsFor(u)' => u # t /\ WaitsFor(u)
    BY <2>2 DEF WaitsFor
  <2>4. \A u \in Timers : WaitsFor(u) /\ u # t => handles[u].fired # first
    BY <2>1 DEF BridgeInv, HandlesApart
  <2>5. TimersApart'
    BY <1>1, <1>2, <1>4 DEF TimersApart, BridgeInv, Started
  <2>6. HandlesApart'
    BY <2>2, <2>3 DEF BridgeInv, HandlesApart, WaitsFor
  <2>7. EachDriven'
    BY <1>1, <1>2, <1>4, <2>2, <2>3, <2>4 DEF BridgeInv, EachDriven
  <2>8. NoOrphanTimers'
    <3> SUFFICES ASSUME NEW timer \in host, timer \notin unstopped
                 PROVE  \E u \in Timers : WaitsFor(u)' /\ timer = handles'[u].fired
      BY <1>1 DEF NoOrphanTimers, HeldTimers
    <3>1. PICK u \in Timers : WaitsFor(u) /\ timer = handles[u].fired
      BY DEF BridgeInv, NoOrphanTimers, HeldTimers
    <3>2. u # t
      BY <1>2, <2>1, <3>1
    <3> QED
      BY <2>2, <3>1, <3>2 DEF WaitsFor
  <2> QED
    BY <2>5, <2>6, <2>7, <2>8 DEF BridgeInv
<1>5. CASE callbacks' = Append(rest, first) /\ UNCHANGED handles
  <2> HIDE DEF first, rest
  <2>1. /\ DOMAIN callbacks' = DOMAIN rest \cup {Len(rest) + 1}
        /\ Len(rest) + 1 \notin DOMAIN rest
        /\ \A i \in DOMAIN rest : callbacks'[i] = rest[i]
        /\ callbacks'[Len(rest) + 1] = first
    BY <1>2, <1>5
  <2>2. TimersApart'
    BY <1>1, <1>2, <2>1 DEF TimersApart, BridgeInv, Started
  <2>3. \A i \in DOMAIN callbacks : \E j \in DOMAIN callbacks' : callbacks'[j] = callbacks[i]
    BY <1>2, <2>1
  <2>4. EachDriven'
    BY <1>1, <1>5, <2>3 DEF BridgeInv, EachDriven, WaitsFor
  <2>5. HandlesApart' /\ NoOrphanTimers'
    BY <1>1, <1>5 DEF BridgeInv, HandlesApart, NoOrphanTimers, HeldTimers, WaitsFor
  <2> QED
    BY <2>2, <2>4, <2>5 DEF BridgeInv
<1> QED
  BY <1>3, <1>4, <1>5 DEF DispatchCoreTimerFired

(* A reset stops every timer that is held, or notes that it goes on. *)
LEMMA ResetApart ==
  ASSUME BridgeInv, TypeOK', TransientReset \/ LanePanic
  PROVE  BridgeInv'
<1>1. /\ handles' = [t \in Timers |-> EmptyHandle] /\ UNCHANGED <<callbacks, started>>
      /\ host' \subseteq host /\ host' \subseteq unstopped' \cup (host \ HeldTimers)
      /\ unstopped \subseteq unstopped'
  BY DEF TransientReset, LanePanic, MayReset, ClearBridgeQueueAndCore, StopHandles,
         StopFails
<1>2. \A t \in Timers : ~WaitsFor(t)'
  BY <1>1 DEF WaitsFor, EmptyHandle
<1>3. HandlesApart' /\ EachDriven'
  BY <1>2 DEF HandlesApart, EachDriven
<1>4. TimersApart'
  BY <1>1 DEF BridgeInv, TimersApart, Started
<1>5. NoOrphanTimers'
  BY <1>1 DEF BridgeInv, NoOrphanTimers
<1> QED
  BY <1>3, <1>4, <1>5 DEF BridgeInv

LEMMA ScheduleApart ==
  ASSUME BridgeInv, TypeOK', IInv, ScheduleCoreTimer
  PROVE  BridgeInv'
<1> DEFINE token == Head(queue).token
           fired == [callback |-> allocated + 1, id |-> started + 1]
           new == [fired |-> fired,
                   token |-> [gen |-> token.gen, request |-> token.request]]
<1>1. queue # <<>> /\ UNCHANGED callbacks
  BY DEF ScheduleCoreTimer
<1>2. token \in Tokens /\ token.timer \in Timers
  BY <1>1, HeadCurrent DEF Tokens
<1>3. new \in Handles /\ new.fired.id = started + 1
  <2>1. fired \in HostTimers
    BY DEF HostTimers, BridgeInv, TypeOK
  <2>2. token.gen \in Nat /\ token.request \in Nat
    BY <1>2 DEF Tokens
  <2> HIDE DEF token
  <2> QED
    BY <2>1, <2>2 DEF Handles
<1>4. CASE SetCoreTimerHandle(token.timer, new) /\ started' = started + 1
  <2> HIDE DEF new
  <2> QED
    BY <1>1, <1>2, <1>3, <1>4, SetHandleStep
<1>5. CASE UNCHANGED bridgeVars
  BY <1>1, <1>5, BridgeKept DEF bridgeVars
<1> QED
  BY <1>4, <1>5 DEF ScheduleCoreTimer

LEMMA InitBridge == Init => BridgeInv
<1> SUFFICES ASSUME Init PROVE BridgeInv
  OBVIOUS
<1>1. TypeOK
  BY InitInv DEF IInv
<1>2. \A t \in Timers : ~WaitsFor(t)
  BY DEF Init, WaitsFor, EmptyHandle
<1> QED
  BY <1>1, <1>2 DEF Init, BridgeInv, TimersApart, HandlesApart, EachDriven, NoOrphanTimers

LEMMA BridgeStep == IInv /\ IInv' /\ BridgeInv /\ [Next]_vars => BridgeInv'
<1> SUFFICES ASSUME IInv, IInv', BridgeInv, [Next]_vars PROVE BridgeInv'
  OBVIOUS
<1>1. TypeOK'
  BY DEF IInv
<1>2. CASE UNCHANGED vars
  BY <1>1, <1>2, BridgeKept DEF vars
<1>3. ASSUME NEW t \in Timers, ArmTimer(t) \/ ClearActive(t) PROVE BridgeInv'
  BY <1>1, <1>3, BridgeKept DEF ArmTimer, ClearActive, bridgeVars
<1>4. CASE DrainEvent \/ DrainFails
  BY <1>1, <1>4, BridgeKept DEF DrainEvent, DrainFails, bridgeVars
<1> QED
  BY <1>1, <1>2, <1>3, <1>4, ScheduleApart, FiresApart, DispatchApart, ResetApart DEF Next

(* TimersApart, HandlesApart and EachDriven hold in every reachable state. *)
THEOREM TimersKeptApart == Spec => []BridgeInv
  BY InitInv, InvStep, InitBridge, BridgeStep, PTL DEF Spec

(* HandlesAreDriven: through displaced handles, fired timers, callbacks that *)
(* are scheduled again and resets, a handle that waits has its timer running *)
(* or exactly one callback under way (timer_bridge.rs).                      *)
THEOREM HandlesStayDriven == Spec => []HandlesAreDriven
<1>1. BridgeInv => HandlesAreDriven
  <2> SUFFICES ASSUME BridgeInv, NEW t \in Timers, WaitsFor(t)
               PROVE  IF handles[t].fired \in host
                      THEN handles[t].fired \notin ToSet(callbacks)
                      ELSE \E i \in DOMAIN callbacks :
                             /\ callbacks[i] = handles[t].fired
                             /\ \A j \in DOMAIN callbacks :
                                  callbacks[j] = handles[t].fired => j = i
    BY DEF HandlesAreDriven
  <2>1. handles[t].fired \in host => handles[t].fired \notin ToSet(callbacks)
    BY DEF BridgeInv, TimersApart, ToSet
  <2>2. handles[t].fired \notin host =>
          \E i \in DOMAIN callbacks : callbacks[i] = handles[t].fired
    BY DEF BridgeInv, EachDriven
  <2> QED
    BY <2>1, <2>2 DEF BridgeInv, TimersApart
<1> QED
  BY <1>1, TimersKeptApart, PTL

(* NoOrphanTimers: whatever is displaced, reset or lost to a panic, a timer  *)
(* of the editor that nobody holds is one whose stop failed (recovery.rs).   *)
THEOREM NoTimerIsOrphaned == Spec => []NoOrphanTimers
<1>1. BridgeInv => NoOrphanTimers
  BY DEF BridgeInv
<1> QED
  BY <1>1, TimersKeptApart, PTL

=============================================================================
