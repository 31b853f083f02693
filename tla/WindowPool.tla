------------------------------ MODULE WindowPool ------------------------------
(* The pool of floating windows one tab page draws its smear with. The pool   *)
(* keeps its windows in a vector and finds them through side indexes keyed by *)
(* position: windows in use, visible windows left from an earlier frame,      *)
(* windows that can be reused, and reusable windows by placement. Removing a  *)
(* window swaps the last one into its place, so every index is retargeted.    *)
(*                                                                            *)
(* The operators below are the pool's operations. Most take and return a      *)
(* record s with the pool, the editor's floats (host), the handles that wait  *)
(* in the resource quarantine (held), the fresh handles the editor will give  *)
(* to new floats (fresh) and whether the operation is still on its way (ok).  *)
(* F is the set of editor calls that fail, as pairs of a call and a handle.   *)
EXTENDS Naturals, Sequences, FiniteSets, SequencesExt

CONSTANTS Handles,     \* a float: its window and the scratch buffer shown in it
          Placements,  \* where a float can be: row, column, width and z-index
          None         \* no placement, no payload, no window

Available == {"visible", "hidden"}

-----------------------------------------------------------------------------
(* The editor. A window is gone, hidden or shown at a placement. Closing it   *)
(* wipes its buffer (bufhidden=wipe), deleting the buffer closes its window.  *)
NoFloats == [win |-> [h \in Handles |-> "gone"], buf |-> [h \in Handles |-> FALSE],
             text |-> [h \in Handles |-> None]]

Wipe(host, h) == [host EXCEPT !.win[h] = "gone", !.buf[h] = FALSE, !.text[h] = None]

IsLive(host, h) == host.win[h] # "gone" \/ host.buf[h]

IsShown(host, h) == host.win[h] \in Placements

CloseWindow(host, h, F) ==
  IF host.win[h] # "gone" /\ <<"close", h>> \notin F THEN Wipe(host, h) ELSE host

DeleteBuffer(host, h, F) ==
  IF host.buf[h] /\ <<"delete", h>> \notin F THEN Wipe(host, h) ELSE host

ClearNamespace(host, h, F) ==
  IF host.buf[h] /\ <<"clear", h>> \notin F THEN [host EXCEPT !.text[h] = None] ELSE host

(* Tearing a float down: the window first, then what is left of the buffer.   *)
(* What could not be closed is retained, to be tried again.                   *)
CloseFloat(host, h, F) ==
  LET closed == CloseWindow(ClearNamespace(host, h, F), h, F)
      deleted == DeleteBuffer(closed, h, F)
  IN [host |-> deleted,
      window |-> host.win[h] # "gone" /\ closed.win[h] # "gone",
      buffer |-> closed.buf[h] /\ deleted.buf[h]]

Retains(closing) == closing.window \/ closing.buffer

(* Hiding a float: its text is cleared, then its window hidden. *)
HideFails(host, h, F) ==
  ~host.buf[h] \/ host.win[h] = "gone" \/ {<<"clear", h>>, <<"config", h>>} \cap F # {}

Hide(host, h, F) ==
  LET cleared == ClearNamespace(host, h, F)
  IN IF HideFails(host, h, F) THEN cleared ELSE [cleared EXCEPT !.win[h] = "hidden"]

(* A new float shown at a placement or hidden. A float that is not complete   *)
(* is taken down at once, and what resists is put into the quarantine.        *)
OpenFloat(s, at, F) ==
  LET h == Head(s.fresh)
      buffer == [s.host EXCEPT !.buf[h] = TRUE]
      float == [buffer EXCEPT !.win[h] = at]
      kept(host) == [s EXCEPT !.ok = FALSE, !.host = host, !.fresh = Tail(@),
                              !.held.wins = @ \cup (IF host.win[h] # "gone" THEN {h} ELSE {}),
                              !.held.bufs = @ \cup (IF host.buf[h] THEN {h} ELSE {})]
      unwiped == IF <<"close", h>> \in F THEN float ELSE buffer
  IN IF <<"create", h>> \in F THEN [s EXCEPT !.ok = FALSE]
     ELSE IF <<"open", h>> \in F THEN kept(DeleteBuffer(buffer, h, F))
     ELSE IF <<"init", h>> \in F THEN
       LET failed == kept(DeleteBuffer(unwiped, h, F))
       IN [failed EXCEPT !.held.wins = @ \cup (IF <<"close", h>> \in F THEN {h} ELSE {})]
     ELSE [s EXCEPT !.host = float, !.fresh = Tail(@)]

-----------------------------------------------------------------------------
(* Side indexes: the positions that are listed, and for each position where   *)
(* in the list it is (0: not listed).                                         *)
NoIndex == [list |-> <<>>, slot |-> <<>>]

SwapRemove(s, k) == Front([s EXCEPT ![k] = Last(s)])

Insert(ix, i) ==
  IF ix.slot[i] # 0 THEN ix
  ELSE [list |-> Append(ix.list, i), slot |-> [ix.slot EXCEPT ![i] = Len(ix.list) + 1]]

Delete(ix, i) ==
  LET k == ix.slot[i]
      list == SwapRemove(ix.list, k)
      slot == [ix.slot EXCEPT ![i] = 0]
  IN IF k = 0 THEN ix
     ELSE [list |-> list, slot |-> IF k <= Len(list) THEN [slot EXCEPT ![list[k]] = k] ELSE slot]

(* Fault: a window that moved in the vector keeps its old position. *)
RetargetNothing(ix, from, to) == ix

Retarget(ix, from, to) ==
  IF ix.slot[from] = 0 THEN ix ELSE [ix EXCEPT !.list[ix.slot[from]] = to]

Unlist(ix) == [list |-> <<>>,
               slot |-> FoldLeft(LAMBDA slot, i : [slot EXCEPT ![i] = 0], ix.slot, ix.list)]

(* A position is listed under one placement at a time. *)
InsertPlace(places, i, at) ==
  IF at = None \/ \E p \in Placements : places[p].slot[i] # 0 THEN places
  ELSE [places EXCEPT ![at] = Insert(@, i)]

EachPlace(places, Op(_)) == [p \in Placements |-> Op(places[p])]

(* What one window counts for. *)
Tally(life) ==
  LET one(lives) == IF life \in lives THEN 1 ELSE 0
  IN [reusable |-> one(Available), inUse |-> one({"inUse"}),
      visible |-> one({"visible", "inUse"}), invalid |-> one({"invalid"})]

Plus(a, b) == [k \in DOMAIN a |-> a[k] + b[k]]
Less(a, b) == [k \in DOMAIN a |-> IF a[k] > b[k] THEN a[k] - b[k] ELSE 0]

-----------------------------------------------------------------------------
EmptyPool ==
  [windows |-> <<>>, used |-> NoIndex, visible |-> NoIndex, reusable |-> NoIndex,
   places |-> [p \in Placements |-> NoIndex],
   counts |-> [reusable |-> 0, inUse |-> 0, visible |-> 0, invalid |-> 0],
   payload |-> [h \in Handles |-> None], epoch |-> 0]

Window(h, life, epoch, at) == [h |-> h, life |-> life, epoch |-> epoch, at |-> at]
InvalidWindow(h) == Window(h, "invalid", 0, None)

PoolHandles(pool) == {pool.windows[i].h : i \in DOMAIN pool.windows}

Track(pool, i) ==
  LET w == pool.windows[i]
  IN [pool EXCEPT
        !.counts = Plus(@, Tally(w.life)),
        !.used = IF w.life = "inUse" THEN Insert(@, i) ELSE @,
        !.visible = IF w.life = "visible" THEN Insert(@, i) ELSE @,
        !.reusable = IF w.life \in Available THEN Insert(@, i) ELSE @,
        !.places = IF w.life \in Available THEN InsertPlace(@, i, w.at) ELSE @]

Untrack(pool, i) ==
  LET w == pool.windows[i]
      drop(ix) == Delete(ix, i)
  IN [pool EXCEPT
        !.counts = Less(@, Tally(w.life)),
        !.used = IF w.life = "inUse" THEN Delete(@, i) ELSE @,
        !.visible = IF w.life = "visible" THEN Delete(@, i) ELSE @,
        !.reusable = IF w.life \in Available THEN Delete(@, i) ELSE @,
        !.places = IF w.life \in Available THEN EachPlace(@, drop) ELSE @]

(* A window changes its lifecycle or its placement. *)
Update(pool, i, w) ==
  IF w = pool.windows[i] THEN pool
  ELSE Track([Untrack(pool, i) EXCEPT !.windows[i] = w], i)

Push(pool, w) ==
  LET widen(ix) == [ix EXCEPT !.slot = Append(@, 0)]
  IN Track([pool EXCEPT !.windows = Append(@, w), !.used = widen(@), !.visible = widen(@),
                        !.reusable = widen(@), !.places = EachPlace(@, widen)],
           Len(pool.windows) + 1)

SwapRemoveWindow(pool, i) ==
  LET last == Len(pool.windows)
      rest == Untrack(pool, i)
      cut(ix) == LET moved == IF i = last THEN ix ELSE Retarget(ix, last, i)
                 IN [list |-> moved.list, slot |-> SwapRemove(ix.slot, i)]
  IN [rest EXCEPT !.payload[pool.windows[i].h] = None,
                  !.windows = SwapRemove(rest.windows, i), !.used = cut(rest.used),
                  !.visible = cut(rest.visible), !.reusable = cut(rest.reusable),
                  !.places = EachPlace(rest.places, cut)]

MarkInvalid(pool, i) ==
  LET h == pool.windows[i].h
  IN IF pool.windows[i].life = "invalid" THEN pool
     ELSE Update([pool EXCEPT !.payload[h] = None], i, InvalidWindow(h))

-----------------------------------------------------------------------------
(* Closing windows. A window that cannot be closed stays, as an invalid one.  *)
CloseAt(s, i, F) ==
  LET h == s.pool.windows[i].h
      closing == CloseFloat(s.host, h, F)
      rest == SwapRemoveWindow(s.pool, i)
  IN [s EXCEPT !.host = closing.host,
               !.pool = IF Retains(closing) THEN Push(rest, InvalidWindow(h)) ELSE rest]

Positions(pool, lives) == {i \in DOMAIN pool.windows : pool.windows[i].life \in lives}

Ascending(positions) == SetToSortSeq(positions, LAMBDA i, j : i < j)
Descending(positions) == SetToSortSeq(positions, LAMBDA i, j : i > j)

RemoveInvalid(s, F) ==
  FoldLeft(LAMBDA r, i : CloseAt(r, i, F), s, Descending(Positions(s.pool, {"invalid"})))

(* Every window of the pool is closed and a new pool keeps those that resist. *)
PurgePool(s, F) ==
  FoldLeft(LAMBDA r, w :
             LET closing == CloseFloat(r.host, w.h, F)
             IN [r EXCEPT !.host = closing.host,
                          !.pool = IF Retains(closing) THEN Push(@, InvalidWindow(w.h)) ELSE @],
           [s EXCEPT !.pool = EmptyPool], s.pool.windows)

(* The windows with one id are closed, until one resists. *)
RemoveHandle(s, h, F) ==
  LET at == {i \in DOMAIN s.pool.windows : s.pool.windows[i].h = h}
  IN IF at = {} THEN s ELSE CloseAt(s, CHOOSE i \in at : \A j \in at : i <= j, F)

-----------------------------------------------------------------------------
(* Frames. A new frame takes back the windows of the last one: they are still *)
(* on the screen, and free to be used again.                                  *)
BeginFrame(pool) ==
  LET release(p, i) ==
        LET w == p.windows[i] IN Update(p, i, [w EXCEPT !.life = "visible"])
  IN FoldLeft(release, [pool EXCEPT !.epoch = @ + 1, !.used = Unlist(@)], pool.used.list)

(* The windows the last frame left on the screen and this one did not use. *)
HideUnused(s, F) ==
  LET hideOne(r, i) ==
        LET h == r.pool.windows[i].h
        IN [r EXCEPT !.host = Hide(@, h, F),
                     !.pool = IF HideFails(r.host, h, F) THEN MarkInvalid(@, i)
                              ELSE Update(@, i, [@.windows[i] EXCEPT !.life = "hidden"])]
  IN FoldLeft(hideOne, [s EXCEPT !.pool.visible = Unlist(@)],
              Descending({s.pool.visible.list[k] : k \in DOMAIN s.pool.visible.list}))

ReleaseUnused(s, F) == RemoveInvalid(HideUnused(s, F), F)

(* Fault: a window that refuses to move is forgotten, not closed. *)
ReserveOrForget(s, i, at, F) ==
  LET w == s.pool.windows[i]
  IN IF s.host.win[w.h] = "gone" \/ <<"config", w.h>> \in F
     THEN [s |-> [s EXCEPT !.pool = SwapRemoveWindow(@, i)], h |-> None]
     ELSE [s |-> [s EXCEPT !.pool = Update(@, i, Window(w.h, "inUse", @.epoch, at)),
                           !.host.win[w.h] = at], h |-> w.h]

(* Fault: a window that is moved stays free to be used again. *)
ReserveAvailable(s, i, at, F) ==
  LET w == s.pool.windows[i]
  IN [s |-> [s EXCEPT !.pool = Update(@, i, Window(w.h, "visible", @.epoch, at)),
                      !.host.win[w.h] = at], h |-> w.h]

(* A window is reserved before the editor is asked to move it. *)
Reserve(s, i, at, F) ==
  LET w == s.pool.windows[i]
      reserved == Update(s.pool, i, Window(w.h, "inUse", s.pool.epoch, at))
      moves == w.life # "visible" \/ w.at # at
      refused == moves /\ (s.host.win[w.h] = "gone" \/ <<"config", w.h>> \in F)
  IN IF refused
     THEN [s |-> CloseAt([s EXCEPT !.pool = MarkInvalid(reserved, i)], i, F), h |-> None]
     ELSE [s |-> [s EXCEPT !.pool = reserved,
                           !.host.win[w.h] = IF moves THEN at ELSE @], h |-> w.h]

(* The last window that was at the placement, else the last one to reuse;     *)
(* a window the editor refuses to move is dropped and the next one tried.     *)
RECURSIVE Acquire(_, _, _)
Acquire(s, at, F) ==
  LET exact == s.pool.places[at].list
      some == IF exact # <<>> THEN exact ELSE s.pool.reusable.list
      orNext(attempt) == IF attempt.h # None THEN attempt ELSE Acquire(attempt.s, at, F)
  IN IF some = <<>> THEN [s |-> s, h |-> None]
     ELSE orNext(Reserve(s, Last(some), at, F))

Least(a, b) == IF a < b THEN a ELSE b

(* How many windows a frame asks for: one to spare unless it bootstraps. *)
CapacityTarget(used, planned, maxKept, policy) ==
  LET required == used + planned
      spare == IF policy = "reuseOnly" THEN 1 ELSE 0
  IN IF required = 0 THEN 0 ELSE Least(required + spare, maxKept)

(* How many windows have to be opened. *)
Shortage(pool, target) ==
  LET usable == pool.counts.reusable + pool.counts.inUse
  IN IF usable >= target THEN 0 ELSE target - usable

EnsureCapacity(s, target, F) ==
  LET swept == RemoveInvalid(s, F)
      open(r, k) ==
        LET h == Head(r.fresh)
            opened == OpenFloat(r, "hidden", F)
        IN IF ~r.ok THEN r
           ELSE IF ~opened.ok THEN opened
           ELSE [opened EXCEPT !.pool = Push(@, Window(h, "hidden", @.epoch, None))]
  IN FoldLeft(open, swept, [k \in 1 .. Shortage(swept.pool, target) |-> k])

(* The text is written unless the pool remembers that the window shows it     *)
(* already. A window whose buffer refuses is dropped. s.done are the spans    *)
(* that count as drawn.                                                       *)
Paint(s, h, span, F) ==
  LET i == CHOOSE j \in DOMAIN s.pool.windows : s.pool.windows[j].h = h
      drawn == [s EXCEPT !.done = @ \cup {[h |-> h, span |-> span]}]
  IN IF s.pool.payload[h] = span.text THEN drawn
     ELSE IF ~s.host.buf[h] \/ <<"extmark", h>> \in F
          THEN RemoveInvalid([s EXCEPT !.pool = MarkInvalid(@, i)], F)
     ELSE [drawn EXCEPT !.host.text[h] = span.text, !.pool.payload[h] = span.text]

(* One span of a frame; a frame that bootstraps ends when no window is left.  *)
PaintWith(got, span, policy, F) ==
  IF got.h = None THEN [got.s EXCEPT !.ok = policy = "reuseOnly"]
  ELSE Paint(got.s, got.h, span, F)

DrawSpan(s, span, policy, F) ==
  IF s.ok THEN PaintWith(Acquire(s, span.at, F), span, policy, F) ELSE s

(* A whole frame. When the windows cannot be provided the frame ends there,   *)
(* and what an earlier frame left is not hidden.                              *)
DrawSpans(ready, frame, policy, F) ==
  IF ready.ok
  THEN ReleaseUnused(FoldLeft(LAMBDA r, span : DrawSpan(r, span, policy, F), ready, frame.spans), F)
  ELSE ready

Provided(begun, frame, maxKept, policy, F) ==
  EnsureCapacity(begun, CapacityTarget(begun.pool.counts.inUse, Len(frame.spans), maxKept, policy), F)

DrawFrame(s, frame, maxKept, policy, F) ==
  LET begun == IF frame.clears THEN [s EXCEPT !.pool = BeginFrame(@)] ELSE s
  IN DrawSpans(Provided(begun, frame, maxKept, policy, F), frame, policy, F)

(* The floats a frame may have to open: how many, at the most. *)
FloatsToOpen(pool, frame, maxKept, policy) ==
  CapacityTarget(IF frame.clears THEN 0 ELSE pool.counts.inUse, Len(frame.spans), maxKept, policy)

-----------------------------------------------------------------------------
(* The bookkeeping says what the windows' lifecycles say.                     *)
Lists(ix, positions) ==
  /\ {ix.list[k] : k \in DOMAIN ix.list} = positions
  /\ Len(ix.list) = Cardinality(positions)
  /\ \A k \in DOMAIN ix.list : ix.slot[ix.list[k]] = k

TrackingIsConsistent(pool) ==
  /\ Lists(pool.used, Positions(pool, {"inUse"}))
  /\ Lists(pool.visible, Positions(pool, {"visible"}))
  /\ Lists(pool.reusable, Positions(pool, Available))
  /\ \A p \in Placements :
       Lists(pool.places[p], {i \in Positions(pool, Available) : pool.windows[i].at = p})
  /\ pool.counts = [reusable |-> Cardinality(Positions(pool, Available)),
                    inUse |-> Cardinality(Positions(pool, {"inUse"})),
                    visible |-> Cardinality(Positions(pool, {"visible", "inUse"})),
                    invalid |-> Cardinality(Positions(pool, {"invalid"}))]
=============================================================================
