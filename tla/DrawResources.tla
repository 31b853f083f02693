---------------------------- MODULE DrawResources -----------------------------
(* The floats the plugin owns in the editor: a pool of windows per tab page,  *)
(* a prepaint overlay per tab page, and the quarantine for handles whose      *)
(* owner is gone. Frames are drawn and cleared, overlays are placed, what     *)
(* turns idle is compacted a few floats at a time, and the user closes        *)
(* windows and tab pages under the plugin. Any call to the editor may fail;   *)
(* a mutation may panic, which hands everything it held to the quarantine.    *)
EXTENDS WindowPool

CONSTANTS Tabs,        \* tab pages, ordered as their handles
          Texts,       \* what a span can show
          MaxKept,     \* windows a pool may keep for a frame
          Budgets,     \* idle targets of compactions
          Attempts,    \* floats a compaction may tear down in one tick
          Editors,     \* bounds: tab pages, float ids, and frames of one pool
          MaxMishaps,  \* bound: failing calls, panics, closes by the user
          Frames,      \* what frames draw, how they allocate, whether they clear the last one
          Failures     \* sets of editor calls that can fail in one operation

VARIABLES editor,     \* the bounds of this behavior
          pools,      \* the windows of each tab page
          prepaint,   \* the overlay of each tab page, or None
          held,       \* quarantined window ids and buffer handles
          floats,     \* the editor's side
          openTabs,   \* the tab pages that are still open
          waiting,    \* deferred teardowns of closed windows and tab pages
          mishaps,    \* how much has gone wrong so far
          report      \* what the last operation said of itself

vars == <<editor, pools, prepaint, held, floats, openTabs, waiting, mishaps, report>>

SortedTabs == Ascending(Tabs)

(* Everything an operation works on, as one record. *)
World == [pools |-> pools, prepaint |-> prepaint, held |-> held, host |-> floats]

Owned(w) == UNION {PoolHandles(w.pools[t]) : t \in Tabs}
              \cup {w.prepaint[t].h : t \in {u \in Tabs : w.prepaint[u] # None}}
              \cup w.held.wins \cup w.held.bufs

(* The editor never hands out an id again while something remembers it. *)
Fresh(w) == Ascending({h \in editor.ids : ~IsLive(w.host, h) /\ <<"window", h>> \notin waiting}
                        \ Owned(w))

(* One tab page's pool worked on by the operations of WindowPool. *)
InTab(w, t) == [pool |-> w.pools[t], host |-> w.host, held |-> w.held,
                fresh |-> Fresh(w), ok |-> TRUE, done |-> {}]
Back(w, t, s) == [w EXCEPT !.pools[t] = s.pool, !.host = s.host, !.held = s.held]

HasVisible(pool) == pool.counts.visible > 0

-----------------------------------------------------------------------------
(* Prepaint overlays. *)
RetainOverlay(overlay, closing) ==
  IF ~Retains(closing) THEN None
  ELSE [overlay EXCEPT !.at = IF closing.window THEN @ ELSE None]

CloseOverlay(w, t, F) ==
  LET closing == CloseFloat(w.host, w.prepaint[t].h, F)
  IN IF w.prepaint[t] = None THEN w
     ELSE [w EXCEPT !.host = closing.host, !.prepaint[t] = RetainOverlay(@, closing)]

OverlayIsValid(w, t) ==
  w.prepaint[t] # None /\ w.host.win[w.prepaint[t].h] # "gone" /\ w.host.buf[w.prepaint[t].h]

(* A new overlay in the place of one that cannot be used. *)
RenewOverlay(w, t, at, F) ==
  LET closed == CloseOverlay(w, t, F)
      s == OpenFloat(InTab(closed, t), at, F)
      created == Back(closed, t, s)
  IN IF closed.prepaint[t] # None THEN [w |-> closed, ok |-> FALSE]
     ELSE IF s.ok THEN [w |-> [created EXCEPT !.prepaint[t] = [h |-> Head(Fresh(closed)), at |-> at]],
                        ok |-> TRUE]
     ELSE [w |-> created, ok |-> FALSE]

(* The overlay is moved, or renewed when the editor refuses to move it. *)
MoveOverlay(w, t, at, F) ==
  LET h == w.prepaint[t].h
  IN IF w.prepaint[t].at = at THEN [w |-> w, ok |-> TRUE]
     ELSE IF <<"config", h>> \in F THEN RenewOverlay(w, t, at, F)
     ELSE [w |-> [w EXCEPT !.host.win[h] = at], ok |-> TRUE]

(* The cursor's cell painted ahead of the frame. *)
PrepaintAt(w, t, at, F) ==
  LET placed == IF OverlayIsValid(w, t) THEN MoveOverlay(w, t, at, F) ELSE RenewOverlay(w, t, at, F)
      h == placed.w.prepaint[t].h
  IN IF ~placed.ok THEN placed.w
     ELSE IF <<"extmark", h>> \in F THEN CloseOverlay(placed.w, t, F)
     ELSE [placed.w EXCEPT !.prepaint[t].at = at, !.host.text[h] = "cursor"]

(* An overlay is hidden for reuse, or closed when it cannot be hidden. *)
ClearOverlay(w, t, F) ==
  LET h == w.prepaint[t].h
  IN IF w.prepaint[t] = None \/ w.prepaint[t].at = None THEN w
     ELSE IF HideFails(w.host, h, F)
          THEN CloseOverlay([w EXCEPT !.host = Hide(@, h, F)], t, F)
     ELSE [w EXCEPT !.host = Hide(@, h, F), !.prepaint[t].at = None]

-----------------------------------------------------------------------------
(* A frame that ends: what it shows is hidden, nothing is closed yet. *)
ClearActive(w, t, F) ==
  LET s == [InTab(w, t) EXCEPT !.pool = BeginFrame(@)]
  IN IF HasVisible(w.pools[t]) THEN Back(w, t, HideUnused(s, F)) ELSE w

(* Compaction. c is the world with the budget left, the counts of what was    *)
(* tried and torn down, whether a float resisted (stalled: no more is tried)  *)
(* and whether something may have vanished from the screen.                   *)
Begin(w, budget) == [w |-> w, left |-> budget, tried |-> 0, closed |-> 0,
                     stalled |-> FALSE, changed |-> FALSE]

(* Fault: the last teardown decides whether a redraw is due. *)
TryLast(c, w, retained, changes) ==
  [w |-> w, left |-> c.left - 1, tried |-> c.tried + 1,
   closed |-> c.closed + (IF retained THEN 0 ELSE 1),
   stalled |-> retained, changed |-> changes]

Try(c, w, retained, changes) ==
  [w |-> w, left |-> c.left - 1, tried |-> c.tried + 1,
   closed |-> c.closed + (IF retained THEN 0 ELSE 1),
   stalled |-> retained, changed |-> c.changed \/ changes]

CloseAtOf(c, t, i, changes, F) ==
  LET retained == Retains(CloseFloat(c.w.host, c.w.pools[t].windows[i].h, F))
  IN IF c.stalled THEN c
     ELSE Try(c, Back(c.w, t, CloseAt(InTab(c.w, t), i, F)), retained, changes)

(* The first positions of a kind, as many as the budget has left. *)
CloseLives(c, lives, F) ==
  FoldLeft(LAMBDA d, t :
             LET all == Ascending(Positions(d.w.pools[t], lives))
                 chosen == SubSeq(all, 1, Least(Len(all), d.left))
             IN FoldLeft(LAMBDA e, i : CloseAtOf(e, t, i, TRUE, F), d, Reverse(chosen)),
           c, SortedTabs)

Total(w) == FoldLeft(LAMBDA n, t : n + Len(w.pools[t].windows), 0, SortedTabs)

(* Reusable windows beyond the budget: those not used for longest. *)
Candidates(w) == UNION {{<<w.pools[t].windows[i].epoch, t, i>> :
                           i \in Positions(w.pools[t], Available)} : t \in Tabs}

Older(a, b) == \/ a[1] < b[1]
               \/ a[1] = b[1] /\ a[2] < b[2]
               \/ a[1] = b[1] /\ a[2] = b[2] /\ a[3] < b[3]

PrunePlan(w, target, budget) ==
  LET excess == IF Total(w) > target THEN Total(w) - target ELSE 0
      byAge == SetToSortSeq(Candidates(w), Older)
  IN Range(SubSeq(byAge, 1, Least(Len(byAge), Least(excess, budget))))

PruneOldest(c, target, F) ==
  LET plan == IF c.stalled THEN {} ELSE PrunePlan(c.w, target, c.left)
  IN FoldLeft(LAMBDA d, t :
                FoldLeft(LAMBDA e, i : CloseAtOf(e, t, i, FALSE, F), d,
                         Descending({c3[3] : c3 \in {x \in plan : x[2] = t}})),
              c, SortedTabs)

CompactOverlays(c, F) ==
  FoldLeft(LAMBDA d, t :
             LET overlay == d.w.prepaint[t]
             IN IF d.stalled \/ d.left = 0 \/ overlay = None THEN d
                ELSE Try(d, CloseOverlay(d.w, t, F), Retains(CloseFloat(d.w.host, overlay.h, F)),
                         overlay.at # None),
           c, SortedTabs)

(* The quarantine is emptied, ids in order, windows before buffers. With a    *)
(* policy that stops, nothing is tried after one that resists.                *)
PurgeHeld(c, stops, F) ==
  LET closeWindow(d, h) ==
        LET host == CloseWindow(d.w.host, h, F)
            retained == host.win[h] # "gone"
            next == Try(d, [d.w EXCEPT !.host = host,
                                       !.held.wins = IF retained THEN @ ELSE @ \ {h}], retained, TRUE)
        IN IF d.left = 0 \/ (stops /\ d.stalled) THEN d
           ELSE [next EXCEPT !.stalled = @ \/ d.stalled]
      deleteBuffer(d, h) ==
        LET host == DeleteBuffer(ClearNamespace(d.w.host, h, F), h, F)
            retained == host.buf[h]
            next == Try(d, [d.w EXCEPT !.host = host,
                                       !.held.bufs = IF retained THEN @ ELSE @ \ {h}], retained, TRUE)
        IN IF d.left = 0 \/ (stops /\ d.stalled) THEN d
           ELSE [next EXCEPT !.stalled = @ \/ d.stalled]
  IN FoldLeft(deleteBuffer,
              FoldLeft(closeWindow, c, Ascending(c.w.held.wins)), Ascending(c.w.held.bufs))

Compaction(w, target, budget, F) ==
  LET visible == CloseLives(Begin(w, budget), {"visible", "inUse"}, F)
      invalid == CloseLives(visible, {"invalid"}, F)
  IN PurgeHeld(CompactOverlays(PruneOldest(invalid, target, F), F), TRUE, F)

(* Fault: what waits in the quarantine does not count. *)
ConvergedButHeld(w, target) ==
  /\ Total(w) <= target
  /\ \A t \in Tabs : ~HasVisible(w.pools[t]) /\ w.pools[t].counts.invalid = 0
  /\ \A t \in Tabs : w.prepaint[t] = None

Converged(w, target) ==
  /\ Total(w) <= target
  /\ \A t \in Tabs : ~HasVisible(w.pools[t]) /\ w.pools[t].counts.invalid = 0
  /\ \A t \in Tabs : w.prepaint[t] = None
  /\ w.held.wins \cup w.held.bufs = {}

-----------------------------------------------------------------------------
(* Teardowns. *)
PruneTab(w, t, F) == CloseOverlay(Back(w, t, PurgePool(InTab(w, t), F)), t, F)

PruneWindow(w, h, F) ==
  LET pruned == FoldLeft(LAMBDA v, t : Back(v, t, RemoveHandle(InTab(v, t), h, F)), w, SortedTabs)
  IN FoldLeft(LAMBDA v, t : IF v.prepaint[t] # None /\ v.prepaint[t].h = h
                            THEN CloseOverlay(v, t, F) ELSE v, pruned, SortedTabs)

(* Everything is closed, the quarantine included. *)
PurgeAll(w, F) ==
  LET overlays == FoldLeft(LAMBDA v, t : CloseOverlay(v, t, F), w, SortedTabs)
      all == FoldLeft(LAMBDA v, t : Back(v, t, PurgePool(InTab(v, t), F)), overlays, SortedTabs)
  IN PurgeHeld(Begin(all, 2 * Cardinality(Handles)), FALSE, F).w

-----------------------------------------------------------------------------
Report(op, t, F) == [op |-> op, tab |-> t, failed |-> F # {}, done |-> {}, redraw |-> FALSE,
                     target |-> 0, tried |-> 0, closed |-> 0, stalled |-> FALSE]

(* Operations that report nothing. *)
Quiet == Report("other", 1, {})

(* The outcome of an operation on which the calls in F failed. *)
Becomes(w, F, r) ==
  /\ pools' = w.pools
  /\ prepaint' = w.prepaint
  /\ held' = w.held
  /\ floats' = w.host
  /\ report' = r
  /\ mishaps' = mishaps + (IF F = {} THEN 0 ELSE 1)
  /\ UNCHANGED <<editor, openTabs, waiting>>

Init ==
  /\ pools = [t \in Tabs |-> EmptyPool]
  /\ prepaint = [t \in Tabs |-> None]
  /\ held = [wins |-> {}, bufs |-> {}]
  /\ floats = NoFloats
  /\ editor \in Editors
  /\ openTabs = editor.tabs
  /\ waiting = {}
  /\ mishaps = 0
  /\ report = Quiet

(* A frame is drawn in the tab page the user is in, once its overlay is gone. *)
Draw(t, frame, F) ==
  LET cleared == ClearOverlay(World, t, F)
      s == DrawFrame(InTab(cleared, t), frame, MaxKept, frame.policy, F)
  IN /\ t \in openTabs
     /\ pools[t].epoch < editor.frames
     /\ FloatsToOpen(pools[t], frame, MaxKept, frame.policy) <= Len(Fresh(cleared))
     /\ Becomes(Back(cleared, t, s), F, [Report("draw", t, {}) EXCEPT !.done = s.done])

(* The viewport is not the planned one any more: only the overlay goes. *)
Drift(t, F) ==
  /\ t \in openTabs
  /\ prepaint[t] # None
  /\ Becomes(ClearOverlay(World, t, F), F, Quiet)

(* A proposal that shows nothing. *)
Clear(t, F) ==
  LET cleared == ClearActive(ClearOverlay(World, t, F), t, F)
  IN /\ t \in openTabs
     /\ Becomes(cleared, F, [Report("clear", t, {}) EXCEPT !.redraw = HasVisible(pools[t])])

Prepaint(t, at, F) ==
  /\ t \in openTabs
  /\ Fresh(World) # <<>>
  /\ Becomes(PrepaintAt(World, t, at, F), F, Quiet)

(* The soft cleanup, and the fence while the plugin cools: the tab page the   *)
(* user is in stops showing anything.                                         *)
SoftClear(t, F) ==
  LET active == ClearActive(World, t, F)
      cleared == ClearOverlay(active, t, F)
      vanished == /\ prepaint[t] # None
                  /\ prepaint[t].at # None
                  /\ (cleared.prepaint[t] = None \/ cleared.prepaint[t].at = None)
  IN /\ t \in openTabs
     /\ Becomes(cleared, F,
                [Report("soft", t, F) EXCEPT !.redraw = HasVisible(pools[t]) \/ vanished])

Compact(target, budget, F) ==
  LET c == Compaction(World, target, budget, F)
  IN Becomes(c.w, F, [Report("compact", 1, F) EXCEPT
                        !.redraw = c.changed, !.target = target, !.tried = c.tried,
                        !.closed = c.closed, !.stalled = c.stalled])

(* The deferred teardown of what the editor said was closed. *)
TearDown(what, F) ==
  LET w == IF what[1] = "tab" THEN PruneTab(World, what[2], F) ELSE PruneWindow(World, what[2], F)
  IN /\ what \in waiting
     /\ pools' = w.pools
     /\ prepaint' = w.prepaint
     /\ held' = w.held
     /\ floats' = w.host
     /\ waiting' = waiting \ {what}
     /\ report' = Quiet
     /\ mishaps' = mishaps + (IF F = {} THEN 0 ELSE 1)
     /\ UNCHANGED <<editor, openTabs>>

Purge(F) == Becomes(PurgeAll(World, F), F, Quiet)

(* A mutation of one of the detached maps panics. *)
PanicInPools ==
  LET lost == UNION {PoolHandles(pools[t]) : t \in Tabs}
  IN /\ lost # {}
     /\ mishaps < MaxMishaps
     /\ Becomes([World EXCEPT !.pools = [t \in Tabs |-> EmptyPool],
                              !.held.wins = @ \cup lost, !.held.bufs = @ \cup lost],
                {"panic"}, Quiet)

PanicInPrepaint ==
  LET lost == {prepaint[t].h : t \in {u \in Tabs : prepaint[u] # None}}
  IN /\ lost # {}
     /\ mishaps < MaxMishaps
     /\ Becomes([World EXCEPT !.prepaint = [t \in Tabs |-> None],
                              !.held.wins = @ \cup lost, !.held.bufs = @ \cup lost],
                {"panic"}, Quiet)

(* The user closes a float; the event may be suppressed. *)
UserCloses(h, told) ==
  /\ floats.win[h] # "gone"
  /\ mishaps < MaxMishaps
  /\ mishaps' = mishaps + 1
  /\ floats' = Wipe(floats, h)
  /\ waiting' = IF told THEN waiting \cup {<<"window", h>>} ELSE waiting
  /\ report' = Quiet
  /\ UNCHANGED <<editor, pools, prepaint, held, openTabs>>

(* The user closes a tab page and every float in it. *)
TabCloses(t, told) ==
  LET gone == {h \in Handles : h \in PoolHandles(pools[t])
                                \/ (prepaint[t] # None /\ prepaint[t].h = h)}
  IN /\ openTabs # {t}
     /\ t \in openTabs
     /\ mishaps < MaxMishaps
     /\ mishaps' = mishaps + 1
     /\ floats' = FoldLeft(Wipe, floats, Ascending(gone))
     /\ openTabs' = openTabs \ {t}
     /\ waiting' = IF told THEN waiting \cup {<<"tab", t>>} ELSE waiting
     /\ report' = Quiet
     /\ UNCHANGED <<editor, pools, prepaint, held>>

(* The calls that may fail now, on floats this editor can have. *)
Faults == IF mishaps < MaxMishaps
          THEN {F \in Failures : \A failing \in F : failing[2] \in editor.ids}
          ELSE {{}}

Next ==
  \/ \E F \in Faults, t \in Tabs :
       \/ \E frame \in Frames : Draw(t, frame, F)
       \/ \E at \in Placements : Prepaint(t, at, F)
       \/ Drift(t, F)
       \/ Clear(t, F)
       \/ SoftClear(t, F)
  \/ \E F \in Faults, target \in Budgets, budget \in Attempts : Compact(target, budget, F)
  \/ \E F \in Faults, what \in waiting : TearDown(what, F)
  \/ \E F \in Faults : Purge(F)
  \/ PanicInPools
  \/ PanicInPrepaint
  \/ \E h \in Handles, told \in BOOLEAN : UserCloses(h, told)
  \/ \E t \in Tabs, told \in BOOLEAN : TabCloses(t, told)

Spec == Init /\ [][Next]_vars

-----------------------------------------------------------------------------
(* The indexes and counters of every pool say what its windows' lifecycles    *)
(* say, after every sequence of operations, failures and closes.              *)
TrackingIsTrue == \A t \in Tabs : TrackingIsConsistent(pools[t])

(* No float is lost: what lives in the editor is held by exactly one owner,   *)
(* a pool, an overlay or the quarantine, so a later cleanup can close it.     *)
NothingLeaks ==
  \A h \in Handles :
    LET inPools == {<<t, i>> \in Tabs \X (1 .. Cardinality(Handles)) :
                      i \in DOMAIN pools[t].windows /\ pools[t].windows[i].h = h}
        inPrepaint == {t \in Tabs : prepaint[t] # None /\ prepaint[t].h = h}
        quarantined == h \in held.wins \cup held.bufs
    IN /\ Cardinality(inPools) + Cardinality(inPrepaint) + (IF quarantined THEN 1 ELSE 0) <= 1
       /\ IsLive(floats, h) => inPools \cup inPrepaint # {} \/ quarantined
       /\ floats.win[h] # "gone" /\ quarantined => h \in held.wins

(* What an operation reports is what the screen shows. After a compaction     *)
(* that converged nothing is shown and no more floats live than its target;   *)
(* one on which nothing failed converges or gets further, and no compaction   *)
(* tears down more than it may. A soft clear leaves only floats on the screen *)
(* that resisted.                                                             *)
ReportsAreTrue ==
  /\ report.op = "compact" =>
       /\ Converged(World, report.target) =>
            /\ \A h \in Handles : ~IsShown(floats, h)
            /\ Cardinality({h \in Handles : IsLive(floats, h)}) <= report.target
       /\ ~report.failed =>
            ~report.stalled /\ (Converged(World, report.target) \/ report.closed > 0)
       /\ report.tried <= CHOOSE n \in Attempts : \A m \in Attempts : m <= n
  /\ report.op = "soft" =>
       /\ \A i \in DOMAIN pools[report.tab].windows :
            LET w == pools[report.tab].windows[i]
            IN IsShown(floats, w.h) => w.life = "invalid"
       /\ ~report.failed /\ prepaint[report.tab] # None => prepaint[report.tab].at = None

(* When the plugin cleans up, a float does not vanish from the screen without *)
(* a redraw being asked for. (An overlay that is placed, refuses its text and *)
(* then resists its teardown stays on record as hidden: it is left out.)      *)
OnRecord(h) == \A t \in Tabs : prepaint[t] # None => prepaint[t].h # h \/ prepaint[t].at # None

VanishingIsRedrawn ==
  [][report'.op \in {"soft", "compact"} /\ ~report'.redraw =>
       \A h \in Handles : OnRecord(h) /\ IsShown(floats, h) => IsShown(floats', h)]_vars

(* A frame that counts a span as drawn shows it: a window of its own, at its  *)
(* place, with its text.                                                      *)
DrawnSpansHaveWindows ==
  report.op = "draw" =>
    \A d \in report.done :
      /\ \A e \in report.done : e.h = d.h => e = d
      /\ \E i \in DOMAIN pools[report.tab].windows :
           LET w == pools[report.tab].windows[i]
           IN w.h = d.h /\ w.life = "inUse" /\ w.at = d.span.at
      /\ IsShown(floats, d.h) => floats.win[d.h] = d.span.at

(* A span that counts as drawn is on the screen, a cached payload included:   *)
(* "cached payload reuse already satisfies the planned span".                 *)
SatisfiedSpansAreShown ==
  report.op = "draw" => \A d \in report.done : floats.text[d.h] = d.span.text
=============================================================================
