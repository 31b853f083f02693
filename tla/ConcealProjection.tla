--------------------------- MODULE ConcealProjection ---------------------------
(* Where the cursor is drawn in a line whose text is partly concealed. The   *)
(* editor reports the cell a column would have if nothing were concealed;    *)
(* the reader subtracts the cells the concealed regions before it hide. An   *)
(* exact read scans the line anew, a fast read may answer from what the last *)
(* exact read left in the caches. One line of one buffer in one window: the  *)
(* buffer, the window and the line are parts of every key.                   *)
EXTENDS Naturals, Integers, Sequences, FiniteSets, Folds, SequencesExt

CONSTANTS Contents,    \* what the line may be: widths and concealed matches of its columns
          Surfaces,    \* geometries of the window: the width of its text and where it starts
          Options,     \* conceallevel and the modes of concealcursor
          CmdlineRow,  \* the row of the command line
          Nothing,     \* no cell, no cached value
          MaxChanges   \* bound: edits, matches that come and go, resizes, option changes

VARIABLES line,      \* the content of the line
          surface,   \* the window as it is
          options,   \* conceallevel and the modes of concealcursor
          revision,  \* the text revision the plugin knows, INITIAL when forgotten
          untold,    \* an edit whose TextChanged has not run
          regions,   \* conceal_lines: by revision and options
          deltas,    \* conceal_deltas: by surface too
          cells,     \* conceal_screen_cells: by surface and column
          seen,      \* the last observation
          changes

vars == <<line, surface, options, revision, untold, regions, deltas, cells, seen, changes>>
editorVars == <<line, surface, options, revision, untold, changes>>
caches == <<regions, deltas, cells>>

Columns(content) == 1 .. Len(content)

-----------------------------------------------------------------------------
(* The editor: content[c] is [width, match, shown], a column that shows as   *)
(* `width` cells unless it belongs to a concealed match (0: none), whose     *)
(* columns show together as `shown` cells.                                   *)
RawOffset(content, col) == FoldLeft(LAMBDA sum, c : sum + c.width, 0, SubSeq(content, 1, col - 1))

Cell(s, offset) == <<1 + (offset \div s.width), s.start + (offset % s.width)>>

ScreenPos(content, s, col) == Cell(s, RawOffset(content, col))

(* What the editor draws: a concealed run takes as many cells as its         *)
(* replacement, and never more than its text.                                *)
RunStarts(content, col) ==
  {c \in 1 .. (col - 1) : /\ content[c].match # 0
                          /\ c = 1 \/ content[c - 1].match # content[c].match}

RunEnd(content, col, c) ==
  CHOOSE e \in c .. (col - 1) :
    /\ \A k \in c .. e : content[k].match = content[c].match
    /\ e = col - 1 \/ content[e + 1].match # content[c].match

HiddenBefore(content, col) ==
  LET Hidden(c) == LET raw == RawOffset(content, RunEnd(content, col, c) + 1) - RawOffset(content, c)
                   IN IF raw > content[c].shown THEN raw - content[c].shown ELSE 0
  IN MapThenFoldSet(+, 0, Hidden, LAMBDA S : CHOOSE x \in S : TRUE, RunStarts(content, col))

Displayed(content, s, col) == Cell(s, RawOffset(content, col) - HiddenBefore(content, col))

-----------------------------------------------------------------------------
(* The reader's arithmetic. *)
Region(first, last, c) == [first |-> first, last |-> last, match |-> c.match, shown |-> c.shown]

MergeConcealRegion(found, col, c) ==
  IF found # <<>> /\ Last(found).match = c.match /\ Last(found).shown = c.shown
       /\ Last(found).last + 1 = col
  THEN Front(found) \o <<[Last(found) EXCEPT !.last = col]>>
  ELSE Append(found, Region(col, col, c))

ConcealedRegions(content, upto) ==
  FoldLeftDomain(LAMBDA found, c : IF c > upto \/ content[c].match = 0 THEN found
                                   ELSE MergeConcealRegion(found, c, content[c]),
                 <<>>, content)

Contained(s, cell) == cell[2] \in s.start .. (s.start + s.width - 1)
Linear(s, cell) == (cell[1] - 1) * s.width + (cell[2] - s.start)

(* Cells between two cells of a wrapped line, or Nothing. *)
WrappedCellDelta(s, from, to) ==
  IF from[1] = to[1] THEN to[2] - from[2]
  ELSE IF to[1] < from[1] \/ ~Contained(s, from) \/ ~Contained(s, to) THEN Nothing
       ELSE Linear(s, to) - Linear(s, from)

ShiftLeft(s, cell, delta) ==
  IF delta = 0 THEN cell
  ELSE IF ~Contained(s, cell) \/ Linear(s, cell) < delta THEN Nothing
       ELSE Cell(s, Linear(s, cell) - delta)

(* What the regions before a column hide; Nothing when the layout does not   *)
(* say, and a region whose ends are not on the screen hides nothing.         *)
ConcealDelta(col, raw, found, s, cellOf) ==
  LET Add(sum, r) ==
        LET from == cellOf[r.first]
            next == (IF r.last < col - 1 THEN r.last ELSE col - 1) + 1
            to   == IF next = col THEN raw ELSE cellOf[next]
            wide == WrappedCellDelta(s, from, to)
        IN IF sum = Nothing \/ r.first >= col \/ from = Nothing \/ to = Nothing THEN sum
           ELSE IF wide = Nothing THEN Nothing
                ELSE sum + (IF wide > r.shown THEN wide - r.shown ELSE 0)
  IN FoldLeft(Add, 0, found)

-----------------------------------------------------------------------------
(* The caches are partial functions; an entry also says which content it was *)
(* read from, which the plugin does not know.                                *)
Key == <<revision, options>>
Lookup(cache, key) == IF key \in DOMAIN cache THEN cache[key] ELSE Nothing
Put(cache, key, value) == [k \in DOMAIN cache \cup {key} |-> IF k = key THEN value ELSE cache[k]]
Empty == <<>>

CellKey(s, col) == <<Key, s, col>>
DeltaKey(s) == <<Key, s>>

ConcealAllowsMode(mode) == options.level > 0 /\ mode \in options.modes

(* An answer, and what it was read from. *)
Observed(kind, cell, col, of, fast) ==
  [kind |-> kind, cell |-> cell, where |-> "buffer",
   col |-> col, of |-> of, on |-> surface, fast |-> fast, told |-> ~untold]

Unavailable == [kind |-> "Unavailable", cell |-> Nothing, where |-> "buffer",
                col |-> 1, of |-> Nothing, on |-> Nothing, fast |-> FALSE, told |-> TRUE]

(* In a mode that conceals nothing the cursor line is shown as it is. *)
Plain(content) == [c \in Columns(content) |-> [content[c] EXCEPT !.match = 0]]

(* The exact read: forget the hints, scan the line, keep what was found. *)
ResolveBufferCursorPosition(mode, col) ==
  LET raw   == ScreenPos(line, surface, col)
      found == ConcealedRegions(line, col - 1)
      delta == ConcealDelta(col, raw, found, surface,
                            [c \in 1 .. (col - 1) |-> ScreenPos(line, surface, c)])
      asked == {r.first : r \in {q \in Range(found) : q.first < col}}
                 \cup {r.last + 1 : r \in {q \in Range(found) : q.last + 1 < col}}
      cell  == IF delta = Nothing THEN Nothing ELSE ShiftLeft(surface, raw, delta)
  IN IF col = 1 \/ ~ConcealAllowsMode(mode)
     THEN /\ seen' = Observed("Exact", raw, col, Plain(line), FALSE)
          /\ UNCHANGED caches
     ELSE /\ regions' = Put(Empty, Key, [upto |-> col - 1, found |-> found, of |-> line])
          /\ cells' = IF found = <<>> THEN Empty
                      ELSE [k \in {CellKey(surface, c) : c \in asked} |->
                              [cell |-> ScreenPos(line, surface, CHOOSE c \in asked : CellKey(surface, c) = k)]]
          /\ deltas' = IF found = <<>> \/ delta = Nothing THEN Empty
                       ELSE Put(Empty, DeltaKey(surface), [col |-> col, delta |-> delta])
          /\ seen' = IF found = <<>> THEN Observed("Exact", raw, col, line, FALSE)
                     ELSE IF cell = Nothing THEN Unavailable
                     ELSE Observed("Exact", cell, col, line, FALSE)

(* The fast read: what the caches say, or else the exact read. A region      *)
(* before the column makes the answer deferred: it will be sampled again.    *)
ObservedCellForRawScreenpos(mode, col) ==
  LET raw   == ScreenPos(line, surface, col)
      hint  == Lookup(regions, Key)
      known(c) == CellKey(surface, c) \in DOMAIN cells
      kept  == Lookup(deltas, DeltaKey(surface))
      before == {r \in Range(hint.found) : r.first < col}
      needed == {r.first : r \in before} \cup {r.last + 1 : r \in {q \in before : q.last + 1 < col}}
      delta == IF kept # Nothing /\ kept.col = col THEN kept.delta
               ELSE IF \A c \in needed : known(c)
                    THEN ConcealDelta(col, raw, hint.found, surface,
                                      [c \in needed |-> cells[CellKey(surface, c)].cell])
                    ELSE Nothing
      cell  == IF delta = Nothing THEN Nothing ELSE ShiftLeft(surface, raw, delta)
  IN IF col = 1 \/ ~ConcealAllowsMode(mode)
     THEN /\ seen' = Observed("Exact", raw, col, Plain(line), TRUE)
          /\ UNCHANGED caches
     ELSE IF hint = Nothing THEN ResolveBufferCursorPosition(mode, col)
     ELSE IF hint.upto < col - 1 THEN ResolveBufferCursorPosition(mode, col)
     ELSE IF before # {} /\ cell = Nothing THEN ResolveBufferCursorPosition(mode, col)
     ELSE /\ seen' = Observed(IF before = {} THEN "Exact" ELSE "Deferred",
                              IF before = {} THEN raw ELSE cell, col, hint.of, TRUE)
          /\ UNCHANGED caches

-----------------------------------------------------------------------------
(* The host. What it reports is read by the next observation; only some of   *)
(* it comes with an event the plugin hears.                                  *)
SameLayout(a, b) == Len(a) = Len(b) /\ \A c \in Columns(a) : a[c].width = b[c].width

Change == changes < MaxChanges /\ changes' = changes + 1

Edit(content) ==
  /\ Change
  /\ content # line
  /\ line' = content
  /\ untold' = TRUE
  /\ UNCHANGED <<surface, options, revision, caches, seen>>

(* Matches and extmarks come and go without an event. *)
MatchesChange(content) ==
  /\ Change
  /\ content # line
  /\ SameLayout(content, line)
  /\ line' = content
  /\ UNCHANGED <<surface, options, revision, untold, caches, seen>>

Resize(s) ==
  /\ Change
  /\ s # surface
  /\ surface' = s
  /\ UNCHANGED <<line, options, revision, untold, caches, seen>>

(* Fault: a new revision is trusted to be a new key. *)
TextChangedKeepingCaches ==
  /\ untold
  /\ untold' = FALSE
  /\ revision' = revision + 1
  /\ UNCHANGED <<line, surface, options, caches, seen, changes>>

TextChanged ==
  /\ untold
  /\ untold' = FALSE
  /\ revision' = revision + 1
  /\ regions' = Empty /\ deltas' = Empty /\ cells' = Empty
  /\ UNCHANGED <<line, surface, options, seen, changes>>

OptionSet(o) ==
  /\ Change
  /\ o # options
  /\ options' = o
  /\ regions' = Empty /\ deltas' = Empty /\ cells' = Empty
  /\ UNCHANGED <<line, surface, revision, untold, seen>>

(* Edits of other buffers push this one out of the list of revisions. *)
ForgetRevision ==
  /\ revision # 0
  /\ revision' = 0
  /\ UNCHANGED <<line, surface, options, untold, caches, seen, changes>>

-----------------------------------------------------------------------------
(* One observation: while the command line is typed in, its cursor is the    *)
(* one that counts, if the plugin is to follow it there.                     *)
ScreenCursorObservation(mode, col, deferred) ==
  IF deferred THEN ObservedCellForRawScreenpos(mode, col) ELSE ResolveBufferCursorPosition(mode, col)

Observe(mode, col, deferred) ==
  /\ ScreenCursorObservation(mode, col, deferred)
  /\ UNCHANGED editorVars

(* Mode c without a command being typed is a prefix key in the buffer. *)
CmdlineCursorObservation(typing, smearToCmd, screenCol, col, deferred) ==
  /\ IF smearToCmd /\ ~typing THEN ScreenCursorObservation("n", col, deferred)
     ELSE /\ seen' = [Unavailable EXCEPT !.where = "cmdline",
                                         !.kind = IF smearToCmd /\ screenCol > 0 THEN "Exact" ELSE @,
                                         !.cell = IF smearToCmd /\ screenCol > 0 THEN <<CmdlineRow, screenCol>> ELSE @]
          /\ UNCHANGED caches
  /\ UNCHANGED editorVars

Init ==
  /\ line \in Contents
  /\ surface \in Surfaces
  /\ options \in Options
  /\ revision = 0 /\ untold = FALSE
  /\ regions = Empty /\ deltas = Empty /\ cells = Empty
  /\ seen = Unavailable
  /\ changes = 0

Next ==
  \/ \E mode \in {"n", "i"}, col \in Columns(line), deferred \in BOOLEAN : Observe(mode, col, deferred)
  \/ \E typing, smear \in BOOLEAN, screenCol \in 0 .. 1 :
       CmdlineCursorObservation(typing, smear, screenCol, Len(line), TRUE)
  \/ \E content \in Contents : Edit(content) \/ MatchesChange(content)
  \/ \E s \in Surfaces : Resize(s)
  \/ \E o \in Options : OptionSet(o)
  \/ TextChanged
  \/ ForgetRevision

Spec == Init /\ [][Next]_vars

-----------------------------------------------------------------------------
(* The cursor is drawn where the editor shows it. Runs may wrap, touch each  *)
(* other or be replaced by as much as they hide: an exact answer is the cell *)
(* the editor draws. A fast answer is the one the last exact read of this    *)
(* text leads to, under the geometry of now: hints of another text, which a  *)
(* revision counted anew could bring back, or of another geometry, are never *)
(* used once the plugin has heard of the edit (conceal.rs                    *)
(* resolve_buffer_cursor_position, observed_cell_for_raw_screenpos).         *)
CursorIsWhereShown ==
  (seen.where = "buffer" /\ seen.kind # "Unavailable" /\ (seen.fast => seen.told))
    => seen.cell = Displayed(seen.of, seen.on, seen.col)
=============================================================================
