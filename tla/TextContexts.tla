---------------------------- MODULE TextContexts ----------------------------
(***************************************************************************)
(* How an observation tells an edit at the cursor from a move.  An          *)
(* observation carries the rows around the cursor and the rows around the   *)
(* line where the cursor was tracked before; two successive observations    *)
(* are compared, and an edit makes the smear jump instead of fly.  The rows *)
(* are cached by buffer revision and lines, and are not read at all when    *)
(* the observation kept from before has the same revision.                  *)
(* (events/handlers/observation/text_context.rs, events/probe_cache.rs,     *)
(* core/state/observation/cursor_context.rs and semantic.rs)                *)
(*                                                                         *)
(* One buffer; a row is a number, an edit of a row writes a number never    *)
(* used before.  Whole rows and the whole buffer as it was at the last      *)
(* observation ("text") are kept for the properties only.                   *)
(***************************************************************************)
EXTENDS Naturals, Sequences

CONSTANTS
    FirstRows,      \* the buffer at the start: a sequence of numbers
    CacheCapacity,  \* CURSOR_TEXT_CONTEXT_CACHE_CAPACITY
    NoContext,      \* Option::None of a context, an observation or a line
    Followed,       \* the modes in which the configuration has the runtime follow
    MaxEdits        \* bound on the edits of the buffer

VARIABLES
    rows,      \* the lines of the buffer
    writes,    \* the edits made, also the last number written
    mute,      \* edits were made since the last event that was not suppressed
    rev,       \* the buffer's text revision
    caret,     \* the cursor's line
    modeNow,   \* the editor's mode
    tracked,   \* the line the runtime tracks, or NoContext
    kept,      \* the observation of before, or NoContext
    contexts,  \* the cache: <<key, context>>, most recently used first
    semantic,  \* what the last observation was taken for
    truth      \* for the properties: what had happened since the one before

vars == <<rows, writes, mute, rev, caret, modeNow, tracked, kept, contexts, semantic, truth>>

Events == {"FrameCommitted", "ModeChanged", "CursorMovedWithoutTextMutation",
           "TextMutatedAtCursorContext", "ViewportOrWindowMoved"}

-----------------------------------------------------------------------------
(* Reading the rows around a line                                           *)

\* The line and its neighbours, as far as the buffer has them.
ObservedTextRows(line) ==
    SubSeq(rows, IF line > 1 THEN line - 1 ELSE 1,
                 IF line < Len(rows) THEN line + 1 ELSE Len(rows))

Key == [revision |-> rev, line |-> caret, trackedLine |-> tracked]

\* A context as it is read from the buffer; no row is no context.
ReadContext ==
    IF ObservedTextRows(caret) = << >> THEN NoContext
    ELSE [revision |-> rev, line |-> caret, nearby |-> ObservedTextRows(caret),
          trackedRows |-> IF tracked = NoContext THEN << >> ELSE ObservedTextRows(tracked)]

\* The cache's answer for a key: the first entry that has it.
CachedContexts(key) == {c \in 1 .. Len(contexts) : contexts[c].key = key}

\* The most recently used entries, the named one first.
StoreContext(key, context) ==
    SubSeq(<<[key |-> key, context |-> context]>> \o
               SelectSeq(contexts, LAMBDA c : c.key # key), 1,
           IF Len(contexts) + 1 > CacheCapacity /\ CachedContexts(key) = {}
           THEN CacheCapacity
           ELSE Len(contexts) + (IF CachedContexts(key) = {} THEN 1 ELSE 0))

\* An observation that is kept with the revision of now spares the reading.
SkipSampling == kept # NoContext /\ kept.boundary = rev

-----------------------------------------------------------------------------
(* What two observations say of each other                                  *)

RowsDiffer(before, after) == before # after

(* Fault: the revisions are not compared. *)
MutatedInOneRevision(before, after) ==
    /\ before.context # NoContext /\ after.context # NoContext
    /\ after.context.trackedRows # << >>
    /\ RowsDiffer(before.context.nearby, after.context.trackedRows)

TextMutated(before, after) ==
    /\ before.context # NoContext /\ after.context # NoContext
    /\ before.context.revision # after.context.revision
    /\ \/ /\ after.context.trackedRows # << >>
          /\ RowsDiffer(before.context.nearby, after.context.trackedRows)
       \/ /\ before.context.line = after.context.line
          /\ RowsDiffer(before.context.nearby, after.context.nearby)

Classify(before, after, asked, scrolled) ==
    IF before = NoContext THEN "FrameCommitted"
    ELSE IF asked = "ModeChanged" \/ before.mode # after.mode THEN "ModeChanged"
    ELSE IF TextMutated(before, after) THEN "TextMutatedAtCursorContext"
    ELSE IF scrolled THEN "ViewportOrWindowMoved"
    ELSE IF before.line # after.line THEN "CursorMovedWithoutTextMutation"
    ELSE "FrameCommitted"

-----------------------------------------------------------------------------
(* The observation                                                          *)

\* The rows and the revision go into the basis, the basis is compared with
\* the one before, and the runtime tracks the line unless the configuration
\* leaves the mode alone.  The window may show other lines or have
\* moved since the observation before ("scrolled").
Observation(context, boundary) ==
    [mode |-> modeNow, line |-> caret,
     context |-> context, boundary |-> boundary, text |-> rows, mute |-> mute]

\* What had really happened between two observations: whether the text, or
\* the row under a cursor that stayed, had changed, with every event heard;
\* whether the revisions had started over; and whether the revisions and the
\* rows of both were at hand.
Truth(before, after) ==
    IF before = NoContext THEN NoContext
    ELSE [edited |-> before.text # after.text,
          atCursor |-> /\ before.line = after.line
                       /\ before.text[before.line] # after.text[after.line]
                       /\ ~before.mute /\ ~after.mute,
          restarted |-> /\ before.boundary # NoContext /\ after.boundary # NoContext
                        /\ before.boundary > after.boundary,
          revisions |-> before.boundary # NoContext /\ after.context # NoContext,
          sampled |-> before.context # NoContext /\ after.context # NoContext]

Complete(context, boundary, asked, scrolled) ==
    /\ kept' = Observation(context, boundary)
    /\ semantic' = Classify(kept, Observation(context, boundary), asked, scrolled)
    /\ truth' = Truth(kept, Observation(context, boundary))
    /\ tracked' = IF modeNow \in Followed THEN caret ELSE tracked
    /\ UNCHANGED <<rows, writes, mute, rev, caret, modeNow>>

AnswerFromCache(asked, scrolled) ==
    \E c \in CachedContexts(Key) :
        /\ contexts' = StoreContext(Key, contexts[c].context)
        /\ Complete(contexts[c].context, rev, asked, scrolled)

SkipReading(asked, scrolled) ==
    /\ CachedContexts(Key) = {}
    /\ SkipSampling
    /\ UNCHANGED contexts
    /\ Complete(NoContext, rev, asked, scrolled)

ReadRows(asked, scrolled) ==
    /\ CachedContexts(Key) = {}
    /\ ~SkipSampling
    /\ contexts' = StoreContext(Key, ReadContext)
    /\ Complete(ReadContext, rev, asked, scrolled)

\* A failed read leaves an observation that has no boundary either.
FailToRead(asked, scrolled) ==
    /\ CachedContexts(Key) = {}
    /\ ~SkipSampling
    /\ UNCHANGED contexts
    /\ Complete(NoContext, NoContext, asked, scrolled)

Observe ==
    \E asked \in {"ExternalCursor", "ModeChanged"}, scrolled \in BOOLEAN :
        \/ AnswerFromCache(asked, scrolled)
        \/ SkipReading(asked, scrolled)
        \/ ReadRows(asked, scrolled)
        \/ FailToRead(asked, scrolled)

-----------------------------------------------------------------------------
(* The editor                                                               *)

\* The text-change event advances the revision and drops the contexts cached
\* for the buffer; ":noautocmd" suppresses it.
AfterEdit(heard) ==
    /\ writes' = writes + 1
    /\ rev' = IF heard THEN rev + 1 ELSE rev
    /\ contexts' = IF heard THEN << >> ELSE contexts
    /\ mute' = ~heard
    /\ UNCHANGED <<modeNow, tracked, kept, semantic, truth>>

EditRow(heard) ==
    /\ writes < MaxEdits
    /\ rows' = [rows EXCEPT ![caret] = writes + 100]
    /\ UNCHANGED caret
    /\ AfterEdit(heard)

\* A line written above the cursor moves the cursor along.
InsertAbove(heard) ==
    /\ writes < MaxEdits
    /\ rows' = SubSeq(rows, 1, caret - 1) \o <<writes + 100>> \o SubSeq(rows, caret, Len(rows))
    /\ caret' = caret + 1
    /\ AfterEdit(heard)

MoveCaret ==
    /\ caret' \in (1 .. Len(rows)) \ {caret}
    /\ UNCHANGED <<rows, writes, mute, rev, modeNow, tracked, kept, contexts, semantic, truth>>

SwitchMode ==
    /\ modeNow' = IF modeNow = "n" THEN "i" ELSE "n"
    /\ UNCHANGED <<rows, writes, mute, rev, caret, tracked, kept, contexts, semantic, truth>>

\* Setup and toggle reset the shell's caches, the revisions with them; the
\* observation stays.
ResetCaches ==
    /\ contexts # << >> \/ rev # 0
    /\ contexts' = << >> /\ rev' = 0
    /\ UNCHANGED <<rows, writes, mute, caret, modeNow, tracked, kept, semantic, truth>>

-----------------------------------------------------------------------------

Init ==
    /\ rows = FirstRows /\ writes = 0 /\ mute = FALSE /\ rev = 0
    /\ caret = 1 /\ modeNow = "n"
    /\ tracked = NoContext /\ kept = NoContext
    /\ contexts = << >> /\ semantic = "FrameCommitted" /\ truth = NoContext

Next ==
    \/ Observe
    \/ \E heard \in BOOLEAN : EditRow(heard) \/ InsertAbove(heard)
    \/ MoveCaret
    \/ SwitchMode
    \/ ResetCaches

Spec == Init /\ [][Next]_vars

-----------------------------------------------------------------------------
(* Properties                                                               *)

\* Every value is in its range, and the cache keeps one context per key.
TypeOK ==
    /\ writes \in 0 .. MaxEdits /\ rev \in 0 .. MaxEdits
    /\ caret \in 1 .. Len(rows)
    /\ tracked \in {NoContext} \cup Nat
    /\ Len(contexts) <= CacheCapacity
    /\ \A c, d \in 1 .. Len(contexts) : contexts[c].key = contexts[d].key => c = d
    /\ semantic \in Events

\* The smear jumps for an edit only when the buffer was edited since the
\* observation before: a move through cached and skipped contexts, whatever
\* line was tracked, is never taken for one, unless a reset of the caches
\* made the revisions start over (semantic.rs:34-56).
JumpsAreEdits ==
    semantic = "TextMutatedAtCursorContext" => truth.edited \/ truth.restarted

\* The rows of an observation are those of the buffer it was made on, read
\* or cached, unless an event was suppressed (text_context.rs:80-143).
RowsAreOfTheText ==
    kept # NoContext =>
        \/ kept.context = NoContext
        \/ kept.mute
        \/ LET line == kept.line IN
           kept.context.nearby = SubSeq(kept.text, IF line > 1 THEN line - 1 ELSE 1,
                                        IF line < Len(kept.text) THEN line + 1
                                        ELSE Len(kept.text))

Jumped == semantic \in {"TextMutatedAtCursorContext", "ModeChanged"}

\* An edit of the row under a cursor that stays makes the smear jump when
\* the rows of both observations were read: the second of two edits always
\* does (semantic.rs:34-56).
SampledEditsJump ==
    truth # NoContext => (truth.atCursor /\ truth.sampled => Jumped)

\* "Text mutation detection compares the last committed footprint against a
\* footprint sampled around the runtime's previously tracked cursor line"
\* (semantic.rs:47-49): an edit of the row under a cursor that stays makes
\* the smear jump.  It does not when the observation before was a move in a
\* buffer that had not changed, whose rows were not read.
EditsAtTheCursorJump ==
    truth # NoContext => (truth.atCursor /\ truth.revisions => Jumped)
=============================================================================
