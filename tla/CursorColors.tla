---------------------------- MODULE CursorColors ----------------------------
(***************************************************************************)
(* How the colour of the cell under the cursor gets into an observation: a  *)
(* boundary empties the colour caches when the observation is made, the     *)
(* colour is read in the same wave or, when a background probe was asked    *)
(* for too, from the effect queue, where the editor may have changed.  A    *)
(* witness of the observation is then compared with the editor of now, and  *)
(* what no longer fits makes the whole observation be made again.           *)
(* (events/handlers/observation/cursor_color.rs and base.rs,                *)
(* events/probe_cache.rs, events/probe_cache/cursor_color.rs)               *)
(*                                                                         *)
(* A colour is known by where and when it was read: the cell and the count  *)
(* of changes of colours that no text revision tells ("hue": highlights,    *)
(* extmarks, a colour scheme).  The caches' capacity is left to LruCache.   *)
(***************************************************************************)
EXTENDS Naturals, FiniteSets

CONSTANTS
    Cells,         \* where the cursor can be: records [buffer, line, col]
    FirstCell,     \* where it is at the start
    Sampled,       \* the modes whose configuration uses the text's colour
    MaxRefreshes,  \* MAX_PROBE_REFRESH_RETRIES_PER_OBSERVATION
    Missing,       \* Option::None
    MaxEvents      \* bound on the editor's events and on the observations

VARIABLES
    cursor,     \* the cursor's cell
    tick,       \* the text revision of the buffers
    hue,        \* how often colours changed
    typing,     \* the editor's mode
    schemes,    \* colorscheme_generation
    bounds,     \* cursor_color_cache_generation
    exact,      \* the samples by witness: a set of [witness, sample]
    motion,     \* the samples by line: a set of [key, sample]
    stage,      \* "rest", "requested" (base), "probing" (colour, queued)
    request,    \* the base or probe effect that is queued, or Missing
    refreshes,  \* retries of the observation under way
    active,     \* the last observation completed, or Missing
    happened    \* the editor's events and observations so far

vars == <<cursor, tick, hue, typing, schemes, bounds, exact, motion, stage, request,
          refreshes, active, happened>>
editor == <<cursor, tick, hue, typing>>
caches == <<schemes, bounds, exact, motion>>

-----------------------------------------------------------------------------
(* Witnesses and caches                                                     *)

Witness(cell, mode, scheme, bound) ==
    [cell |-> cell, tick |-> tick, mode |-> mode, scheme |-> scheme, bound |-> bound]

\* The witness of the editor as it is.
CurrentWitness == Witness(cursor, typing, schemes, bounds)

\* A motion key is a witness without its column.
MotionKey(w) ==
    [buffer |-> w.cell.buffer, line |-> w.cell.line, tick |-> w.tick, mode |-> w.mode,
     scheme |-> w.scheme, bound |-> w.bound]

\* The witness of an observation against another: the same cell, another
\* column of its line where the policy reuses lines, or neither.
Validate(expected, compatible, current) ==
    IF \/ expected.mode # current.mode
       \/ expected.cell.buffer # current.cell.buffer
       \/ expected.tick # current.tick
       \/ expected.scheme # current.scheme
       \/ expected.bound # current.bound
    THEN "RefreshRequired"
    ELSE IF expected.cell = current.cell THEN "Exact"
    ELSE IF compatible /\ expected.cell.line = current.cell.line THEN "Compatible"
    ELSE "RefreshRequired"

\* A sample of the very witness keeps the reuse asked for; one of the line
\* is for compatible reuse only.
CachedSamples(witness, compatible, reuse) ==
    IF \E s \in exact : s.witness = witness
    THEN {[reuse |-> reuse, sample |-> s.sample] : s \in {t \in exact : t.witness = witness}}
    ELSE IF reuse = "Compatible" /\ compatible
    THEN {[reuse |-> "Compatible", sample |-> s.sample] :
             s \in {t \in motion : t.key = MotionKey(witness)}}
    ELSE {}

StoreSample(witness, sample) ==
    /\ exact' = {s \in exact : s.witness # witness} \cup {[witness |-> witness, sample |-> sample]}
    /\ motion' = {s \in motion : s.key # MotionKey(witness)}
                     \cup {[key |-> MotionKey(witness), sample |-> sample]}

(* Fault: the boundary is left to the colour schemes. *)
KeepSamples == UNCHANGED <<bounds, exact, motion>>

\* A new boundary: no sample of before is found again.
NoteBoundary ==
    /\ bounds' = bounds + 1
    /\ exact' = {} /\ motion' = {}

-----------------------------------------------------------------------------
(* The reducer's side of an observation                                     *)

\* The sample of the observation at hand with its witness, kept for reuse.
Fallback(observation) ==
    IF observation = Missing \/ observation.sample = Missing \/ observation.bound = Missing
    THEN Missing
    ELSE [sample |-> observation.sample,
          witness |-> [cell |-> observation.cell, tick |-> observation.tick,
                       mode |-> observation.mode, scheme |-> observation.scheme,
                       bound |-> observation.bound]]

\* Only a move reuses colours within the line, when there is one to reuse.
Reuses(kind, fallback) == kind = "ExternalCursor" /\ fallback # Missing

\* A demand starts an observation.  One for a move brings along the cell and
\* the mode as they were when the event was received.
Ask(kind, atIngress, background) ==
    /\ stage = "rest"
    /\ happened < MaxEvents
    /\ happened' = happened + 1
    /\ stage' = "requested"
    /\ refreshes' = 0
    /\ request' = [kind |-> kind, background |-> background,
                   cell |-> IF atIngress THEN cursor ELSE Missing, mode |-> typing,
                   fallback |-> Fallback(active)]
    /\ UNCHANGED <<editor, caches, active>>

Done(observation) ==
    /\ active' = observation
    /\ stage' = "rest" /\ request' = Missing /\ refreshes' = 0

\* A colour that came too late: the observation is made again, without what
\* the ingress saw and with nothing to fall back on, a limited number of
\* times; then it is dropped.
Refresh ==
    \/ /\ refreshes < MaxRefreshes
       /\ refreshes' = refreshes + 1
       /\ stage' = "requested"
       /\ request' = [request EXCEPT !.cell = Missing, !.fallback = Missing]
       /\ UNCHANGED active
    \/ /\ refreshes >= MaxRefreshes
       /\ stage' = "rest" /\ request' = Missing /\ refreshes' = 0 /\ active' = Missing

-----------------------------------------------------------------------------
(* Making the observation                                                   *)

\* What the base read, and since when its colours may be used.
Basis ==
    [cell |-> IF request.cell = Missing THEN cursor ELSE request.cell,
     mode |-> IF request.cell = Missing THEN typing ELSE request.mode,
     tick |-> tick, since |-> hue, ingress |-> request.cell # Missing]

Observation(basis, scheme, bound, reuse, sample) ==
    [cell |-> basis.cell, mode |-> basis.mode, tick |-> basis.tick, since |-> basis.since,
     ingress |-> basis.ingress, scheme |-> scheme, bound |-> bound,
     reuse |-> reuse, sample |-> sample]

\* The colour under the cursor, as the editor answers now.
LiveSample == [cell |-> cursor, hue |-> hue, tick |-> tick]

\* The window, the buffer or the viewport went away: the observation of
\* before is kept.
CollectFails ==
    /\ stage = "requested"
    /\ stage' = "rest" /\ request' = Missing /\ refreshes' = 0
    /\ UNCHANGED <<editor, caches, active, happened>>

\* The mode shows no colour of the text: there is nothing to read.
CollectWithoutColor ==
    /\ stage = "requested"
    /\ Basis.mode \notin Sampled
    /\ Done(Observation(Basis, Missing, Missing, "Exact", Missing))
    /\ UNCHANGED <<editor, caches, happened>>

\* The caches' lane is in use, for the boundary and for the generations: the
\* observation has no witness and its colour probe fails.
CollectWithoutWitness ==
    /\ stage = "requested"
    /\ Basis.mode \in Sampled
    /\ Done(Observation(Basis, Missing, Missing, "Failed", Missing))
    /\ UNCHANGED <<editor, caches, happened>>

\* Base and colour in one wave: the witness is taken to hold, and the colour
\* is that of the cursor of now.  Storing it or reading it may fail.
CollectWithColor ==
    /\ stage = "requested"
    /\ Basis.mode \in Sampled /\ ~request.background
    /\ bounds' = bounds + 1
    /\ UNCHANGED schemes
    /\ LET w == Witness(Basis.cell, Basis.mode, schemes, bounds + 1) IN
       \/ /\ Done(Observation(Basis, schemes, bounds + 1, "Exact", LiveSample))
          /\ \/ /\ exact' = {[witness |-> w, sample |-> LiveSample]}
                /\ motion' = {[key |-> MotionKey(w), sample |-> LiveSample]}
             \/ exact' = {} /\ motion' = {}
       \/ /\ Done(Observation(Basis, schemes, bounds + 1, "Failed", Missing))
          /\ exact' = {} /\ motion' = {}
    /\ UNCHANGED <<editor, happened>>

\* With a background probe the colour waits in the queue.
CollectAndQueue ==
    /\ stage = "requested"
    /\ Basis.mode \in Sampled /\ request.background
    /\ stage' = "probing"
    /\ NoteBoundary
    /\ UNCHANGED schemes
    /\ request' = [kind |-> request.kind, background |-> TRUE, fallback |-> request.fallback,
                   cell |-> Basis.cell, mode |-> Basis.mode,
                   basis |-> Basis, scheme |-> schemes, bound |-> bounds']
    /\ UNCHANGED <<editor, refreshes, active, happened>>

-----------------------------------------------------------------------------
(* The queued probe                                                         *)

Expected == [cell |-> request.cell, tick |-> request.basis.tick, mode |-> request.mode,
             scheme |-> request.scheme, bound |-> request.bound]
Compatible == Reuses(request.kind, request.fallback)
Reuse == Validate(Expected, Compatible, CurrentWitness)
Report(reuse, sample) ==
    Done(Observation(request.basis, request.scheme, request.bound, reuse, sample))

ProbeTooLate ==
    /\ stage = "probing"
    /\ Reuse = "RefreshRequired"
    /\ Refresh
    /\ UNCHANGED <<editor, caches, happened>>

\* The witness fits: a cached sample comes first.  The sample of another
\* column of the line can only be the one that was carried along, if its own
\* witness still fits, or else it is all over again; that of the very cell is
\* read now.
ProbeColor ==
    /\ stage = "probing"
    /\ Reuse # "RefreshRequired"
    /\ LET cached == CachedSamples(CurrentWitness, Compatible, Reuse)
           carried == /\ request.fallback # Missing
                      /\ Validate(request.fallback.witness, Compatible, CurrentWitness)
                             # "RefreshRequired"
       IN IF cached # {}
          THEN (\E c \in cached : Report(c.reuse, c.sample)) /\ UNCHANGED caches
          ELSE IF Reuse = "Compatible"
          THEN /\ IF carried THEN Report("Compatible", request.fallback.sample) ELSE Refresh
               /\ UNCHANGED caches
          ELSE /\ Report("Exact", LiveSample)
               /\ StoreSample(CurrentWitness, LiveSample) \/ UNCHANGED <<exact, motion>>
               /\ UNCHANGED <<schemes, bounds>>
    /\ UNCHANGED <<editor, happened>>

\* The witness, the cache or the colour cannot be read.
ProbeFails ==
    /\ stage = "probing"
    /\ Report("Failed", Missing)
    /\ UNCHANGED <<editor, caches, happened>>

-----------------------------------------------------------------------------
(* The editor                                                               *)

Happens ==
    /\ happened < MaxEvents
    /\ happened' = happened + 1
    /\ UNCHANGED <<stage, request, refreshes, active>>

Move ==
    /\ cursor' \in Cells \ {cursor}
    /\ UNCHANGED <<tick, hue, typing, caches>>
    /\ Happens

Edit ==
    /\ tick' = tick + 1
    /\ UNCHANGED <<cursor, hue, typing, caches>>
    /\ Happens

ChangeMode ==
    /\ typing' = IF typing = "n" THEN "i" ELSE "n"
    /\ UNCHANGED <<cursor, tick, hue, caches>>
    /\ Happens

Highlight ==
    /\ hue' = hue + 1
    /\ UNCHANGED <<cursor, tick, typing, caches>>
    /\ Happens

\* A colour scheme: the colours change, and the event tells the caches.
ChangeScheme ==
    /\ hue' = hue + 1
    /\ schemes' = schemes + 1
    /\ NoteBoundary
    /\ UNCHANGED <<cursor, tick, typing>>
    /\ Happens

\* Setup and toggle start the caches anew, generations and all, while an
\* observation may be under way.
ResetCaches ==
    /\ schemes' = 0 /\ bounds' = 0 /\ exact' = {} /\ motion' = {}
    /\ UNCHANGED editor
    /\ Happens

-----------------------------------------------------------------------------

Init ==
    /\ cursor = FirstCell /\ tick = 0 /\ hue = 0 /\ typing = "n"
    /\ schemes = 0 /\ bounds = 0 /\ exact = {} /\ motion = {}
    /\ stage = "rest" /\ request = Missing /\ refreshes = 0
    /\ active = Missing /\ happened = 0

Next ==
    \/ \E background \in BOOLEAN :
          \/ \E atIngress \in BOOLEAN : Ask("ExternalCursor", atIngress, background)
          \/ Ask("BoundaryRefresh", FALSE, background)
    \/ CollectFails \/ CollectWithoutColor \/ CollectWithoutWitness \/ CollectWithColor \/ CollectAndQueue
    \/ ProbeTooLate \/ ProbeColor \/ ProbeFails
    \/ Move \/ Edit \/ ChangeMode \/ Highlight \/ ChangeScheme \/ ResetCaches

Spec == Init /\ [][Next]_vars

-----------------------------------------------------------------------------
(* Properties                                                               *)

\* Generations only advance within their bound and samples are unique.
TypeOK ==
    /\ schemes \in Nat /\ bounds \in Nat /\ refreshes \in 0 .. MaxRefreshes
    /\ \A s, t \in exact : s.witness = t.witness => s = t
    /\ \A s, t \in motion : s.key = t.key => s = t

\* The colour of an observation was read no earlier than the observation and
\* in the same text, through every cache and fallback, for the caches are
\* emptied at its boundary (base.rs:331-338, probe_cache.rs:373-376).
ColorsAreFresh ==
    active # Missing /\ active.sample # Missing =>
        active.sample.hue >= active.since /\ active.sample.tick = active.tick

\* It was read in the cell of the observation, or in its line where the
\* observation says so; what the ingress saw may be of another place, for a
\* colour read in the same wave is not checked (execute.rs:193-203).
ColorsAreOfTheCell ==
    active # Missing /\ active.sample # Missing /\ ~active.ingress =>
        /\ active.sample.cell.buffer = active.cell.buffer
        /\ active.sample.cell.line = active.cell.line
        /\ active.reuse = "Exact" => active.sample.cell = active.cell

\* "It can reuse the captured witness exactly once here" (execute.rs:199-202):
\* a colour called exact is that of the observation's cell.  It is not when
\* the cell was captured at the ingress and the cursor has moved on since.
ExactColorsAreOfTheCell ==
    active # Missing /\ active.sample # Missing /\ active.reuse = "Exact" =>
        active.sample.cell = active.cell
=============================================================================
