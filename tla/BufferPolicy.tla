----------------------------- MODULE BufferPolicy ----------------------------
(* How much smear-cursor does in a buffer (events/policy.rs): the class that *)
(* is resolved at every ingress from what is known of the buffer, from how   *)
(* long its callbacks took and how hard its probes were of late, with a      *)
(* threshold to enter the cheap class and a lower one to leave it.           *)
(* Time passes in half-lives; amounts are kept in units small enough that    *)
(* every halving and every quarter is a whole number.                        *)
EXTENDS Naturals, Integers, Sequences, FiniteSets, SequencesExt, FiniteSetsExt

CONSTANTS Bufs,        \* buffers
          Kinds,       \* what presses: extmark fallbacks, conceal scans, deferred projections
          Shapes,      \* [buftype, buflisted, filetype, lines] a buffer may have
          Disabled,    \* filetypes disabled by the options
          Modes,       \* values of buffer_perf_mode
          Durations,   \* milliseconds a callback may take
          Kept,        \* entries each of the caches holds
          NoValue,     \* nothing known
          MaxTime, MaxEvents, MaxTrail   \* bounds: half-lives; events and changes; ingresses

VARIABLES age,         \* half-lives passed
          shapes,      \* the buffers as they are
          perfMode,    \* buffer_perf_mode of the configuration
          described,   \* BufferMetadataCache: <<buffer, shape>>, most recent first
          telemetry,   \* BufferPerfTelemetryCache: <<buffer, [callback, pressure]>>
          overall,     \* the estimate of all buffers (EventLoopState)
          policies,    \* BufferEventPolicyCache: <<buffer, policy>>
          trail,       \* history: [class, measure] of the ingresses since a policy is cached
          noted,       \* history: [buffer, what, at] of everything recorded since the last setup
          evicted,     \* history: buffers that a full cache has forgotten
          unannounced, \* history: buffers whose shape changed without an event
          events       \* number of events and changes

vars == <<age, shapes, perfMode, described, telemetry, overall, policies, trail, noted,
          evicted, unannounced, events>>

Full == "Full"   Fast == "FastMotion"   Skipped == "Skip"
Unit == 2 ^ MaxTime                    \* one event
Milli == 2 ^ MaxTime * 4 ^ MaxEvents   \* one millisecond

TypeOK ==
  /\ age \in 0 .. MaxTime /\ events \in 0 .. MaxEvents
  /\ shapes \in [Bufs -> Shapes] /\ perfMode \in Modes
  /\ \A c \in {described, telemetry, policies} : Len(c) <= Kept
  /\ evicted \subseteq Bufs /\ unannounced \subseteq Bufs

-----------------------------------------------------------------------------
(* A cache is the list of its entries, most recent first. *)
Without(cache, b) == SelectSeq(cache, LAMBDA e : e[1] # b)
Lookup(cache, b) ==
  IF \E i \in DOMAIN cache : cache[i][1] = b
  THEN cache[CHOOSE i \in DOMAIN cache : cache[i][1] = b][2] ELSE NoValue
Stored(cache, b, v) ==
  LET rest == Without(cache, b)
  IN <<<<b, v>>>> \o SubSeq(rest, 1, IF Len(rest) < Kept THEN Len(rest) ELSE Kept - 1)
Dropped(cache, b, v) ==
  {e[1] : e \in Range(cache)} \ {e[1] : e \in Range(Stored(cache, b, v))}

-----------------------------------------------------------------------------
(* decayed_ewma.rs: a sample is [value, at], halved for every half-life. *)
Decayed(sample, now) == sample.value \div 2 ^ (now - sample.at)
Score(sample) == IF sample = NoValue THEN 0 ELSE Decayed(sample, age)

(* Fault: the count is added to the one that was stored, however long ago. *)
CountedUndecayed(sample) ==
  [value |-> (IF sample = NoValue THEN 0 ELSE sample.value) + Unit, at |-> age]
Counted(sample) == [value |-> Score(sample) + Unit, at |-> age]

(* The first duration is the estimate; later ones move it by a quarter. *)
Averaged(sample, ms) ==
  [value |-> IF sample = NoValue THEN ms * Milli
             ELSE Score(sample) + (ms * Milli - Score(sample)) \div 4,
   at |-> age]

NoTelemetry == [callback |-> NoValue, pressure |-> [k \in Kinds |-> NoValue]]
TelemetryOf(b) == LET t == Lookup(telemetry, b) IN IF t = NoValue THEN NoTelemetry ELSE t

(* cursor_callback_duration_estimate_ms_at: a buffer without an estimate of  *)
(* its own takes that of all buffers.                                        *)
Estimate(b) ==
  IF TelemetryOf(b).callback # NoValue THEN Score(TelemetryOf(b).callback) ELSE Score(overall)

-----------------------------------------------------------------------------
Unsupported(shape) ==
  \/ shape.buftype \in {"help", "nofile", "prompt", "quickfix"}
  \/ ~shape.buflisted /\ shape.buftype \notin {"", "acwrite", "terminal"}
LinesCount(shape) == shape.buflisted \/ shape.buftype = "terminal"

Reasons == {"lines", "callback"} \union Kinds
Enter == [r \in Reasons |->
            CASE r = "lines" -> 20000 [] r = "callback" -> 8 * Milli [] OTHER -> 2 * Unit]
Exit == [r \in Reasons |->
           CASE r = "lines" -> 16000 [] r = "callback" -> 6 * Milli [] OTHER -> Unit]

Measure(b, shape) ==
  [r \in Reasons |->
     CASE r = "lines" -> IF LinesCount(shape) THEN shape.lines ELSE 0
       [] r = "callback" -> Estimate(b)
       [] OTHER -> Score(TelemetryOf(b).pressure[r])]

(* Fault: a reason that was noted holds on, whatever the class was. *)
WasNoted(previous, r) == previous # NoValue /\ r \in previous.reasons
(* A reason holds on below its threshold only while it kept the buffer in    *)
(* the cheap class.                                                          *)
WasActive(previous, r) ==
  previous # NoValue /\ r \in previous.reasons /\ previous.class = Fast

Active(measure, previous) ==
  {r \in Reasons : measure[r] >= IF WasActive(previous, r) THEN Exit[r] ELSE Enter[r]}

Forced == [m \in {"full", "fast", "off"} |->
             CASE m = "full" -> Full [] m = "fast" -> Fast [] OTHER -> Skipped]

ClassOf(shape, reasons) ==
  IF shape.filetype \in Disabled \/ Unsupported(shape) THEN Skipped
  ELSE IF perfMode \in DOMAIN Forced THEN Forced[perfMode]
  ELSE IF reasons # {} THEN Fast ELSE Full

(* BufferEventPolicy::from_input *)
Policy(b, shape, previous) ==
  LET reasons == Active(Measure(b, shape), previous)
  IN [class |-> ClassOf(shape, reasons), reasons |-> reasons]

-----------------------------------------------------------------------------
(* BufferMetadataCache::read *)
Description(b) == IF Lookup(described, b) = NoValue THEN shapes[b] ELSE Lookup(described, b)

(* An ingress in a buffer: its description is read, from the cache if it is  *)
(* there, and the policy is resolved and kept.                               *)
Resolve(b) ==
  LET shape == Description(b)
      previous == Lookup(policies, b)
      policy == Policy(b, shape, previous)
  IN /\ Len(trail[b]) < MaxTrail
     /\ described' = Stored(described, b, shape)
     /\ policies' = Stored(policies, b, policy)
     /\ trail' = [c \in Bufs |->
                    IF c = b THEN Append(trail[b], [class |-> policy.class,
                                                    measure |-> Measure(b, shape)])
                    ELSE IF c \in Dropped(policies, b, policy) THEN <<>> ELSE trail[c]]
     /\ UNCHANGED <<age, shapes, perfMode, telemetry, overall, noted, evicted, unannounced, events>>

Note(b, what) ==
  /\ events < MaxEvents
  /\ events' = events + 1
  /\ noted' = Append(noted, [buf |-> b, what |-> what, at |-> age])

(* update_telemetry_entry *)
Update(b, entry) ==
  /\ telemetry' = Stored(telemetry, b, entry)
  /\ evicted' = evicted \union Dropped(telemetry, b, entry)

(* A cursor callback ran for so long. *)
CallbackTook(b, ms) ==
  /\ Note(b, "callback")
  /\ overall' = Averaged(overall, ms)
  /\ Update(b, [TelemetryOf(b) EXCEPT !.callback = Averaged(@, ms)])
  /\ UNCHANGED <<age, shapes, perfMode, described, policies, trail, unannounced>>

(* A probe fell back to extmarks, or the concealed text was read in full or late. *)
Pressed(b, kind) ==
  /\ Note(b, kind)
  /\ Update(b, [TelemetryOf(b) EXCEPT !.pressure[kind] = Counted(@)])
  /\ UNCHANGED <<age, shapes, perfMode, described, overall, policies, trail, unannounced>>

(* Fault: a change of an option is not told to the cache. *)
Remembered(b) == described

(* The buffer changes; OptionSet and TextChanged make the cache forget what  *)
(* it knows, unless the change was made without events.                      *)
Forgotten(b) == Without(described, b)

Change(b) ==
  /\ events < MaxEvents
  /\ events' = events + 1
  /\ \E shape \in Shapes \ {shapes[b]}, announced \in BOOLEAN :
       /\ shapes' = [shapes EXCEPT ![b] = shape]
       /\ described' = IF announced THEN Forgotten(b) ELSE described
       /\ unannounced' = IF announced THEN unannounced \ {b} ELSE unannounced \union {b}
  /\ UNCHANGED <<age, perfMode, telemetry, overall, policies, trail, noted, evicted>>

(* BufWipeout: nothing that was known of the buffer is kept. *)
Wipe(b) ==
  /\ described' = Without(described, b)
  /\ telemetry' = Without(telemetry, b)
  /\ policies' = Without(policies, b)
  /\ noted' = SelectSeq(noted, LAMBDA n : n.buf # b)
  /\ evicted' = evicted \ {b} /\ unannounced' = unannounced \ {b}
  /\ trail' = [trail EXCEPT ![b] = <<>>]
  /\ UNCHANGED <<age, shapes, perfMode, overall, events>>

(* setup: reset_transient_caches, and the estimate of all buffers is cleared. *)
Setup ==
  /\ perfMode' \in Modes
  /\ described' = <<>> /\ telemetry' = <<>> /\ policies' = <<>>
  /\ overall' = NoValue
  /\ trail' = [b \in Bufs |-> <<>>] /\ noted' = <<>> /\ evicted' = {} /\ unannounced' = {}
  /\ UNCHANGED <<age, shapes, events>>

Pass ==
  /\ age < MaxTime
  /\ age' = age + 1
  /\ UNCHANGED <<shapes, perfMode, described, telemetry, overall, policies, trail, noted,
                 evicted, unannounced, events>>

Init ==
  /\ age = 0
  /\ shapes \in [Bufs -> Shapes]
  /\ perfMode = "auto"
  /\ described = <<>> /\ telemetry = <<>> /\ policies = <<>>
  /\ overall = NoValue
  /\ trail = [b \in Bufs |-> <<>>] /\ noted = <<>> /\ evicted = {} /\ unannounced = {}
  /\ events = 0

Next ==
  \/ \E b \in Bufs : Resolve(b) \/ Change(b) \/ Wipe(b)
  \/ \E b \in Bufs, ms \in Durations : CallbackTook(b, ms)
  \/ \E b \in Bufs, kind \in Kinds : Pressed(b, kind)
  \/ Setup \/ Pass

Spec == Init /\ [][Next]_vars

-----------------------------------------------------------------------------
(* What was noted of a buffer, each event halved for every half-life since. *)
Evidence(b, kind) ==
  FoldLeft(LAMBDA sum, n : sum + IF n.buf = b /\ n.what = kind
                                 THEN Unit \div 2 ^ (age - n.at) ELSE 0,
           0, noted)

(* The pressure counted step by step is that of the buffer's own events, and *)
(* of all of them unless a full cache has forgotten some: a burst in one     *)
(* buffer is not held against another, nor against the same one for ever     *)
(* (DecayedCounter, BufferPerfTelemetryCache).                               *)
PressureIsOwnAndFades ==
  \A b \in Bufs, k \in Kinds :
    LET score == Score(TelemetryOf(b).pressure[k])
    IN score <= Evidence(b, k) /\ (b \notin evicted => score = Evidence(b, k))

(* Auto mode has a buffer in the cheap class exactly if, at this ingress or  *)
(* at an earlier one since which it never left the class, a reason was above *)
(* its upper threshold and has been above its lower one ever since: the      *)
(* class neither sticks nor flaps (threshold_active, previous_reason_active). *)
ClassHasABand ==
  \A b \in Bufs : (perfMode = "auto" /\ trail[b] # <<>> /\ Last(trail[b]).class # Skipped) =>
    LET path == trail[b]
        Holds(r) == \E i \in DOMAIN path :
                      /\ path[i].measure[r] >= Enter[r]
                      /\ \A j \in i .. Len(path) : path[j].measure[r] >= Exit[r]
                      /\ \A j \in i .. Len(path) - 1 : path[j].class = Fast
    IN (Last(path).class = Fast) <=> \E r \in Reasons : Holds(r)

(* What is cached of a buffer is true of it: no event that changes what its  *)
(* class depends on is missed, as long as there was an event                 *)
(* (BufferMetadataCache, handle_option_set_autocmd).                         *)
DescriptionsAreTrue ==
  \A b \in Bufs \ unannounced : Lookup(described, b) \in {NoValue, shapes[b]}

(* What the comment on the thresholds says: auto mode degrades a buffer only *)
(* after repeated pressure of its own (events/policy.rs).                    *)
DegradesOnlyOnRepeatedPressure ==
  \A b \in Bufs :
    (perfMode = "auto" /\ trail[b] # <<>> /\ Last(trail[b]).class = Fast
     /\ \A i \in DOMAIN trail[b] : trail[b][i].measure["lines"] < Enter["lines"]) =>
       Cardinality({i \in DOMAIN noted : noted[i].buf = b}) >= 2
=============================================================================
