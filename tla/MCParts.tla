------------------------------- MODULE MCParts -------------------------------
(* One run for the components that share no state with each other: a         *)
(* behaviour is a behaviour of one of them (part), while the variables of    *)
(* the others keep the value Off.                                            *)
EXTENDS Naturals, Integers, Sequences, FiniteSets

CONSTANTS Off, None

VARIABLE part

-----------------------------------------------------------------------------
(* Two buffers and two windows. *)
CONSTANTS PreviewBufs, PreviewWins
VARIABLES registry, resources, shows, finds, scheduled, opening, moves
Preview == INSTANCE SnacksPreview WITH NoPreview <- None, MaxTokens <- 2, MaxMoves <- 2

(* A theme that is listed twice, and a catalogue of one. *)
CONSTANTS day, night, own
VARIABLES session, scheme, stored, windows, marked, applied, switches
Theme == INSTANCE ThemeSwitcher WITH
           Schemes <- {day, night, own}, NoScheme <- None,
           Catalogs <- {<<day, night, day>>, <<night>>},
           PickerWins <- 1 .. 2, MaxSwitches <- 2

(* A file in a subdirectory and one above it; two names of indicators. *)
CONSTANTS RootBufs, inner, outer, sub, outermost, git, cargo
VARIABLES indicators, didSetup, paths, cache, markers, focus, answer, edits
Root == INSTANCE ProjectRoot WITH
          Paths <- {inner, outer},
          Above <- [p \in {inner, outer} |-> IF p = inner THEN <<sub, outermost>> ELSE <<outermost>>],
          DefaultList <- <<git>>, IndicatorLists <- {<<git>>, <<cargo, git>>, <<cargo>>},
          NoPath <- None, MaxEdits <- 2

(* Two values of each kind, a channel that is full with one item, and drains *)
(* of one result.                                                            *)
CONSTANTS x, y
VARIABLES slots, queue, worker, completed, notice, terminal, faults, syncs
Wezterm == INSTANCE WeztermSync WITH
             Targets <- {x, y}, Nothing <- None, QueueLimit <- 1, DrainBatch <- 1, MaxSyncs <- 2

(* One buffer more than the list of recent buffers holds. *)
CONSTANTS Files, OilBufs
VARIABLES buffers, views, open, at, recent, oilOf, lcd, dashboard, reply, entered,
          commands
Tracking == INSTANCE BufferTracking WITH
              EditorWins <- 1 .. 2, NoBuf <- None, MaxRecent <- 2, MaxCommands <- 4

(* A soft clear at once, a hard purge after five, a retry no later than six. *)
VARIABLES clock, cleanup, due, work, idle, jammed, trouble, burst, frames, failed
Cleanup == INSTANCE RenderCleanup WITH
             Interval <- 1, MaxKept <- 3, MinSoft <- 0, Multiplier <- 4, MinHard <- 5, RetryCap <- 6,
             IdleRetention <- 1, Teardowns <- 1, Slack <- 1, MaxTime <- 7, MaxFloats <- 4,
             MaxFrames <- 2, MaxFaults <- 1

(* Matches of one line that touch, leave gaps or come and go, a line with    *)
(* other widths, and a window narrow enough to wrap it.                      *)
VARIABLES line, surface, options, revision, untold, regions, deltas, cells, seen, changes
Conceal == INSTANCE ConcealProjection WITH
             Contents <- {<<[width |-> 1, match |-> 1, shown |-> 1], [width |-> 1, match |-> 0, shown |-> 0],
                            [width |-> 2, match |-> 1, shown |-> 1], [width |-> 1, match |-> 1, shown |-> 1]>>,
                          <<[width |-> 1, match |-> 1, shown |-> 0], [width |-> 1, match |-> 0, shown |-> 0],
                            [width |-> 2, match |-> 0, shown |-> 0], [width |-> 1, match |-> 0, shown |-> 0]>>,
                          <<[width |-> 2, match |-> 1, shown |-> 1], [width |-> 1, match |-> 1, shown |-> 1],
                            [width |-> 1, match |-> 0, shown |-> 0]>>},
             Surfaces <- {[width |-> 3, start |-> 2], [width |-> 8, start |-> 2]},
             Options <- {[level |-> 2, modes |-> {"n"}], [level |-> 0, modes |-> {"n"}]},
             CmdlineRow <- 9, Nothing <- None, MaxChanges <- 2

(* Two cells that take two steps to reach, two sizes of one window, one of    *)
(* them with a buffer too large for particles; three modes, two of which a   *)
(* configuration turns off.                                                  *)
VARIABLES config, run, observation, wake, shown, hidden, cleaning, time
Motion == INSTANCE AnimationRuntime WITH
            Cells <- {<<1, 1>>, <<2, 3>>}, Modes <- {"n", "i", "c"},
            Surfaces <- {[window |-> 1, buffer |-> 1, size |-> 1, full |-> TRUE],
                         [window |-> 1, buffer |-> 1, size |-> 2, full |-> FALSE]},
            Configs <- {[off |-> {}, delay |-> 1, hold |-> 1],
                        [off |-> {"smear_insert_mode", "smear_to_cmd"}, delay |-> 0, hold |-> 2]},
            MinRows <- 0, MinCols <- 0, Frame <- 2, Step <- 1, MaxSteps <- 2, CatchUp <- 1,
            DrainSteps <- 2, Life <- 1, MaxTime <- 5

(* Tables that are consistent only one after the other, that change a policy *)
(* or only look as if they did, and that are refused for each reason.        *)
Num(hundredths) == [kind |-> "number", value |-> hundredths]
VARIABLES bridge, namespace, enabled, settings, derived, revisions, issued, callbacks,
          userCommands, painted, pending, outcome, unplaced, calls, failures
Lifecycle == INSTANCE PluginLifecycle WITH
               OptionTables <-
                 {<<>>, [enabled |-> [kind |-> "boolean", value |-> FALSE]],
                  [tail_response_ms |-> Num(30000)], [head_response_ms |-> Num(20000)],
                  [tail_response_ms |-> Num(19900), gamma |-> Num(100)],
                  [color_levels |-> Num(6400)], [color_levels |-> Num(25700)],
                  [tail_duration_ms |-> Num(50)], [tail_duration_ms |-> Num(100)],
                  [cursor_color |-> [kind |-> "nil", value |-> 0], logging_level |-> Num(900)],
                  [unheard_of |-> Num(100)]},
               MaxCalls <- 3, MaxFailures <- 1

(* Four keys in a cache of three. *)
VARIABLES lru, recency, given
Lru == INSTANCE LruCache WITH
        Keys <- 1 .. 4, Values <- {"a", "b"}, Capacity <- 3, NoSlot <- None, NoValue <- None

(* A buffer in the band of the line count, or large and disabled; caches of   *)
(* one entry.                                                                *)
CONSTANTS PolicyBufs
VARIABLES age, shapes, perfMode, described, telemetry, overall, policies, trail, noted,
          evicted, unannounced, events
Policy == INSTANCE BufferPolicy WITH
           Bufs <- PolicyBufs, Kinds <- {"extmark"}, Disabled <- {"disabled"},
           Shapes <- {[buftype |-> "", buflisted |-> TRUE, filetype |-> "text", lines |-> 17000],
                      [buftype |-> "", buflisted |-> TRUE, filetype |-> "disabled",
                       lines |-> 20000]},
           Modes <- {"auto", "fast"}, Durations <- {14}, Kept <- 1, NoValue <- None,
           MaxTime <- 2, MaxEvents <- 2, MaxTrail <- 2

(* A buffer of one line, edited twice. *)
VARIABLES rows, writes, mute, rev, caret, modeNow, tracked, kept, contexts, semantic,
          truth
Texts == INSTANCE TextContexts WITH
          FirstRows <- <<1>>, CacheCapacity <- 2, NoContext <- None, Followed <- {"n"},
          MaxEdits <- 2

(* Two columns of a line, another line and another buffer; one of two modes  *)
(* shows colours of the text.                                                *)
Cell(b, l, c) == [buffer |-> b, line |-> l, col |-> c]
VARIABLES cursor, tick, hue, typing, schemes, bounds, exact, motion, stage, request,
          refreshes, active, happened
Colors == INSTANCE CursorColors WITH
           Cells <- {Cell(1, 1, 1), Cell(1, 1, 2), Cell(1, 2, 1), Cell(2, 1, 1)},
           FirstCell <- Cell(1, 1, 1), Sampled <- {"n"}, MaxRefreshes <- 2, Missing <- None,
           MaxEvents <- 4

(* Two columns, a probe that admits one cell or both. *)
VARIABLES aggregate, basis, policy, corners, scene, acknowledged, tail, expected, misfit
Scenes == INSTANCE SceneProjection WITH
           Columns <- 2, Addresses <- {1, 2}, Support <- 2, Viewports <- {1, 2},
           Allowed <- {{1}, {1, 2}}, MaxPlans <- 3, MaxSteps <- 3, MaxObservations <- 2,
           MaxPolicy <- 1, Nothing <- None

(* Four cells, bounds of three, two bands. *)
VARIABLES planner, slices, owed, idled
Field == INSTANCE LatentField WITH
           Columns <- 4, Support <- [core |-> 3, sheath |-> 2], MinMass <- 2,
           MaxJump <- 2, Margin <- 1, Halo <- 1, MaxArea <- 3, MaxSamples <- 1,
           MaxSteps <- 4, Absent <- None

(* Two windows, the second below the first, of a text with a wrapped line;   *)
(* a log is a buffer that gets no smear.                                      *)
VARIABLES editor, announced, viewport, demands, asked, smear, newest, overtaken, dragged,
          spent
Ingress == INSTANCE CursorIngress WITH
            Windows <- {1, 2}, FirstWindow <- 1, Origin <- <<1, 4>>, Rows <- 3,
            Tall <- <<1, 2, 1>>, Buffers <- {"a", "log"}, FirstBuffer <- "a",
            Skipped <- {"log"}, CommandRows <- {7, 8}, SmearsToCommandLine <- TRUE,
            MaxFailures <- 1, MaxSteps <- 3, Missing <- None

(* A screen of one row, six or four columns wide; bytes of two bits, chunks   *)
(* of three cells.                                                            *)
Mote(r, c, l) == [row |-> r, col |-> c, life |-> l]
VARIABLES screen, probing, asking, frame, answered, happenings
Background == INSTANCE BackgroundProbe WITH
               events <- happenings,
               Viewports <- {<<1, 6>>, <<1, 4>>}, Targets <- {<<1, 2>>, <<1, 4>>},
               Clouds <- {<<Mote(4, 2, 2), Mote(4, 4, 1), Mote(5, 6, 1), Mote(4, 6, 3),
                            Mote(7, 11, 1), Mote(4, 12, 2)>>,
                          <<Mote(4, 8, 1), Mote(3, 2, 1), Mote(4, 2, 2), Mote(4, 2, 1),
                            Mote(4, 5, 1)>>},
               Inscriptions <- {{}, {<<1, 4>>, <<1, 3>>}}, MaxLifetime <- 4, SwitchAt <- 1,
               Levels <- 2, Bits <- 2, ChunkSize <- 3, MaxObservations <- 2,
               MaxEdits <- 1, MaxTicks <- 1, Absent <- None

-----------------------------------------------------------------------------
previewVars == <<registry, resources, shows, finds, scheduled, opening, moves>>
themeVars == <<session, scheme, stored, windows, marked, applied, switches>>
rootVars == <<indicators, didSetup, paths, cache, markers, focus, answer, edits>>
weztermVars == <<slots, queue, worker, completed, notice, terminal, faults, syncs>>
trackingVars == <<buffers, views, open, at, recent, oilOf, lcd, dashboard, reply,
                  entered, commands>>
cleanupVars == <<clock, cleanup, due, work, idle, jammed, trouble, burst, frames, failed>>
concealVars == <<line, surface, options, revision, untold, regions, deltas, cells, seen,
                 changes>>
motionVars == <<config, run, observation, wake, shown, hidden, cleaning, time>>
lifecycleVars == <<bridge, namespace, enabled, settings, derived, revisions, issued,
                   callbacks, userCommands, painted, pending, outcome, unplaced, calls,
                   failures>>
lruVars == <<lru, recency, given>>
policyVars == <<age, shapes, perfMode, described, telemetry, overall, policies, trail,
                noted, evicted, unannounced, events>>
textsVars == <<rows, writes, mute, rev, caret, modeNow, tracked, kept, contexts,
               semantic, truth>>
colorsVars == <<cursor, tick, hue, typing, schemes, bounds, exact, motion, stage,
                request, refreshes, active, happened>>
scenesVars == <<aggregate, basis, policy, corners, scene, acknowledged, tail, expected,
                misfit>>
fieldVars == <<planner, slices, owed, idled>>
ingressVars == <<editor, announced, viewport, demands, asked, smear, newest, overtaken,
                 dragged, spent>>
backgroundVars == <<screen, probing, asking, frame, answered, happenings>>

OffPreview == /\ registry = Off /\ resources = Off /\ shows = Off /\ finds = Off
              /\ scheduled = Off /\ opening = Off /\ moves = Off
OffTheme == /\ session = Off /\ scheme = Off /\ stored = Off /\ windows = Off
            /\ marked = Off /\ applied = Off /\ switches = Off
OffRoot == /\ indicators = Off /\ didSetup = Off /\ paths = Off /\ cache = Off
           /\ markers = Off /\ focus = Off /\ answer = Off /\ edits = Off
OffWezterm == /\ slots = Off /\ queue = Off /\ worker = Off /\ completed = Off
              /\ notice = Off /\ terminal = Off /\ faults = Off /\ syncs = Off
OffTracking == /\ buffers = Off /\ views = Off /\ open = Off /\ at = Off /\ recent = Off
               /\ oilOf = Off /\ lcd = Off /\ dashboard = Off /\ reply = Off
               /\ entered = Off /\ commands = Off
OffCleanup == /\ clock = Off /\ cleanup = Off /\ due = Off /\ work = Off /\ idle = Off
              /\ jammed = Off /\ trouble = Off /\ burst = Off /\ frames = Off
              /\ failed = Off
OffConceal == /\ line = Off /\ surface = Off /\ options = Off /\ revision = Off
              /\ untold = Off /\ regions = Off /\ deltas = Off /\ cells = Off /\ seen = Off
              /\ changes = Off
OffMotion == /\ config = Off /\ run = Off /\ observation = Off /\ wake = Off /\ shown = Off
             /\ hidden = Off /\ cleaning = Off /\ time = Off
OffLifecycle == /\ bridge = Off /\ namespace = Off /\ enabled = Off /\ settings = Off
                /\ derived = Off /\ revisions = Off /\ issued = Off /\ callbacks = Off
                /\ userCommands = Off /\ painted = Off /\ pending = Off /\ outcome = Off
                /\ unplaced = Off /\ calls = Off /\ failures = Off
OffLru == /\ lru = Off /\ recency = Off /\ given = Off
OffPolicy == /\ age = Off /\ shapes = Off /\ perfMode = Off /\ described = Off
             /\ telemetry = Off /\ overall = Off /\ policies = Off /\ trail = Off
             /\ noted = Off /\ evicted = Off /\ unannounced = Off /\ events = Off
OffTexts == /\ rows = Off /\ writes = Off /\ mute = Off /\ rev = Off /\ caret = Off
            /\ modeNow = Off /\ tracked = Off /\ kept = Off /\ contexts = Off
            /\ semantic = Off /\ truth = Off
OffColors == /\ cursor = Off /\ tick = Off /\ hue = Off /\ typing = Off /\ schemes = Off
             /\ bounds = Off /\ exact = Off /\ motion = Off /\ stage = Off /\ request = Off
             /\ refreshes = Off /\ active = Off /\ happened = Off
OffScenes == /\ aggregate = Off /\ basis = Off /\ policy = Off /\ corners = Off
             /\ scene = Off /\ acknowledged = Off /\ tail = Off /\ expected = Off
             /\ misfit = Off
OffField == /\ planner = Off /\ slices = Off /\ owed = Off /\ idled = Off
OffIngress == /\ editor = Off /\ announced = Off /\ viewport = Off /\ demands = Off
              /\ asked = Off /\ smear = Off /\ newest = Off /\ overtaken = Off
              /\ dragged = Off /\ spent = Off
OffBackground == /\ screen = Off /\ probing = Off /\ asking = Off /\ frame = Off
                 /\ answered = Off /\ happenings = Off

Init ==
  /\ part \in {"preview", "theme", "root", "wezterm", "tracking",
                "cleanup", "conceal", "motion", "lifecycle", "lru",
                "policy", "texts", "colors", "scenes", "field",
                "ingress", "background"}
  /\ IF part = "preview" THEN Preview!Init ELSE OffPreview
  /\ IF part = "theme" THEN Theme!Init ELSE OffTheme
  /\ IF part = "root" THEN Root!Init ELSE OffRoot
  /\ IF part = "wezterm" THEN Wezterm!Init ELSE OffWezterm
  /\ IF part = "tracking" THEN Tracking!Init ELSE OffTracking
  /\ IF part = "cleanup" THEN Cleanup!Init ELSE OffCleanup
  /\ IF part = "conceal" THEN Conceal!Init ELSE OffConceal
  /\ IF part = "motion" THEN Motion!Init ELSE OffMotion
  /\ IF part = "lifecycle" THEN Lifecycle!Init ELSE OffLifecycle
  /\ IF part = "lru" THEN Lru!Init ELSE OffLru
  /\ IF part = "policy" THEN Policy!Init ELSE OffPolicy
  /\ IF part = "texts" THEN Texts!Init ELSE OffTexts
  /\ IF part = "colors" THEN Colors!Init ELSE OffColors
  /\ IF part = "scenes" THEN Scenes!Init ELSE OffScenes
  /\ IF part = "field" THEN Field!Init ELSE OffField
  /\ IF part = "ingress" THEN Ingress!Init ELSE OffIngress
  /\ IF part = "background" THEN Background!Init ELSE OffBackground

Next ==
  /\ UNCHANGED part
  /\ IF part = "preview" THEN Preview!Next ELSE UNCHANGED previewVars
  /\ IF part = "theme" THEN Theme!Next ELSE UNCHANGED themeVars
  /\ IF part = "root" THEN Root!Next ELSE UNCHANGED rootVars
  /\ IF part = "wezterm" THEN Wezterm!Next ELSE UNCHANGED weztermVars
  /\ IF part = "tracking" THEN Tracking!Next ELSE UNCHANGED trackingVars
  /\ IF part = "cleanup" THEN Cleanup!Next ELSE UNCHANGED cleanupVars
  /\ IF part = "conceal" THEN Conceal!Next ELSE UNCHANGED concealVars
  /\ IF part = "motion" THEN Motion!Next ELSE UNCHANGED motionVars
  /\ IF part = "lifecycle" THEN Lifecycle!Next ELSE UNCHANGED lifecycleVars
  /\ IF part = "lru" THEN Lru!Next ELSE UNCHANGED lruVars
  /\ IF part = "policy" THEN Policy!Next ELSE UNCHANGED policyVars
  /\ IF part = "texts" THEN Texts!Next ELSE UNCHANGED textsVars
  /\ IF part = "colors" THEN Colors!Next ELSE UNCHANGED colorsVars
  /\ IF part = "scenes" THEN Scenes!Next ELSE UNCHANGED scenesVars
  /\ IF part = "field" THEN Field!Next ELSE UNCHANGED fieldVars
  /\ IF part = "ingress" THEN Ingress!Next ELSE UNCHANGED ingressVars
  /\ IF part = "background" THEN Background!Next ELSE UNCHANGED backgroundVars

partVars == <<previewVars, themeVars, rootVars, weztermVars, trackingVars, cleanupVars,
              concealVars, motionVars, lifecycleVars, lruVars, policyVars, textsVars,
              colorsVars, scenesVars, fieldVars, ingressVars, backgroundVars>>

Spec == Init /\ [][Next]_<<part, partVars>>

-----------------------------------------------------------------------------
(* A preview that is replaced, cancelled or raced by its own scheduled       *)
(* callback leaves no buffer, autocommand group or name behind, and none     *)
(* outlives the buffer it was shown in (snacks-preview reducer.rs).          *)
PreviewsAreAccounted == part = "preview" =>
  /\ Preview!IndexesAgree
  /\ Preview!NothingIsLeaked
  /\ Preview!PreviewsEndWithTheirTarget

(* What is stored as the theme was applied first, and a picker whose window  *)
(* goes away in any order of events is answered (theme-switcher picker.rs).  *)
PickerKeepsItsWord == part = "theme" => Theme!StoredWasApplied /\ Theme!PickersAreAnswered

(* A root answered from a cached record is above the file of now and holds   *)
(* an indicator, whatever was renamed or removed since (project-root).       *)
AnswersAreRoots == part = "root" => Root!AnswersAreRoots

(* No update waits for a worker that will not answer, no request is dropped  *)
(* as already applied unless the terminal has it, and results left by a      *)
(* drain are announced again (autocmds wezterm.rs).                          *)
UpdatesReachTheTerminal == part = "wezterm" =>
  /\ Wezterm!NoStuckUpdate
  /\ Wezterm!DedupIsTrue
  /\ Wezterm!ResultsAreNoticed

(* The recent list and the oil buffers kept per window follow wipes, hidden  *)
(* buffers and suppressed events (autocmds lib.rs).                          *)
TrackedBuffersAreRight == part = "tracking" =>
  /\ Tracking!LastBufferIsMostRecent
  /\ Tracking!OilBuffersAreLive

(* Idle windows are torn down in time, by compaction unless it is stuck, and *)
(* no retry comes at once or never (render_cleanup.rs).                      *)
CleanupIsPaced == part = "cleanup" => Cleanup!CleanupIsPaced

(* A cursor read from concealed text, fast or exact, is the cell the editor  *)
(* shows (conceal.rs).                                                       *)
CursorIsWhereShown == part = "conceal" => Conceal!CursorIsWhereShown

(* A smear on the screen, a hidden cursor and a motion under way all have    *)
(* something coming that ends them (runtime_reducer/reducer.rs).             *)
SmearsComeToRest == part = "motion" =>
  /\ Motion!SmearIsPassing
  /\ Motion!HiddenCursorReturns
  /\ Motion!MotionIsDriven
  /\ Motion!PhasesAreConsistent
  /\ Motion!TicksMakeProgress

(* A refused setup stays off, callbacks are there when the runtime is on,    *)
(* nothing is left on the screen of one that is off, and revisions name the  *)
(* one consistent configuration they were given for (events/lifecycle.rs).   *)
SetupKeepsItsWord == part = "lifecycle" =>
  /\ Lifecycle!RefusedStaysOff
  /\ Lifecycle!CallbacksFollowTheSwitch
  /\ Lifecycle!NothingIsLeftShown
  /\ Lifecycle!ConfigStaysConsistent
  /\ Lifecycle!RevisionsNameConfigs

(* The linked list, its index and its free slots tell the recent entries in  *)
(* order, and answer as a list of them would (lru_cache.rs).                 *)
LruKeepsTheRecent == part = "lru" => Lru!LinksTellRecency /\ Lru!AnswersAreRecent

(* The class of a buffer neither sticks nor flaps, and rests on the pressure *)
(* of that buffer, as it is now (events/policy.rs).                          *)
ClassFollowsPressure == part = "policy" =>
  /\ Policy!ClassHasABand
  /\ Policy!PressureIsOwnAndFades
  /\ Policy!DescriptionsAreTrue

(* A smear jumps for edits of the text only, and for those at the cursor     *)
(* that it can know of (semantic.rs, text_context.rs).                       *)
JumpsTellEdits == part = "texts" =>
  /\ Texts!JumpsAreEdits
  /\ Texts!RowsAreOfTheText
  /\ Texts!SampledEditsJump

(* The colour of an observation is of its text, its time and its cell        *)
(* (cursor_color.rs).                                                        *)
ColorsBelongToTheirCell == part = "colors" =>
  /\ Colors!ColorsAreFresh
  /\ Colors!ColorsAreOfTheCell

(* What is retained, and kept for the shell, is what projecting the last      *)
(* frame gives, and proposals fit their patches (planning/projection.rs).     *)
ScenesShowTheFrame == part = "scenes" =>
  /\ Scenes!RetainedIsTheFrame
  /\ Scenes!SpansAreOfTheRaster
  /\ Scenes!ProposalsFit

(* The field a frame is decoded from is that of everything deposited, no      *)
(* more and no less, but for what was neither drawn nor swept near the trail  *)
(* (draw/render/latent_field, draw/render_plan/compile.rs).                   *)
FieldIsOfTheTrail == part = "field" =>
  /\ Field!BucketsAreTheDeposits
  /\ Field!FieldIsCurrent
  /\ Field!BoundsCutNothing
  /\ Field!CentersAreOfTheTail

(* What is captured for a demand, dropped or read late leaves the smear at    *)
(* the cursor, and a scroll moves it with its text                            *)
(* (events/handlers/ingress_router, handlers/viewport.rs).                    *)
SmearsGoToTheCursor == part = "ingress" =>
  /\ Ingress!SmearReachesTheCursor
  /\ Ingress!ScrollsDragWithTheText
  /\ Ingress!ViewportIsCurrent

(* Particles are drawn where the screen was found blank, each cell asked      *)
(* about once, and tell what is in it (background_probe.rs, types.rs).        *)
ParticlesKeepOffTheText == part = "background" =>
  /\ Background!AdmitsWhatWasBlank
  /\ Background!ProbeIsDriven
  /\ Background!CellsAreTheParticles

(* The two state machines of the autocmds plugin: the terminal ends with the *)
(* newest title and directory, the buffers tracked are those in use          *)
(* (autocmds/src/integrations/wezterm.rs, autocmds/src/lib.rs).              *)
AutocmdsKeepTheirWord ==
  /\ UpdatesReachTheTerminal
  /\ TrackedBuffersAreRight

(* What an observation says is so: where the cursor is shown, whether the    *)
(* text was edited, what colour is under it, however much of it is cached,    *)
(* skipped or asked late (events/handlers/observation).                      *)
ObservationsAreTrue ==
  /\ CursorIsWhereShown
  /\ JumpsTellEdits
  /\ ColorsBelongToTheirCell
=============================================================================
