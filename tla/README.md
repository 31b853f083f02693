# A specification of the Neovim plugins of dotfiles-nix

The repository is a Nix configuration with a Rust workspace of Neovim plugins.
Most of its logic with state is in one plugin, `smear-cursor`
(`src/nvim/rust/plugins/smear-cursor`), which animates a trail behind the cursor.
Its core is a pure reducer; a shell around it queues the reducer's effects,
executes them against Neovim, starts timers and feeds what happened back as
events. Around that loop stand the parts that look at the editor, plan frames,
keep floating windows, and a few smaller plugins. This project models them in
TLA+, checks them with TLC and proves the main safety properties of the loop with
TLAPS.

Paths below are relative to `src/nvim/rust/plugins/smear-cursor/src` unless they
start with `docs/`, which is `src/nvim/rust/docs`.

## Inventory

| Component | State | Operations | Interacts by |
| --- | --- | --- | --- |
| Core reducer (`core/reducer`, `core/state`) | phase with its observation and proposal, demand queue, ingress delay, timer slots, render cleanup, realization ledger | one handler per event (`reduce_owned`) | events in, effects out |
| Scheduled queue and drain (`events/runtime/dispatch_queue.rs`, `events/handlers/core_dispatch`) | queue of ordered batches, shell-only steps and staged events; work count; `drain_scheduled` | stage, pop, execute a unit, dispatch follow-ups, reset on failure | calls effect executors and the reducer |
| Effect execution (`events/handlers`) | windows, buffers, caches | one function per effect | returns follow-up events |
| Deferred render cleanup (`core/state/render_cleanup.rs`, `core/runtime_reducer/cleanup.rs`) | thermal state, deadlines, retry attempt, quiescence | enter hot, soft clear, compact, converge, retry, quiesce | cleanup timer, cleanup effect and its report |
| Host timer bridge (`events/runtime/timer_bridge.rs`, `timers.rs`) | a host callback slot per timer id, retry entries | schedule, replace, fire, dispatch, retry, reset | libuv timers, scheduled callbacks |
| Runtime lanes and recovery (`events/runtime/cell.rs`, `engine.rs`, `recovery.rs`) | reducer, shell and timer lanes, each present or taken | take, restore, panic, reset plan | every callback runs through them |
| Window pool, prepaint (`draw`) | pooled windows, payloads, quarantine | acquire, hide, close, prune | asked for by apply and cleanup |
| Runtime reducer (`core/runtime_reducer`) | target, settling window, animation clock, tail drain | one step per planned frame | called while planning |
| Scene planning and latent field (`core/reducer/machine/planning`, `core/runtime`, `draw/render`) | scene, retained projection, ring of swept slices | project, realize, patch | plan effect |
| Observation of the editor (`events/handlers/observation`, `core/state/observation`) | conceal, text, color and background caches, each with a revision | sample, probe, splice chunks | asked for by the core, answers with events |
| Ingress router (`events/handlers/ingress_router`) | last surface, viewport cache | capture, drop, coalesce | editor callbacks in, demands out |
| Options and lifecycle (`events/options`, `events/lifecycle.rs`) | configuration, derived policies, callbacks | parse, validate, setup, toggle, disable | the user's commands |
| Buffer policy, caches (`events/policy.rs`, `telemetry`, `lru_cache.rs`) | counters that decay, classes, linked slots | record, classify, insert, evict | read by ingress and planning |
| snacks-preview | tokens in a two-index registry | attach, cancel, complete | editor callbacks |
| theme-switcher, autocmds, project-root | sessions, channels, records | choose, preview, restore; write; search | editor callbacks, a worker thread |
| readline, text, utilities | none | pure functions | - |
| Nix, shaders, perf scripts | none | declarative | - |

What is hard. Everything but one worker runs on one thread, but between two units of
queued work any editor callback or timer may run. An effect is executed long after
the transition that asked for it; its answer may find another phase. One failure
drops all queued work. Timer slots in the reducer and timers in the host are two
records of one fact. Frames, timers and demands overtake one another. Whatever is
sampled of the editor is cached under a revision that some event must have moved.
Calls into the editor may fail, close windows or re-enter the plugin. What must hold
nevertheless: no phase waits for an answer nobody owes; no demand is lost or observed
after a newer one; every phase that waits for a timer has one; the ledger, on which
every next frame is based, tells the truth about the screen; the pool knows its
windows; cleanup converges; what was sampled is what is there. `PROJECT.json` lists
each hazard at its line with the properties that cover it.

## Modules

| Module | Content |
| --- | --- |
| `SmearReducer` | `reduce_owned` as operators: the core state is a record, each handler maps state and event to `[next, effects]`. No variables. |
| `SmearCore` | the reducer in its shell: queue, running batch, follow-ups, host timers, screen; one action per effect executor, drain step, and editor or timer callback; the properties. |
| `DispatchQueue`, `DeferredWork` | the scheduled queue and its drain: staging, coalescing, the counter, the drain flag, budgets and chained passes, failures, panics, resets; and what it promises: numbered work performed in order, dropped only by a failure or a reset. |
| `HostTimers`, `OneShotTimers` | the timer bridge: callback ids, the hop from a firing to its dispatch, retries, resets; and what `SmearCore` takes timers for. |
| `WindowPool`, `DrawResources` | the pool's data structures and operations as operators; the pool in an editor that may refuse any call: frames, cleanup, closings. |
| `RenderCleanup` | the thermal state machine with a clock. |
| `AnimationRuntime` | targets, settling, ticks, tail drains, hiding of the cursor. |
| `SceneProjection`, `LatentField` | what a projection is reused for and how its patch fits; the ring of slices a field is compiled from. |
| `CursorIngress`, `BufferPolicy`, `LruCache` | what an event captures and which events are dropped; the class of a buffer; the cache's links. |
| `ConcealProjection`, `TextContexts`, `CursorColors`, `BackgroundProbe` | what an observation samples, each with its cache. |
| `RuntimeOptions`, `PluginLifecycle` | parsing and validating option tables; setup, toggle, disable, their failures and panics. |
| `SnacksPreview`, `ThemeSwitcher`, `ProjectRoot`, `WeztermSync`, `BufferTracking` | the smaller plugins. |
| `MCSmearCore`, `MCDispatchQueue`, `MCDrawResources`, `MCParts` | instances for TLC. `MCParts` puts the components that share no state side by side: its variable `part` chooses one, the others keep the value `Off`. |
| `SmearCoreTypes`, `SmearCoreDemands`, `SmearCoreWork`, `SmearCoreTimers`, `SmearCoreCleanup`, `SmearCoreScreen` | the proofs about `SmearCore`, each module resting on the one before. |
| `DispatchQueueProofs`, `HostTimersProofs` | the proofs about the queue and the timer bridge. |

`SmearCore` and `DispatchQueue` describe the same queue from two sides. The first
says what the effects in it do and lets an edge end after any unit; the second says
how units get in and out and does not look into them. `SmearCore` takes its timers to
be one-shot; `HostTimers` shows that the bridge makes them so. The modules of
`MCParts` meet `SmearCore` at its inputs: what they compute (a demand, a sampled
cell, a decision, a report) is what `SmearCore` chooses freely.

### How the model corresponds to the code

`SmearReducer` keeps the names of the handlers; `map` in `PROJECT.json` gives
the lines of each. The `ProtocolPhase` variants are the values of `core.phase`:
`Collecting` and `Observing` are the two halves of `Lifecycle::Observing`. The
phases that retain an observation keep it in `core.obs`. Where the code says
`unreachable!` the model enters a phase outside `PhaseKinds`, so that `TypeOK`
shows those lines are unreachable.

Effects are queued by `StageBatch` as the code does, one batch per transition,
split where shell-only work stands between ordered effects. A unit of the queue
runs to its end: `StartBatch`, the `Execute...` actions in order, then
`DispatchFollowUp` for every event they returned. The editor and timers act
between units only. A refresh report is staged rather than dispatched; the
color probe of a fresh base runs in the same wave. When an effect fails,
`DrainFails` empties queue, batch and follow-ups and stages one `EffectFailed`.

Two history variables speak of demands: `latest`, the newest demand made of each
kind, and `settled`, the newest one whose observation completed or whose refresh
budget was spent.

What is abstracted:

- Time. A handler that compares `observed_at` with a deadline receives the
  outcome, `due`. `core.delay` and `core.cleanup.pushed` remember that a deadline
  moved after its timer was armed; only then may a timer be early. The recovery
  backoff and the cleanup's retry backoff are durations and left out.
- The runtime reducer. A plan takes one of the `PlanDecisions`: execution,
  cleanup action, whether a next frame is scheduled, whether the animation is left
  running. The code also has a mode in which an animation stays running with no
  frame scheduled (the target is ignored in that editor mode); the
  configurations do not include that decision.
- Frames. A frame is the id of the proposal that drew it; `screen` is the frame
  the windows show. `last_consistent` of the ledger is read by tests only and
  left out.
- Observations. What is kept is which probes are outstanding and whether a cell
  or a color is inexact. `CompactToBudget` and `CompactToZero` are one `Compact`.
- The queue. In `SmearCore` shell-only units are dropped from it, since nothing
  comes back from them; the budget of a drain pass is replaced by the freedom to end
  after any unit. `DispatchQueue` has both.

In `DispatchQueue` an agenda of shell-only steps appears as its steps: shell-only
work joins the agenda at the back, so agendas are never neighbours, and the queue
of items is the sequence of its units. A batch is the sequence of its runs, maximal
stretches of effects of one kind (ordered, metrics, redraw); each run and each
staged event gets a number, and a unit carries the numbers coalesced into it. One
edge is `DrainStarts`, then `PopWorkUnit` and the end of the unit in turn, then
`NextPass` or `EdgeEnds`. The callbacks the editor holds are counted (`drains`): a
reset does not take them back, so several may be on their way. A unit that fails
(`UnitFails`) resets the queue and stages its report. A panic inside the reducer or
shell lane (`LanePanics`) resets the queue through the recovery plan before the
guard of the callback reports it; a panic of an executor outside the lanes
(`UnitPanics`) resets nothing. Which effects a transition emits, and the thermal
state it leaves, are free choices.

### Notes on the other modules

What a reader of one module should know beyond its comments: what is exact, what
is left out, and where the code surprises.

- `HostTimers`. A lane found in use stays in use for the whole callback, so resolving
  and staging fail together, and the retry is always the one that is not coalesced:
  the set of pending retries stays empty.
- `WindowPool`, `DrawResources`. The editor may refuse each kind of call for each
  float and closes floats and tabs by itself. A float placed while hidden whose text
  is refused and which resists teardown stays recorded without placement while it is
  shown. A window that cannot be closed holds up those behind it. The `debug_assert`
  of `begin_tab_frame` (`draw/window_pool/acquire.rs`) does not hold with a retained
  invalid window. Between a `WinClosed` and its deferred prune a frame may be drawn
  on the dead window; `VanishingIsRedrawn` says the next one is not. Handles are
  never reused. Adaptive budgets are diagnostics only. `TabPageRegistry` is left out.
- `RenderCleanup`. An armed cleanup timer is kept when a frame re-enters `Hot`. The
  lateness of the clock is bounded by `Slack`, less than the distance of the two
  deadlines. A hot frame applied while a soft clear is queued gets cleared. What happens
  when executing the cleanup fails is left to `core_cleanup_lost`.
- `AnimationRuntime`. A pose is a cell, a step moves it one cell. Retarget epochs,
  stroke ids and the corners of the shape are left out; a motion target is always
  available. Each early tick re-arms the settling deadline.
- `SceneProjection`. One row of cells; the planner's field is an expiry step per
  cell; planning is one step with the apply's outcome (`LoseTrust` for the rest).
  Aggregates may be allocated again at a freed address; no two live ones are confused.
- `LatentField`. Bands and curves are lengths. The decoder may drop the rightmost
  cell of a band. `BoundsCutNothing` excepts the one frame that is retargeted at the
  last drain step. The drain steps and supports are written down in two files of the
  code that must agree.
- `CursorIngress`. Windows and buffers are not closed. `screen_distance` of the code is
  off by the rows of wrapped lines. A `CursorMoved` demand keeps its surface but
  reads its cursor later. Ghost `overtaken` marks what the divergences below cause.
- `ConcealProjection`. The exact read always clears the hints first, so in it the
  incremental scan and a delta-cache hit are unreachable. Off-screen columns and the path
  without a surface are left out. Evicting a revision makes later ones alias it;
  clearing the caches with it keeps the keys honest.
- `TextContexts`. One buffer, one cached context. After setup or a toggle the first
  observation may take a move for an edit, and an insertion above the cursor counts as
  one at the cursor. Suppressed events are excepted by ghost `mute`.
- `CursorColors`. No colour cached and no fallback carried is ever reused; a retry has
  no fallback. `BackgroundProbe`: chunks of three cells in bytes of two bits splice
  unaligned. Text typed under an own particle with a glyph in range is not seen, nor is
  the mode that draws particles over text modelled.
- `BufferPolicy`. Time in half-lives. A duration recorded after a buffer is wiped makes
  its entry anew. `OptionSet` may be suppressed. A query earlier than a recording is left out.
- `RuntimeOptions`, `PluginLifecycle`. Numbers in hundredths. Patches accumulate. The
  early returns of `jump_to_current_cursor` leave the windows of an older smear. A
  panic inside `with_core_transition` leaves a default core and forgets the user's
  configuration (`events.rs:341`); recovery restores the default log level. A failure
  to clear the autocommand group is a warning only.
- `SnacksPreview`. The replacement paths of `Register` are kept though the shell does not
  reach them all. Restoring a name never fails, attaching is atomic.
- `ThemeSwitcher`. A picker opened with a scheme that is not in the catalogue, moved
  away and back to the first entry, does not restore the original scheme when cancelled. A
  failed rendering of a change leaves the mark at the old entry. `close_window` closes
  a window that now shows another buffer.
- `ProjectRoot`. A record may give a farther root than the nearest while its own
  indicator exists. Setting buffer variables does not fail.
- `WeztermSync`. A request equal to the applied value is dropped even while another
  value is in flight. After `Unavailable` pending work is cleared and late results are
  ignored. A failed `getcwd` after a title request drops the title with its slot in flight (excepted
  by `faults`). A write reported as failed may still reach the terminal.
- `BufferTracking`. `bufwinid` gives the first window that shows a buffer; events may
  be suppressed by `:noautocmd`.

## Runs

The `core_` runs use `MCSmearCore`, the `dispatch_` runs `MCDispatchQueue`, the `draw_`
runs `MCDrawResources`. Deadlock is not checked: with no demand, no timer and an empty
queue the plugins rest, and every run's events are bounded.

| Run | Question | Bounds |
| --- | --- | --- |
| `core_protocol` | Does the protocol lose work, demands or timers, whatever fails? | two kinds, two demands, the ingress delay, color and background probes, any three failures out of six kinds, one animated frame |
| `core_live` | Is every demand settled in the end? | as above, three failures of observations or refreshes: enough to spend a refresh budget |
| `core_ledger` | Does a consistent ledger name the frame on the screen, and has owed cleanup a timer or work under way? | one kind, two demands, drawing and clearing decisions, two animated frames, two cleanup callbacks, two failures of six kinds |
| `core_ledger_noop`, `core_cleanup_lost` | violations, see below | the smallest instance that shows each |
| `dispatch_queue` | Is queued work served, in order, in bounded edges, and all of it in the end? | budgets of 1, 2 and 3 for 16, 32 and 96, seven batches, six runs or events, two faults, no panic outside the lanes |
| `dispatch_faults` | Do the counter, the deferral of follow-ups and the limits of coalescing survive every fault? | the same, five runs or events, two faults of all five kinds |
| `dispatch_stall` | violation, see below | one panic |
| `host_timers` | Does a stale, retried or lost callback ever take the place of a newer timer? Is every armed timer answered? | two timers, three requests, two faults, two resets |
| `draw_resources` | Does the pool know its windows, leak none, report what it drew? | three floats on one tab for two frames or two floats on two tabs for one, one mishap, a teardown budget of two |
| `draw_blank` | violation, see below | no mishap |
| `parts` | Do the components that share no state keep their promises, each with its faults? | see the instances in `MCParts`; fourteen properties, one per component or two |

Why these bounds make the interesting cases happen: two demands are the least with
coalescing and overtaking, and with two kinds the queue holds two at once; two
failures let one interrupt the recovery from the other; two animated frames let a
plan rest on a trusted frame. With six runs a queue is longer than the largest
budget, and an ordinary pass can be followed by a chained one; two faults leave stale
drain callbacks behind a reset. Three floats let a swap-removal move one that is
neither the first nor the removed. In `parts` every cache is one entry short of what
is asked of it, every deadline can pass in two ways, and every actor has two of what
it confuses. Every action fires, and every property is violated once a plausible
mistake is put into the code it is about (`mutants`): a dropped requeue, an early
timer that is not re-armed, a slot that keeps its old links, and so on. The
definitions whose comment begins with "Fault:" are those mistakes; no action uses them.

Fairness. `DemandsSettle` assumes weak fairness of the drain, of each host timer
and of `Initialize`. Neovim runs scheduled callbacks and fires started timers;
the code relies on nothing else. Nothing is assumed about the editor: ingress and
failures may stop at any time. `ImplementsDeferredWork` assumes weak fairness of the
steps of the drain, which needs the editor to run the callbacks it holds;
`ArmedTimersAnswer` weak fairness of firing and dispatching. `core_live` leaves out the
loss of the recovery timer, which settles the phase without starting the requeued
demand: the code's tests pin that (`core/reducer/tests/timer_loss.rs:438`).

### What the violations show

1. `core_ledger_noop`. A noop's target is the frame that was trusted when it was
   planned (`planning/scene.rs:226`). If a soft clear is executed between the plan
   and its apply, the ledger diverges, then `reduce_apply_completed` acknowledges
   the target and the ledger trusts a frame that is hidden. The comment at
   `planning/scene.rs:234` wants exactly this excluded; it checks when planning,
   not when applying.
2. `core_cleanup_lost`. A demand's cleanup timer is requested in the batch of its
   observation request, behind it. If the observation fails, the drain's reset
   drops the request while the slot stays armed. Later demands see an armed slot
   and do not arm again: cleanup stops.
3. `dispatch_stall`. A drain callback whose executor panics outside the lanes ends
   without lowering `drain_scheduled`. Its guard stages `EffectFailed`
   (`events/timers.rs:36`), but staging under a raised flag schedules no drain, then
   or later: nothing is executed until a reset by setup, toggle or a lane panic.
4. `draw_blank`. Hiding an unused window clears its text but not its cached payload
   (`draw/window_pool/ops/cleanup.rs:35`). A later frame with the same chunks takes
   the window for drawn and shows it blank.

`core_ledger` therefore leaves out noops. It also leaves out panics of other callbacks
of the plugin: the failure they stage has no proposal id; one that arrives while a
proposal is being applied abandons it, its `ApplyProposal` stays queued and is
executed, and its report is ignored, so the ledger stays consistent with an older frame
(`core/reducer/machine/apply.rs:335`; `docs/state_ownership.md:277`). And it leaves out
failed observations, for the sake of `CleanupIsTimed` (`core_cleanup_lost`); the ledger
survives them, as `LedgerTellsTheTruth` shows.
`dispatch_queue` leaves out panics outside the lanes. Within those limits the
properties hold.

`EdgeIsBounded` states the bound the code gives. It is not the 96 units
`MAX_CHAINED_SCHEDULED_WORK_ITEMS_PER_EDGE` suggests: the total is compared before a
chained pass and the pass has a budget of its own, so an edge may drain an ordinary
budget and then a chained one, 128 units.

### Known divergences

These statements, each with its comment, stand in their modules, and TLC refutes
them; the properties the runs check except what they show, by a named ghost variable
or condition. No run of the manifest checks them.

| Statement | Module | The code does | and says |
| --- | --- | --- | --- |
| `EditsAtTheCursorJump` | `TextContexts` | the first edit after a pure move smears: the revision kept is the one of the last sampled rows (`events/handlers/observation/text_context.rs:106`) | an edit at the cursor jumps (`core/state/observation/semantic.rs:47`) |
| `SmearAlwaysReachesTheCursor` | `CursorIngress` | drops an event whose surface is the last committed one though a queued demand captured another (`events/handlers/ingress_router/cursor_autocmd.rs:251`, `:438`), and lets a dropped `WinEnter` swallow a `BufEnter` (`:346`) | the last demand is the one that counts (`core/state/ingress.rs:118`) |
| `ExactColorsAreOfTheCell` | `CursorColors` | calls a colour exact that was read at another cell (`events/handlers/core_dispatch/execute.rs:199`) | exact |
| `EveryTickMakesProgress` | `AnimationRuntime` | in the command line ticks reduce with a frozen `observed_at`, so a settling target is never promoted and the timer is re-armed every millisecond (`core/reducer/machine/planning/runtime.rs:66`) | comment at line 68 |
| `FailedSetupsLeaveNoCallbacks` | `PluginLifecycle` | a setup that fails late leaves its callbacks registered (`events/lifecycle.rs:213`, `:236`) | comment at line 3 |
| `DegradesOnlyOnRepeatedPressure` | `BufferPolicy` | one slow callback can degrade a buffer (`events/telemetry.rs:89`) | `events/policy.rs:15` |
| `OwnParticlesAreNoText` | `BackgroundProbe` | 25 octant glyphs lie outside the range taken for own ones (`draw/constants.rs:8`), so own particles count as text of the next probe | - |

## Proofs

All theorems hold for every value of the constants. Those about `SmearCore` hold for
any number of demands, failures and kinds, from the four named assumptions of `SmearReducer` and
`SmearCore` (kinds are told apart, flags are Booleans, bounds are naturals,
decisions have their type).

`SmearCoreTypes` proves `TypeCorrect == Spec => []TypeOK`. `TypeOK` alone is not
inductive: `core.proposal` holds a bare id while planning and a complete proposal
while applying, and the apply handler reads its fields. `TypeInv` adds that an
applying core holds a complete proposal. The lemmas follow the reducer, one per
helper and per handler; handlers of timers and cleanup are also shown to leave
the protocol's fields alone (`TimersOnly`), which the second module builds on.

`SmearCoreDemands` proves

- `NewestDemandIsKept`: until it is settled, the newest demand of a kind is queued
  or being observed;
- `NoStaleObservationEver`: no demand overtaken by a settled one is observed;
- `PlansComplete`: planning and applying rest on a complete observation.

The inductive invariant is `DemandsInv == TypeInv /\ ObservationInv`, in four
parts. `QueueInv`: queued demands are newer than settled ones and no newer than
the newest. `ActiveInv`: the active demand lies between the settled and the queued
one of its kind. `NewestInv` is the property itself. `CompleteInv` says where an
incomplete observation may be found: while its demand is collected or observed, or
retained in `Recovering` and then in `Ready` with a demand queued. The last clause
is why a failure during a re-collection is harmless: the observation it retains is
incomplete, but the demand it was for has been requeued, and a ready core with a
queued demand observes rather than plans.

`SmearCoreWork` proves `NoWorkIsLost`: whatever fails, a phase that waits for an
answer has somebody who owes it. The reducer half is `Leaves`, what a transition
leaves behind: a phase that now waits was waited for in the same way already, and by
an event that is no answer, or the transition's effects hold the work. The shell
half are lemmas on where work can be: staged effects are pending, executed effects
leave the event that answers them, a drain that fails leaves the `EffectFailed` that
ends the wait. What makes it inductive is `WorkInv`: while a plan is computed or a probe
is out, the queue names that very proposal or observation, so that an older report
cannot be taken for the answer.

`SmearCoreTimers` proves three theorems about timers. The queue keeps the timer
requests of many transitions, and the host keeps one timer per slot; so that the host
ends up with the newest, `OrderInv` says that requests and timer events in the
queue come in the order of their tokens and behind the one the host holds
(`TokensStayInOrder`, with every fault). From it:

- `RecoveryAlwaysTimed`: a core in `Recovering` has its recovery timer armed, and the
  armed one is requested, with the host, or on its way back. It holds with every fault.
- `NoPhaseWaitsForever`, the property `PhasesAreTimed`: every phase that only a timer can
  end has that timer. `PhaseInv` adds that an ingress delay belongs to a phase with
  a timer (`DelayHolds`) and that a plan that leaves an animation running asks for
  its next frame (`PlansAnimate`). Two assumptions: the recovery timer is not
  lost (a lost one settles the phase without its demand, the hazard at
  `core/reducer/machine/timers.rs:188`), and a decision that leaves the animation running schedules a
  frame (`GoesOn`; the mode whose targets are ignored does not).

`SmearCoreCleanup` proves `CleanupIsNeverForgotten`, the property `CleanupIsTimed`: cleanup
that is owed has its timer on the way, or its work or its report queued. Cleanup goes
from hand to hand (timer, work, report, timer), and `CleanupInv` says that one
of them always holds it, that every armed timer is on its way, and that an idle
core owes none. One assumption: the drain does not fail. A failure empties the
queue, with the work or the report in it, and the event it stages owes no cleanup: the
run `core_cleanup_lost`. The lemmas `...Spares` name the handlers that touch neither
cleanup nor ledger.

`SmearCoreScreen` proves two theorems about what is on the screen.

- `ShellAppliesTheCurrent`, the property `ShellAppliesCurrentProposal`. `Lined` says what the
  queue is like: a batch that touches the screen holds one effect, one queued batch
  at most applies a proposal, the report of either comes with the batch empty, and a
  failure without a proposal id is alone at the front. `Current` says that the queued proposal is
  the applying core's, and that its answer is never queued together with it.
- `LedgerTellsTheTruth`, the property `LedgerTruth`. Inside a unit the ledger lags
  behind the screen: `Told` says that a trusted frame is shown, or a report that ends
  the trust waits; `Shown` that what is reported as applied in full is shown.

`Steers` is the reducer half of both: what one transition may do to the proposal, the
ledger and the effects that touch the screen. Both assume that no other callback of
the plugin panics, the second also that no decision is a noop (`AlwaysDraws`). Neither
assumption can be spared: TLC breaks both properties with the fault `plugin`, and
`core_ledger_noop` is the second. Failed observations and refreshes are covered, which
`core_ledger` leaves out.

`HostTimersProofs` proves every safety property of `HostTimers`, from its assumptions
alone. `BridgeInv` relates the slot, the timers of the host and the callbacks on their
way, and no two of them share an id. Of tokens it says that one still on its way is no
newer than its slot, and that with the slot's generation it is the newest request,
without which a firing could not be told from an older one's.
`HandlesStayDriven`: a handle in a slot has a timer, a callback or a retry that will
answer it. `NoTimerIsOrphaned`: the host holds no timer that no slot knows.
`OneShot` is the refinement of `OneShotTimers`: every step of the bridge is a step
of it or leaves its state alone, which is what `SmearCore` assumes of timers.

`DispatchQueueProofs` proves every safety property of `DispatchQueue`, from the three
assumptions of that module (ordered budgets, batches as runs of different kinds,
natural bounds):

- `TypeCorrect` and `UnitsAreCounted`. The inductive invariant `TypeInv` adds
  `PassInv`: what is left of a pass is at most what is queued, plus the unit in
  execution. Without it a pass could run into an empty queue.
- `ServedWithoutPanics`, under the assumption that no executor panics outside the
  lanes. `ServedInv` splits the property at the flag: queued work raises it, and a
  raised flag has a drain behind it.
- `ImplementsDeferredWorkSafety`, the refinement. `OrderInv`: units hold numbers
  already given out, each unit later ones than the unit ahead.
- `FollowUpsWait`. `DeferInv`: what the pass still has to execute is older than the
  edge, shell-only units apart.
- `OnlyShellWorkIsCoalesced`, inductive as it stands.
- `EdgesAreBounded`. `BoundInv`: an edge is within one ordinary budget, or in its
  last pass, because it is not hot, has its chained budget, or drains a queue of
  shell-only units, from which nothing new can come.

All ways of staging share one shape (`Grows`: some runs are appended, the first
perhaps joins the last unit), proved once for batches and once for events; the
invariants are proved from that shape. `FollowUpsWait`, `EdgesAreBounded`,
`OnlyShellWorkIsCoalesced`, the counter and the refinement hold with every fault.

Only model-checked: liveness (`DemandsSettle`, and that all deferred work is
performed, the fairness part of `ImplementsDeferredWork`), which with `ENABLED` is out of the
prover's reach; the properties of `DrawResources`, whose operations on
the pool are recursive and folds over sequences, out of the prover's reach as well;
and the parts of `MCParts`, whose properties join those of a component that share a
fixture. Every invariant the runs check of `SmearCore`, `DispatchQueue` and
`HostTimers` is proved.

## Not modelled, and why

Telemetry and diagnostics (nothing reads them back), host adapters (pass-through
calls), the numerics of springs, particles, palettes, the ribbon solver and the glyph
decoder (searches over floating-point weights whose outcome no protocol state depends
on; `LatentField` and `AnimationRuntime` keep what of them is discrete), the cell
that takes and restores a runtime lane (its effects are in `HostTimers`,
`DispatchQueue` and `PluginLifecycle`), readline, text and the shared utilities (pure
functions), oil's renames after an edit, perf scripts, the Nix configuration and the
shaders.

One hazard has no property: a lost recovery timer settles the phase without starting
the requeued demand (`core/reducer/machine/timers.rs:188`); the code's tests pin it.
