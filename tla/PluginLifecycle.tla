--------------------------- MODULE PluginLifecycle ---------------------------
(* setup and toggle of smear-cursor (events/lifecycle.rs): the runtime, its  *)
(* configuration, the registered callbacks and what is left on the screen,   *)
(* when any of the host calls on the way may fail.                           *)
EXTENDS RuntimeOptions

CONSTANTS OptionTables,   \* the tables setup may be called with
          MaxCalls,       \* bound: calls of setup and toggle
          MaxFailures     \* bound: host calls that fail

VARIABLES bridge,      \* "unverified" or "verified"
          namespace,   \* the shell knows the namespace of its extmarks
          enabled,     \* PluginState
          settings,    \* RuntimeConfig
          derived,     \* DerivedConfigCache
          revisions,   \* [config, projection]
          issued,      \* history: what each revision was first given for
          callbacks,   \* how many of Events are registered
          userCommands,    \* user commands that exist
          painted,       \* render windows of a smear are on the screen
          pending,     \* timers or queued effects of the core
          outcome,     \* history: how the last setup ended
          unplaced,    \* history: the last synchronisation found no cursor
          calls, failures

vars == <<bridge, namespace, enabled, settings, derived, revisions, issued, callbacks, userCommands,
          painted, pending, outcome, unplaced, calls, failures>>

(* Two stand for the list of registered events: none, some or all are there. *)
Events == 2

TypeOK ==
  /\ bridge \in {"unverified", "verified"}
  /\ {namespace, enabled, painted, pending, unplaced} \subseteq BOOLEAN
  /\ DOMAIN settings = Fields
  /\ outcome \in {"none", "applied", "refused", "failed"}
  /\ callbacks \in 0 .. Events
  /\ userCommands \subseteq {"toggle", "diagnostics"}
  /\ calls \in 0 .. MaxCalls /\ failures \in 0 .. MaxFailures

-----------------------------------------------------------------------------
(* The stations of setup and toggle at which a call of the host may fail; a  *)
(* failure leaves everything before it done and everything after it undone.  *)
Stations == <<"bridge", "capabilities", "viewport", "toggle command",
              "diagnostics command", "group", "first event", "second event", "cursor">>
Index(station) == CHOOSE i \in DOMAIN Stations : Stations[i] = station
Past(stop, station) == stop = "none" \/ Index(stop) > Index(station)

(* How a call goes: where it stops, whether the autocommand group could be   *)
(* cleared (only warned about), and what the cursor read found.              *)
Runs == [stop : {"none"} \union Range(Stations), clears : BOOLEAN,
         cursor : {"placed", "unplaced"}]
FailuresOf(r) == (IF r.stop = "none" THEN 0 ELSE 1) + (IF r.clears THEN 0 ELSE 1)

(* verify_host_bridge asks for the revision of a bridge it has not verified  *)
(* yet, and installs the probe helpers again in any case; toggle needs one   *)
(* that was verified.                                                        *)
Verified(r) == IF Past(r.stop, "bridge") THEN "verified" ELSE bridge
BridgeInstalled == bridge = "verified"

(* The callbacks that clear_autocmd_group leaves. *)
Cleared(r) == IF r.clears THEN 0 ELSE callbacks

(* setup_autocmds: the group is emptied, then one callback per event. *)
Registered(stop, before) ==
  CASE ~Past(stop, "group") -> before
    [] ~Past(stop, "first event") -> 0
    [] ~Past(stop, "second event") -> 1
    [] OTHER -> Events

(* setup_user_command: both are deleted first. *)
Created(stop) ==
  {c \in {"toggle", "diagnostics"} : Past(stop, c \o " command")}

(* jump_to_current_cursor: without a position on a surface it returns before *)
(* the render windows are purged.                                            *)
Jumped(r) == Past(r.stop, "cursor") /\ r.cursor = "placed"
Unplaced(r) == Past(r.stop, "cursor") /\ r.cursor = "unplaced"

(* commit_runtime_config_update *)
Revised(config) ==
  [config |-> revisions.config + 1,
   projection |-> revisions.projection
                  + IF Projection(Derived(config)) = Projection(derived) THEN 0 ELSE 1]

Issue(revs, config) ==
  LET fresh == [config |-> config, projection |-> Projection(Derived(config))]
      Named(book, revision, what) ==
        IF revision \in DOMAIN book THEN book ELSE Append(book, what)
  IN [config |-> Named(issued.config, revs.config, fresh.config),
      projection |-> Named(issued.projection, revs.projection, fresh.projection)]

(* RuntimeOptionsPatch::apply *)
Configure(config) ==
  /\ settings' = config
  /\ IF config = settings
     THEN UNCHANGED <<derived, revisions, issued>>
     ELSE /\ derived' = Derived(config)
          /\ revisions' = Revised(config)
          /\ issued' = Issue(Revised(config), config)

(* apply_core_setup_options: without the option the runtime is enabled before *)
(* the table is parsed, and disabled again when it is refused.               *)
Accepted(opts) == Parses(opts) /\ ValidAgainst(Patch(opts), settings)
(* Fault: a table that is refused does not disable the runtime again. *)
EnabledOnceAsked(opts) ==
  IF Accepted(opts) /\ "enabled" \in DOMAIN opts THEN Patch(opts).enabled ELSE TRUE

EnabledBy(opts) ==
  IF ~Accepted(opts) THEN FALSE
  ELSE IF "enabled" \in DOMAIN opts THEN Patch(opts).enabled ELSE TRUE

-----------------------------------------------------------------------------
SetupFrom(opts, r) ==
  LET begun == Past(r.stop, "capabilities")
      reset == Past(r.stop, "viewport")
      on == EnabledBy(opts)
      registering == Past(r.stop, "diagnostics command") /\ on
  IN /\ bridge' = Verified(r)
     /\ namespace' = (namespace \/ begun)
     /\ enabled' = (IF reset THEN on ELSE enabled /\ ~begun)
     /\ outcome' = (IF r.stop # "none" THEN "failed"
                    ELSE IF Accepted(opts) THEN "applied" ELSE "refused")
     /\ IF reset /\ Accepted(opts) THEN Configure(Patched(settings, Patch(opts)))
        ELSE UNCHANGED <<settings, derived, revisions, issued>>
     /\ userCommands' = IF reset THEN Created(r.stop) ELSE userCommands
     /\ callbacks' = (IF registering THEN Registered(r.stop, Cleared(r))
                      ELSE IF reset THEN Cleared(r) ELSE callbacks)
     /\ painted' = (painted /\ ~Jumped(r))
     /\ pending' = (pending /\ ~reset)
     /\ unplaced' = (IF Jumped(r) THEN FALSE ELSE (unplaced \/ Unplaced(r)))

(* setup; a refused table still synchronises with the cursor. *)
Setup ==
  /\ calls < MaxCalls
  /\ \E opts \in OptionTables, r \in Runs :
       /\ failures + FailuresOf(r) <= MaxFailures
       /\ r.stop \in {"group", "first event", "second event"} => EnabledBy(opts)
       /\ SetupFrom(opts, r)
       /\ failures' = failures + FailuresOf(r)
  /\ calls' = calls + 1

(* toggle, which needs a bridge that setup has verified. *)
ToggleOn(r) ==
  /\ namespace /\ ~enabled
  /\ r.clears
  /\ r.stop \notin {"bridge", "capabilities", "toggle command", "diagnostics command"}
  /\ enabled' = TRUE
  /\ callbacks' = (IF Past(r.stop, "viewport") THEN Registered(r.stop, callbacks) ELSE callbacks)
  /\ painted' = (painted /\ ~Jumped(r))
  /\ pending' = (pending /\ ~Jumped(r))
  /\ unplaced' = (IF Jumped(r) THEN FALSE ELSE unplaced \/ Unplaced(r))

ToggleOff(r) ==
  /\ namespace /\ enabled
  /\ r.stop = "none" /\ r.cursor = "placed"
  /\ enabled' = FALSE
  /\ callbacks' = Cleared(r)
  /\ painted' = FALSE
  /\ pending' = FALSE
  /\ unplaced' = FALSE

(* A shell that was reset by a panic knows no namespace until the next setup: *)
(* toggle then only switches the runtime.                                    *)
ToggleBare(r) ==
  /\ ~namespace
  /\ r.stop = "none" /\ r.clears /\ r.cursor = "placed"
  /\ enabled' = ~enabled
  /\ UNCHANGED <<callbacks, painted, pending, unplaced>>

Toggle ==
  /\ calls < MaxCalls
  /\ BridgeInstalled
  /\ \E r \in Runs :
       /\ failures + FailuresOf(r) <= MaxFailures
       /\ ToggleOn(r) \/ ToggleOff(r) \/ ToggleBare(r)
       /\ failures' = failures + FailuresOf(r)
  /\ calls' = calls + 1
  /\ outcome' = "none"
  /\ UNCHANGED <<bridge, namespace, settings, derived, revisions, issued, userCommands>>

-----------------------------------------------------------------------------
(* The core between the calls: an event of an enabled runtime starts a smear, *)
(* and the pending work ends it and takes it off the screen.                 *)
Smear ==
  /\ enabled /\ callbacks > 0
  /\ ~pending
  /\ pending' = TRUE
  /\ painted' = TRUE
  /\ UNCHANGED <<bridge, namespace, enabled, settings, derived, revisions, issued, callbacks, userCommands,
                 outcome, unplaced, calls, failures>>

Settle ==
  /\ pending
  /\ pending' = FALSE
  /\ painted' = FALSE
  /\ UNCHANGED <<bridge, namespace, enabled, settings, derived, revisions, issued, callbacks, userCommands,
                 outcome, unplaced, calls, failures>>

(* A panic inside a lane: the core, the timers and the shell start over,     *)
(* except for what is verified of the bridge. The options stay, unless the   *)
(* panic struck while the core was taken out of its lane for a transition:   *)
(* what is left there, the runtime and its options, is the default. Every    *)
(* consumer that keeps a revision is reset as well.                          *)
FreshRuntime ==
  /\ enabled' = TRUE
  /\ settings' = Default
  /\ derived' = Derived(Default)
  /\ revisions' = [config |-> 1, projection |-> 1]
  /\ issued' = [config |-> <<Default>>, projection |-> <<Projection(Derived(Default))>>]

Panic ==
  /\ failures < MaxFailures
  /\ namespace
  /\ failures' = failures + 1
  /\ namespace' = FALSE
  /\ painted' = FALSE /\ pending' = FALSE
  /\ \/ UNCHANGED <<enabled, settings, derived, revisions, issued>>
     \/ (pending \/ (enabled /\ callbacks > 0)) /\ FreshRuntime
  /\ UNCHANGED <<bridge, callbacks, userCommands, outcome, unplaced, calls>>

Init ==
  /\ bridge = "unverified"
  /\ namespace = FALSE
  /\ enabled = TRUE
  /\ settings = Default
  /\ derived = Derived(Default)
  /\ revisions = [config |-> 1, projection |-> 1]
  /\ issued = [config |-> <<Default>>, projection |-> <<Projection(Derived(Default))>>]
  /\ callbacks = 0 /\ userCommands = {}
  /\ painted = FALSE /\ pending = FALSE
  /\ outcome = "none" /\ unplaced = FALSE
  /\ calls = 0 /\ failures = 0

Next == Setup \/ Toggle \/ Smear \/ Settle \/ Panic

Spec == Init /\ [][Next]_vars

-----------------------------------------------------------------------------
(* setup enables the runtime before it parses the table: a table that is     *)
(* refused, after whatever setups and toggles came before, leaves it off     *)
(* until someone turns it on (engine.rs apply_core_setup_options).           *)
RefusedStaysOff == outcome = "refused" => ~enabled

(* Unless a host call failed on the way, the callbacks are there exactly     *)
(* when the runtime is on: no event reaches a runtime that is off, and none  *)
(* is missed by one that is on. Before the first setup nothing is there.     *)
CallbacksFollowTheSwitch ==
  (failures = 0 /\ bridge = "verified") => callbacks = IF enabled THEN Events ELSE 0

(* A runtime that was turned off has nothing on the screen that no pending   *)
(* work would take away, except after a setup that could not tell where the  *)
(* cursor is or stopped before it looked (jump_to_current_cursor).           *)
NothingIsLeftShown ==
  (~enabled /\ ~pending /\ painted) => (unplaced \/ failures > 0)

(* However the options arrive, over many tables of which each is held        *)
(* against the ones before it, the configuration is consistent as a whole,   *)
(* and the policies derived from it are those of now.                        *)
ConfigStaysConsistent == Consistent(settings) /\ derived = Derived(settings)

(* A revision that a consumer keeps stands for one configuration, and a      *)
(* projection revision for one projection policy: a plan that is reused      *)
(* because the revision is the same was made under the same policy.          *)
RevisionsNameConfigs ==
  /\ issued.config[revisions.config] = settings
  /\ issued.projection[revisions.projection] = Projection(Derived(settings))
  /\ Len(issued.config) = revisions.config

(* What the module's documentation says of setup: a setup that fails         *)
(* degrades into a disabled runtime and leaves no callbacks behind           *)
(* (events/lifecycle.rs).                                                    *)
FailedSetupsLeaveNoCallbacks == outcome = "failed" => callbacks = 0
=============================================================================
