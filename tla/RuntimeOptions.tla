--------------------------- MODULE RuntimeOptions ---------------------------
(* The options of smear-cursor: what each of them accepts, the configuration *)
(* a table of options leads to, and the policies derived from it. A Lua      *)
(* value is a record [kind, value]; numbers are kept in hundredths, so that  *)
(* fractions, integers and the bounds between them are told apart.           *)
EXTENDS Integers, Sequences, SequencesExt, FiniteSets, Functions

(* The Lua values of a table of options. *)
Number(hundredths) == [kind |-> "number", value |-> hundredths]
Infinite == [kind |-> "infinite", value |-> 0]
Boolean(b) == [kind |-> "boolean", value |-> b]
Text(s) == [kind |-> "string", value |-> s]
List(seq) == [kind |-> "list", value |-> seq]
Nil == [kind |-> "nil", value |-> 0]

-----------------------------------------------------------------------------
(* lua.rs: what a Lua value can be read as. *)
IsNumber(v) == v.kind = "number"
IsWhole(v) == IsNumber(v) /\ v.value % 100 = 0
IsWholeIn(v, low, high) == IsWhole(v) /\ v.value \in 100 * low .. 100 * high
IsText(v) == v.kind = "string"
IsList(v) == v.kind = "list"

MaxColorLevels == 256
PerfModes == {"auto", "full", "fast", "off"}

(* The numeric parsers. *)
NonNegative(v) == IsNumber(v) /\ v.value >= 0
UnitInterval(v) == NonNegative(v) /\ v.value <= 100
Positive(v) == IsNumber(v) /\ v.value > 0
AtLeastOne(v) == Positive(v) /\ v.value >= 100
Natural(v) == IsWhole(v) /\ v.value >= 0
Count(v) == IsWhole(v) /\ v.value >= 100
ColorLevels(v) == Count(v) /\ v.value <= 100 * MaxColorLevels
TopK(v) == IsWholeIn(v, 2, 255)
ColorIndex(v) == IsWholeIn(v, 0, 255)

(* The parsers of structured values; a change accepts nil, which clears. *)
Clears(v) == v.kind = "nil"
Filetypes(v) == IsList(v) /\ \A i \in DOMAIN v.value : IsText(v.value[i])
IndexList(v) == IsList(v) /\ (\A i \in DOMAIN v.value : ColorIndex(v.value[i])) /\ Len(v.value) <= MaxColorLevels
PerfMode(v) == IsText(v) /\ v.value \in PerfModes

Accepts(parser, v) ==
  CASE parser = "bool" -> v.kind = "boolean"
    [] parser = "non_negative_f64" -> NonNegative(v)
    [] parser = "unit_interval_f64" -> UnitInterval(v)
    [] parser = "positive_f64" -> Positive(v)
    [] parser = "time_interval" -> AtLeastOne(v)
    [] parser \in {"non_negative_usize", "non_negative_u32", "log_level"} -> Natural(v)
    [] parser = "positive_u32" -> Count(v)
    [] parser = "color_levels" -> ColorLevels(v)
    [] parser = "top_k_per_cell" -> TopK(v)
    [] parser = "string" -> IsText(v)
    [] parser = "buffer_perf_mode" -> PerfMode(v)
    [] parser = "filetypes_disabled" -> Filetypes(v)
    [] parser = "change_string" -> Clears(v) \/ IsText(v)
    [] parser = "change_u16" -> Clears(v) \/ ColorIndex(v)
    [] parser = "cterm_cursor_colors" -> Clears(v) \/ IndexList(v)

(* LogLevel::from_i64: levels from 5 on are off. *)
LogLevel(hundredths) == IF hundredths > 500 THEN 500 ELSE hundredths

(* What the accepted value leaves in the configuration. *)
Parsed(parser, v) ==
  CASE parser = "log_level" -> LogLevel(v.value)
    [] parser = "filetypes_disabled" -> {v.value[i].value : i \in DOMAIN v.value}
    [] v.kind = "nil" -> Nil
    [] v.kind = "list" -> [i \in DOMAIN v.value |-> v.value[i].value]
    [] OTHER -> v.value

-----------------------------------------------------------------------------
(* OPTION_SPECS, one table per section of RuntimeOptionsPatch. *)
Table(parser, keys) == [key \in keys |-> parser]
Tables(ts) == FoldLeft(LAMBDA whole, t :
                         [k \in DOMAIN whole \union DOMAIN t |->
                            IF k \in DOMAIN t THEN t[k] ELSE whole[k]], <<>>, ts)

RuntimeSwitches == Tables(<<
  Table("bool", {"enabled", "smear_to_cmd", "smear_insert_mode", "smear_replace_mode",
                 "smear_terminal_mode", "animate_in_insert_mode", "animate_command_line"}),
  [time_interval |-> "time_interval", simulation_hz |-> "positive_f64",
   max_simulation_steps_per_frame |-> "positive_u32",
   delay_event_to_smear |-> "non_negative_f64", max_kept_windows |-> "non_negative_usize",
   windows_zindex |-> "non_negative_u32", buffer_perf_mode |-> "buffer_perf_mode",
   filetypes_disabled |-> "filetypes_disabled", logging_level |-> "log_level"]>>)

ColorOptions == Tables(<<
  Table("change_string", {"cursor_color", "cursor_color_insert_mode", "normal_bg"}),
  [transparent_bg_fallback_color |-> "string", cterm_bg |-> "change_u16",
   cterm_cursor_colors |-> "cterm_cursor_colors"]>>)

SmearBehavior == Tables(<<
  Table("bool", {"smear_between_windows", "smear_between_buffers", "smear_horizontally",
                 "smear_between_neighbor_lines", "smear_vertically", "smear_diagonally",
                 "scroll_buffer_space"}),
  Table("non_negative_f64", {"min_horizontal_distance_smear",
                             "min_vertical_distance_smear"})>>)

MotionOptions == Tables(<<
  Table("positive_f64", {"head_response_ms", "damping_ratio", "tail_response_ms",
                         "trail_duration_ms"}),
  Table("non_negative_f64", {"anticipation", "stop_distance_enter", "stop_distance_exit",
                             "stop_velocity_enter", "max_length", "max_length_insert_mode",
                             "trail_min_distance", "trail_thickness", "trail_thickness_x"}),
  [stop_hold_frames |-> "positive_u32"]>>)

ParticleOptions == Tables(<<
  Table("bool", {"particles_enabled", "particles_over_text"}),
  Table("non_negative_f64", {"particle_spread", "particles_per_second",
     "particles_per_length", "particle_max_lifetime",
     "particle_lifetime_distribution_exponent", "particle_max_initial_velocity",
     "particle_velocity_from_cursor", "particle_random_velocity", "particle_damping",
     "particle_gravity", "min_distance_emit_particles"}),
  [particle_max_num |-> "non_negative_usize",
   particle_switch_octant_braille |-> "unit_interval_f64"]>>)

RenderingOptions ==
  [color_levels |-> "color_levels", gamma |-> "positive_f64",
   tail_duration_ms |-> "positive_f64", spatial_coherence_weight |-> "non_negative_f64",
   temporal_stability_weight |-> "non_negative_f64", top_k_per_cell |-> "top_k_per_cell"]

OptionSpecs == Tables(<<RuntimeSwitches, ColorOptions, SmearBehavior, MotionOptions,
                        ParticleOptions, RenderingOptions>>)

(* RuntimeOptionsPatch::parse: one unknown key or one refused value refuses  *)
(* the whole table.                                                          *)
OptionKeys == DOMAIN OptionSpecs
KnownKeys(opts) == DOMAIN opts \subseteq OptionKeys
Parses(opts) ==
  KnownKeys(opts) /\ \A key \in DOMAIN opts : Accepts(OptionSpecs[key], opts[key])
Patch(opts) == [key \in DOMAIN opts |-> Parsed(OptionSpecs[key], opts[key])]

-----------------------------------------------------------------------------
(* RuntimeConfig: every option but enabled, and the aspect ratio, which no   *)
(* option sets. Text and lists by default stand for themselves.              *)
Default ==
  LET Of(value, keys) == [key \in keys |-> value]
  IN Tables(<<
  Of(TRUE, {"smear_between_windows", "smear_between_buffers", "smear_between_neighbor_lines",
     "smear_horizontally", "smear_vertically", "smear_diagonally", "scroll_buffer_space",
     "smear_insert_mode", "smear_replace_mode", "smear_terminal_mode", "smear_to_cmd",
     "animate_in_insert_mode", "animate_command_line", "particles_enabled"}),
  Of(0, {"anticipation", "max_length", "max_length_insert_mode", "trail_min_distance",
     "min_horizontal_distance_smear", "min_vertical_distance_smear"}),
  Of(100, {"damping_ratio", "trail_thickness", "trail_thickness_x", "stop_hold_frames",
     "delay_event_to_smear", "particles_per_length", "spatial_coherence_weight"}),
  Of(Nil, {"cursor_color", "cursor_color_insert_mode", "normal_bg"}),
  [particles_over_text |-> FALSE, filetypes_disabled |-> {}, buffer_perf_mode |-> "auto",
   time_interval |-> 1389, simulation_hz |-> 12000, max_simulation_steps_per_frame |-> 1600,
   head_response_ms |-> 11000, tail_response_ms |-> 19800, trail_duration_ms |-> 15000,
   tail_duration_ms |-> 19800, stop_distance_enter |-> 2, stop_distance_exit |-> 4,
   stop_velocity_enter |-> 2, max_kept_windows |-> 6400, windows_zindex |-> 30000,
   logging_level |-> 200, transparent_bg_fallback_color |-> "#303030", cterm_bg |-> 23500,
   cterm_cursor_colors |-> [i \in 1 .. 16 |-> 100 * (239 + i)],
   particle_damping |-> 20, particle_gravity |-> 2000, particle_random_velocity |-> 10000,
   particle_max_num |-> 10000, particle_spread |-> 50, particles_per_second |-> 20000,
   particle_max_initial_velocity |-> 1000, particle_velocity_from_cursor |-> 20,
   particle_max_lifetime |-> 30000, particle_lifetime_distribution_exponent |-> 500,
   min_distance_emit_particles |-> 150, particle_switch_octant_braille |-> 30,
   block_aspect_ratio |-> 200, color_levels |-> 12800, gamma |-> 220,
   temporal_stability_weight |-> 12, top_k_per_cell |-> 500]>>)

Fields == DOMAIN Default

(* What the options of one table are held against together, the ones it      *)
(* leaves out at their values of now.                                        *)
Consistent(config) ==
  /\ config.tail_response_ms >= config.head_response_ms
  /\ config.damping_ratio > 0
  /\ config.stop_distance_exit >= config.stop_distance_enter
  /\ config.particle_switch_octant_braille \in 0 .. 100
  /\ config.top_k_per_cell >= 200

Patched(config, patch) ==
  [field \in DOMAIN config |-> IF field \in DOMAIN patch THEN patch[field] ELSE config[field]]
ValidAgainst(patch, config) == Consistent(Patched(config, patch))

-----------------------------------------------------------------------------
(* DerivedConfigCache: the slices of the configuration its consumers see. *)
Raised(config, field, least) ==
  [config EXCEPT ![field] = IF @ < least THEN least ELSE @]
QuantizationPolicy(config) == Restrict(config, {"color_levels", "gamma"})
WindowPoolPolicy(config) == Restrict(config, {"max_kept_windows", "windows_zindex"})
PlannerPolicy(config) ==
  Restrict(Raised(Raised(config, "tail_duration_ms", 100), "top_k_per_cell", 200),
    {"particles_over_text", "particle_max_lifetime", "particle_switch_octant_braille",
     "block_aspect_ratio", "tail_duration_ms", "simulation_hz", "trail_thickness",
     "trail_thickness_x", "spatial_coherence_weight", "temporal_stability_weight",
     "top_k_per_cell"})
PalettePolicy(config) ==
  Restrict(config, {"cursor_color", "cursor_color_insert_mode", "normal_bg",
     "transparent_bg_fallback_color", "cterm_cursor_colors", "cterm_bg"})

Derived(config) ==
  [quantization |-> QuantizationPolicy(config), pool |-> WindowPoolPolicy(config),
   planner |-> PlannerPolicy(config), palette |-> PalettePolicy(config)]

(* What a projection depends on: the curve of the palette is not part of it. *)
Projection(derived) ==
  <<derived.pool, derived.planner, derived.quantization.color_levels>>
=============================================================================
