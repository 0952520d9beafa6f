-------------------------------- MODULE Config --------------------------------
(***************************************************************************)
(* Config::from_env: from the environment of the process to a              *)
(* configuration, or to an error that ends the program before it serves.   *)
(* A variable is unset, not Unicode, text that does not parse, or a number *)
(* that is parsed into its type.                                           *)
(***************************************************************************)
EXTENDS Integers

CONSTANTS
    U32,    \* how many values a u32 has
    U64     \* how many a u64 has, and a usize on 64 bits

U8 == 256

ASSUME WidthsAssumption == {U32, U64} \subseteq Nat /\ U8 < U32 /\ U32 < U64

Raw == [kind: {"unset", "notUnicode", "garbage", "number"}, value: Int]

\* What the program is started with, and the backend it is built for.
IsEnvironment(e) ==
    /\ e.rpi \in BOOLEAN
    /\ e.grpc_addr \in Raw /\ e.worker_timeout \in Raw
    /\ e.rows \in Raw /\ e.cols \in Raw
    /\ e.brightness \in Raw /\ e.refresh \in Raw /\ e.slowdown \in Raw /\ e.pwm_bits \in Raw
    /\ e.dimension \in Raw /\ e.frames \in Raw /\ e.decoded \in Raw /\ e.render \in Raw

Parses(raw, max) == raw.kind = "number" /\ 0 <= raw.value /\ raw.value <= max

\* env_parse: whatever cannot be used is replaced by the default.
EnvParse(raw, max, default) == IF Parses(raw, max) THEN raw.value ELSE default

\* env_parse_opt: without a usable value there is none.
EnvParseOpt(raw, max) == IF Parses(raw, max) THEN {raw.value} ELSE {}

\* Mutation: a limit that does not parse is replaced by the default.
PositiveEnvLenient(raw, max, default) ==
    [ok |-> raw.kind # "notUnicode" /\ EnvParse(raw, max, default) # 0,
     value |-> EnvParse(raw, max, default)]

\* positive_env: only a variable that is not there is replaced.
PositiveEnv(raw, max, default) ==
    LET value == IF raw.kind = "unset" THEN default ELSE raw.value
    IN  [ok |-> (raw.kind = "unset" \/ Parses(raw, max)) /\ value # 0, value |-> value]

\* GRPC_ADDR and WORKER_TIMEOUT: an error unless absent, and absent if unreadable.
Required(raw) == raw.kind # "garbage"

Brightness(raw) ==
    LET parsed == EnvParse(raw, U8 - 1, 50) IN IF parsed > 100 THEN 100 ELSE parsed

\* ImageLimits::default
DefaultDimension == 4096
DefaultFrames == 256
DefaultDecodedBytes == 67108864
DefaultRenderBytes == 16777216

LimitsOf(e) ==
    [max_dimension     |-> PositiveEnv(e.dimension, U32 - 1, DefaultDimension),
     max_frames        |-> PositiveEnv(e.frames, U64 - 1, DefaultFrames),
     max_decoded_bytes |-> PositiveEnv(e.decoded, U64 - 1, DefaultDecodedBytes),
     max_render_bytes  |-> PositiveEnv(e.render, U64 - 1, DefaultRenderBytes)]

\* The configuration that from_env builds, where it succeeds.
ConfigOf(e) ==
    [rpi |-> e.rpi,
     rows |-> EnvParse(e.rows, U32 - 1, 32),
     cols |-> EnvParse(e.cols, U32 - 1, 64),
     brightness |-> Brightness(e.brightness),
     refresh |-> EnvParse(e.refresh, U64 - 1, 120),
     slowdown |-> EnvParseOpt(e.slowdown, U32 - 1),
     pwm_bits |-> EnvParse(e.pwm_bits, U32 - 1, 11),
     limits |-> [l \in DOMAIN LimitsOf(e) |-> LimitsOf(e)[l].value]]

-----------------------------------------------------------------------------
(* ImageLimits.                                                            *)

CheckDimensions(limits, width, height) ==
    /\ width > 0 /\ height > 0
    /\ width <= limits.max_dimension /\ height <= limits.max_dimension

\* The emulator draws every pixel of the panel as a hundred of four bytes.
ScreenBytes(cfg) == IF cfg.rpi THEN 0 ELSE 400 * (cfg.cols * cfg.rows)

CheckRenderBuffers(cfg, rgb_bytes) ==
    rgb_bytes + ScreenBytes(cfg) <= cfg.limits.max_render_bytes

\* Mutation: one buffer of the size of the panel is checked for.
CheckPanelOnce(cfg) ==
    /\ CheckDimensions(cfg.limits, cfg.cols, cfg.rows)
    /\ CheckRenderBuffers(cfg, 3 * (cfg.cols * cfg.rows))

\* check_panel: a canvas and a frame of the size of the panel.
CheckPanel(cfg) ==
    /\ CheckDimensions(cfg.limits, cfg.cols, cfg.rows)
    /\ CheckRenderBuffers(cfg, 6 * (cfg.cols * cfg.rows))

\* from_env succeeds.
Accepted(e) ==
    /\ Required(e.grpc_addr) /\ Required(e.worker_timeout)
    /\ \A l \in DOMAIN LimitsOf(e) : LimitsOf(e)[l].ok
    /\ CheckPanel(ConfigOf(e))
=============================================================================
