------------------------------ MODULE ImageBudget ------------------------------
(***************************************************************************)
(* The memory of one image: the program starts with a configuration, and   *)
(* every picture it takes is decoded, prepared and rendered under the      *)
(* limits of that configuration. Each check happens before the buffers it  *)
(* is for are allocated one by one; the ledger counts what is really held. *)
(* Numbers are exact: sizes whose products leave u64 are not considered.   *)
(***************************************************************************)
EXTENDS Config

CONSTANTS
    Environments,  \* what the program may be started with
    Pictures       \* records of kind, sizes, bytes per pixel, frames, scroll

IsPicture(p) ==
    /\ p.kind \in {"gif", "still"}
    /\ p.width \in Nat /\ p.height \in Nat /\ p.depth \in Nat /\ p.frames \in Nat
    /\ p.scroll \in BOOLEAN
    /\ p.kind = "gif" => ~p.scroll /\ p.depth = 4
    /\ p.kind = "still" => p.frames = 1

ASSUME ImageBudgetAssumption ==
    /\ \A e \in Environments : IsEnvironment(e)
    /\ \A p \in Pictures : IsPicture(p)

VARIABLES
    env,
    cfg,        \* the configuration, once loaded
    matrix,     \* the settings the RPi panel was created with
    pc,         \* the next step of the main thread
    picture,    \* the picture in progress
    fresh,      \* a frame has been decoded and is not yet kept
    kept,       \* frames.len()
    retained,   \* what gif has counted for the frames it keeps
    made,       \* panels.len(): frames ready to be rendered
    canvas,     \* ledger: bytes of the canvas being drawn
    pixels,     \* ledger: bytes of the frames ready to be rendered
    screen,     \* ledger: bytes of the emulator's screen buffer
    result      \* how the last picture ended

programVars == <<env, cfg, matrix>>
decodeVars == <<fresh, kept, retained>>
renderVars == <<made, canvas, pixels, screen>>
vars == <<env, cfg, matrix, pc, picture, fresh, kept, retained, made, canvas, pixels,
          screen, result>>

NoConfig == [rpi |-> FALSE]
NoMatrix == [brightness |-> 0]
NoPicture == [kind |-> "none"]

Init ==
    /\ env \in Environments
    /\ cfg = NoConfig /\ matrix = NoMatrix
    /\ pc = "load"
    /\ picture = NoPicture
    /\ fresh = FALSE /\ kept = 0 /\ retained = 0
    /\ made = 0 /\ canvas = 0 /\ pixels = 0 /\ screen = 0
    /\ result = "none"

-----------------------------------------------------------------------------
(* The start of the program.                                               *)

Load ==
    /\ pc = "load"
    /\ IF Accepted(env)
         THEN pc' = "create" /\ cfg' = ConfigOf(env)
         ELSE pc' = "exited" /\ UNCHANGED cfg
    /\ UNCHANGED <<env, matrix, picture, result>>
    /\ UNCHANGED <<decodeVars, renderVars>>

\* The library refuses a brightness over 100 and more than 11 bits.
Supported(brightness, pwm_bits) == brightness <= 100 /\ pwm_bits <= 11

\* Mutation: the bits are cut to what the library supports.
PwmBitsMasked(c) == c.pwm_bits % 8

\* `as u8`
PwmBits(c) == c.pwm_bits % U8

\* `as u32`, of a usize that is not 0: the library is given no limit, or the remainder,
\* which may be 0.
RefreshLimit(c) == IF c.refresh > 0 THEN {c.refresh % U32} ELSE {}

\* The settings of the panel, those that are optional as sets.
MatrixOf(c) ==
    [brightness |-> c.brightness, pwm_bits |-> PwmBits(c),
     refresh |-> RefreshLimit(c), slowdown |-> c.slowdown]

\* display::create. LedMatrix::new may fail for reasons of its own.
Create ==
    /\ pc = "create"
    /\ \/ /\ cfg.rpi => Supported(cfg.brightness, PwmBits(cfg))
          /\ pc' = "idle"
          /\ matrix' = IF cfg.rpi THEN MatrixOf(cfg) ELSE NoMatrix
       \/ cfg.rpi /\ pc' = "exited" /\ UNCHANGED matrix
    /\ UNCHANGED <<env, cfg, picture, result>>
    /\ UNCHANGED <<decodeVars, renderVars>>

-----------------------------------------------------------------------------
(* Decoding.                                                               *)

\* The picture ends here: everything held for it is dropped.
End(res) ==
    /\ pc' = "clear"
    /\ result' = res
    /\ fresh' = FALSE /\ kept' = 0 /\ retained' = 0
    /\ made' = 0 /\ canvas' = 0 /\ pixels' = 0 /\ screen' = 0
    /\ UNCHANGED picture
    /\ UNCHANGED programVars

Goto(to) == pc' = to /\ UNCHANGED <<picture, result>> /\ UNCHANGED programVars

\* A picture arrives: an image, a GIF, or the eye-catch.
Take ==
    /\ pc = "idle"
    /\ picture' \in Pictures
    /\ pc' = "header" /\ result' = "none"
    /\ UNCHANGED programVars
    /\ UNCHANGED <<decodeVars, renderVars>>

\* Bytes of a decoded frame.
FrameBytes == picture.depth * (picture.width * picture.height)

\* One half of the budget is the decoder's, the other is for the frames.
ScratchBytes == cfg.limits.max_decoded_bytes \div 2
FramesBudget == cfg.limits.max_decoded_bytes - ScratchBytes

\* Nothing has been decoded: the sizes are those of the header. The decoder, with
\* limits of its own, may refuse as well.
Header ==
    /\ pc = "header"
    /\ IF /\ CheckDimensions(cfg.limits, picture.width, picture.height)
          /\ FrameBytes <= IF picture.kind = "gif" THEN FramesBudget
                                                   ELSE cfg.limits.max_decoded_bytes
         THEN /\ Goto(IF picture.kind = "gif" THEN "next" ELSE "image")
              /\ UNCHANGED <<decodeVars, renderVars>>
         ELSE End("refused")

\* from_decoder
DecodeImage ==
    /\ pc = "image"
    /\ kept' = 1
    /\ Goto("show")
    /\ UNCHANGED <<fresh, retained>> /\ UNCHANGED renderVars

\* source.next() gives the next frame of the file,
NextFrame ==
    /\ pc = "next" /\ kept < picture.frames
    /\ fresh' = TRUE
    /\ Goto("count")
    /\ UNCHANGED <<kept, retained>> /\ UNCHANGED renderVars

\* or there is none: an animation has at least one.
LastFrame ==
    /\ pc = "next" /\ kept = picture.frames
    /\ IF kept = 0 THEN End("refused")
       ELSE Goto("show") /\ UNCHANGED <<decodeVars, renderVars>>

\* Mutation: the limits are compared before the frame at hand is added.
CountFrameBefore ==
    /\ pc = "count"
    /\ IF kept <= cfg.limits.max_frames /\ retained <= FramesBudget
         THEN /\ retained' = retained + FrameBytes
              /\ kept' = kept + 1
              /\ fresh' = FALSE
              /\ Goto("next")
              /\ UNCHANGED renderVars
         ELSE End("refused")

\* Mutation: a frame that reaches a limit is refused.
CountFrameStrict ==
    /\ pc = "count"
    /\ IF kept + 1 < cfg.limits.max_frames /\ retained + FrameBytes < FramesBudget
         THEN /\ retained' = retained + FrameBytes
              /\ kept' = kept + 1
              /\ fresh' = FALSE
              /\ Goto("next")
              /\ UNCHANGED renderVars
         ELSE End("refused")

\* The number of frames and their bytes, with the one at hand, are compared with
\* their limits before it is kept.
CountFrame ==
    /\ pc = "count"
    /\ IF kept < cfg.limits.max_frames /\ retained + FrameBytes <= FramesBudget
         THEN /\ retained' = retained + FrameBytes
              /\ kept' = kept + 1
              /\ fresh' = FALSE
              /\ Goto("next")
              /\ UNCHANGED renderVars
         ELSE End("refused")

-----------------------------------------------------------------------------
(* Rendering.                                                              *)

\* RGB bytes of a frame as large as the panel.
PanelBytes == 3 * (cfg.cols * cfg.rows)

ScaledWidth == (picture.width * cfg.rows) \div picture.height

CanvasWidth ==
    IF ~picture.scroll THEN cfg.cols ELSE IF ScaledWidth = 0 THEN 1 ELSE ScaledWidth

CanvasBytes == 3 * (CanvasWidth * cfg.rows)

\* Mutation: the frames are counted, and the canvas is not.
AnimationFitsBare == CheckRenderBuffers(cfg, PanelBytes * kept)

\* The frames of the animation, and the canvas one of them is drawn on.
AnimationFits == CheckRenderBuffers(cfg, PanelBytes * (kept + 1))

\* show_animated checks for all of its frames, show leaves it to prepare.
Show ==
    /\ pc = "show"
    /\ IF picture.kind = "gif" => CheckPanel(cfg) /\ AnimationFits
         THEN Goto("prepare") /\ UNCHANGED <<decodeVars, renderVars>>
         ELSE End("too large")

\* The canvas of this picture and the frame that is cut out of it.
PictureFits == CheckRenderBuffers(cfg, CanvasBytes + PanelBytes)

Prepare ==
    /\ pc = "prepare"
    /\ IF /\ CheckPanel(cfg)
          /\ CheckDimensions(cfg.limits, picture.width, picture.height)
          /\ PictureFits
         THEN /\ canvas' = CanvasBytes
              /\ Goto("fill")
              /\ UNCHANGED <<made, pixels, screen>> /\ UNCHANGED decodeVars
         ELSE End("too large")

\* The frame is cut out of the canvas. show keeps the canvas; show_animated drops
\* it, and goes on with the next frame.
Fill ==
    /\ pc = "fill"
    /\ pixels' = pixels + PanelBytes
    /\ made' = made + 1
    /\ Goto(IF picture.kind = "gif" THEN "filled" ELSE "render")
    /\ UNCHANGED <<canvas, screen>> /\ UNCHANGED decodeVars

DropCanvas ==
    /\ pc = "filled"
    /\ canvas' = 0
    /\ Goto(IF made < kept THEN "prepare" ELSE "render")
    /\ UNCHANGED <<made, pixels, screen>> /\ UNCHANGED decodeVars

\* render_frame: the emulator fills a screen buffer and drops it afterwards.
BeginFrame ==
    /\ pc = "render"
    /\ screen' = ScreenBytes(cfg)
    /\ Goto("rendered")
    /\ UNCHANGED <<made, canvas, pixels>> /\ UNCHANGED decodeVars

EndFrame ==
    /\ pc = "rendered"
    /\ screen' = 0
    /\ Goto("render")
    /\ UNCHANGED <<made, canvas, pixels>> /\ UNCHANGED decodeVars

Complete == pc = "render" /\ End("shown")

Working == {"header", "image", "next", "count", "show", "prepare", "fill", "filled",
            "render", "rendered"}

\* A shutdown, the deadline, a closed window or an error, at any of the checks.
Interrupt == pc \in Working /\ End("interrupted")

\* LedDisplay::clear: the emulator draws black, on a screen buffer again.
BeginClear ==
    /\ pc = "clear"
    /\ screen' = ScreenBytes(cfg)
    /\ Goto("cleared")
    /\ UNCHANGED <<made, canvas, pixels>> /\ UNCHANGED decodeVars

EndClear ==
    /\ pc = "cleared"
    /\ screen' = 0
    /\ picture' = NoPicture /\ result' = "none" /\ pc' = "idle"
    /\ UNCHANGED <<made, canvas, pixels>> /\ UNCHANGED decodeVars
    /\ UNCHANGED programVars

Exited == pc = "exited" /\ UNCHANGED vars

Decoding == Header \/ DecodeImage \/ NextFrame \/ LastFrame \/ CountFrame

Rendering ==
    Show \/ Prepare \/ Fill \/ DropCanvas \/ BeginFrame \/ EndFrame \/ Complete
        \/ BeginClear \/ EndClear

Next == Load \/ Create \/ Take \/ Decoding \/ Rendering \/ Interrupt \/ Exited

Spec == Init /\ [][Next]_vars

-----------------------------------------------------------------------------
(* Safety.                                                                 *)

TypeOK ==
    /\ env \in Environments
    /\ pc \in {"load", "create", "idle", "clear", "cleared", "exited"} \cup Working
    /\ picture \in Pictures \cup {NoPicture}
    /\ fresh \in BOOLEAN
    /\ kept \in Nat /\ retained \in Nat /\ made \in 0..kept
    /\ canvas \in Nat /\ pixels \in Nat /\ screen \in Nat
    /\ result \in {"none", "shown", "refused", "too large", "interrupted"}

\* The program runs.
Running == pc \notin {"load", "create", "exited"}

LimitVariable ==
    [max_dimension |-> env.dimension, max_frames |-> env.frames,
     max_decoded_bytes |-> env.decoded, max_render_bytes |-> env.render]

\* A program that runs enforces exactly the limits its operator wrote, all of them
\* positive: a mistyped limit stops the start, it never falls back to a default as
\* the other settings do ("must be positive", README.md:163).
LimitsAsWritten ==
    Running =>
        \A l \in DOMAIN cfg.limits :
            /\ cfg.limits[l] > 0
            /\ LimitVariable[l].kind # "unset" => cfg.limits[l] = LimitVariable[l].value

\* The panel never gets a brightness or bits outside of their range, although the bits
\* are narrowed to a byte on the way (rpi.rs:30), and gets those in range as they were
\* written. The limit of the refresh rate is the one written, if it is a u32, and 0 is
\* "no limit" (README.md:155); what is no usize is never taken for 0. Of a larger
\* usize, which is narrowed to a u32 (rpi.rs:26) and may come out as 0, nothing is
\* said. The slowdown is the one written, if it is a u32, and is unset otherwise.
PanelAsConfigured ==
    Running /\ cfg.rpi =>
        /\ matrix.brightness \in 0..100 /\ matrix.pwm_bits \in 0..11
        /\ Parses(env.brightness, 100) => matrix.brightness = env.brightness.value
        /\ Parses(env.pwm_bits, 11) => matrix.pwm_bits = env.pwm_bits.value
        /\ Parses(env.refresh, U32 - 1) =>
              matrix.refresh = IF env.refresh.value = 0 THEN {} ELSE {env.refresh.value}
        /\ ~Parses(env.refresh, U64 - 1) => matrix.refresh \notin {{}, {0}}
        /\ matrix.slowdown =
              IF Parses(env.slowdown, U32 - 1) THEN {env.slowdown.value} ELSE {}

\* The frames that gif keeps stay within their half of MAX_DECODED_BYTES and within
\* MAX_ANIMATION_FRAMES at every moment, so that with the decoder's half, which holds
\* the frame at hand, the budget is never exceeded.
RetainedWithinBudget ==
    Running /\ picture.kind = "gif" =>
        /\ kept <= cfg.limits.max_frames
        /\ kept * FrameBytes <= FramesBudget
        /\ fresh => FrameBytes <= FramesBudget

\* What is allocated for rendering never exceeds MAX_RENDER_BYTES, whatever the
\* picture: the totals that are checked before cover every buffer that is held at
\* the same time, the canvas of a frame in preparation and the screen included.
RenderWithinLimit ==
    Running => canvas + pixels + screen <= cfg.limits.max_render_bytes

Fits ==
    /\ CheckDimensions(cfg.limits, picture.width, picture.height)
    /\ IF picture.kind = "still" THEN FrameBytes <= cfg.limits.max_decoded_bytes
       ELSE /\ picture.frames \in 1..cfg.limits.max_frames
            /\ picture.frames * FrameBytes <= FramesBudget

\* The limits are inclusive: a picture that fits, up to the last frame and byte, is
\* not refused, and one that does not is never shown.
RefusedOnlyOverLimit ==
    /\ result = "refused" => ~Fits
    /\ pc \in {"show", "prepare", "fill", "filled", "render", "rendered"} => Fits

\* A panel accepted at the start can show: no still picture and no GIF of one frame
\* is found too large for MAX_RENDER_BYTES later, only scrolls and animations are.
PanelAlwaysFits ==
    result = "too large" => picture.scroll \/ picture.frames > 1
=============================================================================
