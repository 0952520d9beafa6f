--------------------------- MODULE ImageBudgetProofs ---------------------------
(***************************************************************************)
(* The budgets hold for every environment and every picture. The inductive *)
(* invariant says how much is held at each step, as a multiple of the size *)
(* of a frame, and which check has covered it.                             *)
(***************************************************************************)
EXTENDS ImageBudget, TLAPS

-----------------------------------------------------------------------------
(* Arithmetic.                                                             *)

\* One buffer more.
LEMMA OneMore ==
    ASSUME NEW n \in Nat, NEW b \in Nat
    PROVE  n * b \in Nat /\ (n + 1) * b = n * b + b /\ 0 * b = 0 /\ 1 * b = b
OBVIOUS

\* Fewer buffers of a size hold no more.
LEMMA Fewer ==
    ASSUME NEW m \in Nat, NEW n \in Nat, NEW b \in Nat, m <= n
    PROVE  m * b <= n * b
<1>1. PICK k \in Nat : n = m + k
  BY n - m \in Nat, n = m + (n - m)
<1>2. n * b = m * b + k * b /\ k * b \in Nat /\ m * b \in Nat
  BY <1>1
<1> QED
  BY <1>2

-----------------------------------------------------------------------------
(* The inductive invariant.                                                *)

\* After the start.
Configured == pc \notin {"load", "exited"}

Showing == {"prepare", "fill", "filled", "render", "rendered"}

\* The configuration is the one that passed the checks of from_env.
ConfigInv ==
    /\ env \in Environments
    /\ pc \in {"load", "create", "idle", "clear", "cleared", "exited"} \cup Working
    /\ result \in {"none", "shown", "refused", "too large", "interrupted"}
    /\ Configured => cfg = ConfigOf(env) /\ Accepted(env)

\* Nothing is held unless a picture is in progress.
IdleInv ==
    pc \notin Working =>
        /\ kept = 0 /\ retained = 0 /\ made = 0 /\ fresh = FALSE
        /\ canvas = 0 /\ pixels = 0
        /\ screen = IF pc = "cleared" THEN ScreenBytes(cfg) ELSE 0

PictureInv ==
    IF pc \in Working \cup {"clear", "cleared"} THEN picture \in Pictures
    ELSE picture = NoPicture /\ result = "none"

\* The frames that are kept have been counted.
DecodeInv ==
    pc \in Working =>
        /\ kept \in Nat /\ retained \in Nat
        /\ fresh \in BOOLEAN /\ (fresh <=> pc = "count")
        /\ result = "none"
        /\ pc = "header" => kept = 0
        /\ pc # "header" =>
             CheckDimensions(cfg.limits, picture.width, picture.height)
        /\ picture.kind = "gif" =>
             /\ pc # "image"
             /\ retained = kept * FrameBytes
             /\ retained <= FramesBudget
             /\ kept <= cfg.limits.max_frames /\ kept <= picture.frames
             /\ pc # "header" => FrameBytes <= FramesBudget
             /\ pc = "count" => kept < picture.frames
             /\ pc \in Showing \cup {"show"} => kept = picture.frames /\ kept > 0
        /\ picture.kind = "still" =>
             /\ pc \notin {"next", "count", "filled"}
             /\ pc = "image" => kept = 0
             /\ pc \in Showing \cup {"show"} => kept = 1
             /\ pc # "header" => FrameBytes <= cfg.limits.max_decoded_bytes

\* What is held for rendering, and the check that covers it.
RenderInv ==
    pc \in Working =>
        /\ made \in Nat /\ pixels = made * PanelBytes
        /\ screen = IF pc = "rendered" THEN ScreenBytes(cfg) ELSE 0
        /\ pc \notin Showing => made = 0
        /\ pc = "prepare" => made < kept
        /\ pc = "fill" => made < kept
        /\ pc \in {"filled", "render", "rendered"} => 0 < made /\ made <= kept
        /\ picture.kind = "gif" =>
             /\ canvas = IF pc \in {"fill", "filled"} THEN PanelBytes ELSE 0
             /\ pc \in Showing => AnimationFits
        /\ picture.kind = "still" =>
             /\ canvas = IF pc \in {"fill", "render", "rendered"} THEN CanvasBytes ELSE 0
             /\ pc \in {"fill", "render", "rendered"} => PictureFits

BudgetInv == ConfigInv /\ IdleInv /\ PictureInv /\ DecodeInv /\ RenderInv

-----------------------------------------------------------------------------
(* Types of what the configuration and the picture determine.              *)

\* Every accepted environment gives sizes and limits that are natural numbers.
LEMMA ConfigTypes ==
    ASSUME NEW e \in Environments, Accepted(e), NEW c, c = ConfigOf(e)
    PROVE  /\ c.rpi \in BOOLEAN /\ c.rows \in Nat /\ c.cols \in Nat
           /\ c.limits.max_frames \in Nat /\ c.limits.max_dimension \in Nat
           /\ c.limits.max_decoded_bytes \in Nat /\ c.limits.max_render_bytes \in Nat
           /\ CheckPanel(c)
<1>1. IsEnvironment(e)
  BY ImageBudgetAssumption
<1>a. /\ DefaultDimension \in Nat /\ DefaultFrames \in Nat
      /\ DefaultDecodedBytes \in Nat /\ DefaultRenderBytes \in Nat
  BY SMT DEF DefaultDimension, DefaultFrames, DefaultDecodedBytes, DefaultRenderBytes
<1>3. c.rpi \in BOOLEAN /\ c.rows \in Nat /\ c.cols \in Nat
  <2>1. /\ c.rows = IF Parses(e.rows, U32 - 1) THEN e.rows.value ELSE 32
        /\ c.cols = IF Parses(e.cols, U32 - 1) THEN e.cols.value ELSE 64
    BY DEF ConfigOf, EnvParse
  <2>2. e.rows.value \in Int /\ e.cols.value \in Int /\ e.rpi \in BOOLEAN
    BY <1>1 DEF IsEnvironment, Raw
  <2>4. /\ Parses(e.rows, U32 - 1) => 0 <= e.rows.value
        /\ Parses(e.cols, U32 - 1) => 0 <= e.cols.value
    BY DEF Parses
  <2>3. c.rpi = e.rpi
    BY DEF ConfigOf
  <2> QED
    BY <2>1, <2>2, <2>3, <2>4
<1>4. \A raw \in Raw, max \in Int, default \in Nat :
        PositiveEnv(raw, max, default).ok => PositiveEnv(raw, max, default).value \in Nat
  <2> SUFFICES ASSUME NEW raw \in Raw, NEW max \in Int, NEW default \in Nat,
                      PositiveEnv(raw, max, default).ok
              PROVE  PositiveEnv(raw, max, default).value \in Nat
    OBVIOUS
  <2>1. raw.value \in Int
    BY DEF Raw
  <2>2. CASE raw.kind = "unset"
    BY <2>2 DEF PositiveEnv
  <2>3. CASE raw.kind # "unset"
    <3>1. PositiveEnv(raw, max, default).value = raw.value
      BY <2>3 DEF PositiveEnv
    <3>2. Parses(raw, max)
      BY <2>3 DEF PositiveEnv
    <3>3. 0 <= raw.value
      BY <3>2 DEF Parses
    <3> QED
      BY <2>1, <3>1, <3>3
  <2> QED
    BY <2>2, <2>3
<1>5. /\ LimitsOf(e).max_frames.ok /\ LimitsOf(e).max_dimension.ok
      /\ LimitsOf(e).max_decoded_bytes.ok /\ LimitsOf(e).max_render_bytes.ok
  BY DEF Accepted, LimitsOf
<1>6. /\ c.limits.max_frames = LimitsOf(e).max_frames.value
      /\ c.limits.max_dimension = LimitsOf(e).max_dimension.value
      /\ c.limits.max_decoded_bytes = LimitsOf(e).max_decoded_bytes.value
      /\ c.limits.max_render_bytes = LimitsOf(e).max_render_bytes.value
  BY DEF ConfigOf, LimitsOf
<1>7. /\ LimitsOf(e).max_frames.value \in Nat /\ LimitsOf(e).max_dimension.value \in Nat
      /\ LimitsOf(e).max_decoded_bytes.value \in Nat
      /\ LimitsOf(e).max_render_bytes.value \in Nat
  BY <1>1, <1>4, <1>5, <1>a, WidthsAssumption DEF LimitsOf, IsEnvironment
<1>8. CheckPanel(c)
  BY DEF Accepted
<1> QED
  BY <1>3, <1>6, <1>7, <1>8

\* The sizes of the program's buffers.
LEMMA ProgramSizes ==
    ASSUME ConfigInv, Configured
    PROVE  /\ PanelBytes \in Nat /\ ScreenBytes(cfg) \in Nat
           /\ FramesBudget \in Nat /\ ScratchBytes \in Nat
           /\ cfg.limits.max_frames \in Nat /\ cfg.limits.max_render_bytes \in Nat
           /\ cfg.limits.max_decoded_bytes \in Nat
           /\ cfg.rows \in Nat /\ cfg.cols \in Nat
           /\ 2 * PanelBytes + ScreenBytes(cfg) <= cfg.limits.max_render_bytes
<1>1. /\ cfg.rpi \in BOOLEAN /\ cfg.rows \in Nat /\ cfg.cols \in Nat
      /\ cfg.limits.max_frames \in Nat /\ cfg.limits.max_decoded_bytes \in Nat
      /\ cfg.limits.max_render_bytes \in Nat
      /\ CheckPanel(cfg)
  BY ConfigTypes DEF ConfigInv
<1> DEFINE area == cfg.cols * cfg.rows
<1>2. area \in Nat
  BY <1>1
<1>3. /\ PanelBytes = 3 * area
      /\ ScreenBytes(cfg) = IF cfg.rpi THEN 0 ELSE 400 * area
      /\ 6 * area + ScreenBytes(cfg) <= cfg.limits.max_render_bytes
  BY <1>1 DEF PanelBytes, ScreenBytes, CheckPanel, CheckRenderBuffers
<1>4. FramesBudget \in Nat /\ ScratchBytes \in Nat
  BY <1>1 DEF FramesBudget, ScratchBytes
<1> HIDE DEF area
<1> QED
  BY <1>1, <1>2, <1>3, <1>4

\* The sizes of a picture's buffers; those of a GIF are as large as the panel.
LEMMA PictureSizes ==
    ASSUME ConfigInv, Configured, picture \in Pictures
    PROVE  /\ FrameBytes \in Nat /\ picture.frames \in Nat
           /\ picture.kind \in {"gif", "still"}
           /\ picture.kind = "gif" => CanvasBytes = PanelBytes
           /\ CheckDimensions(cfg.limits, picture.width, picture.height) =>
                CanvasBytes \in Nat
<1>1. /\ picture.width \in Nat /\ picture.height \in Nat /\ picture.depth \in Nat
      /\ picture.frames \in Nat /\ picture.scroll \in BOOLEAN
      /\ picture.kind \in {"gif", "still"}
      /\ picture.kind = "gif" => ~picture.scroll
  BY ImageBudgetAssumption DEF IsPicture
<1>2. cfg.rows \in Nat /\ cfg.cols \in Nat
  BY ProgramSizes
<1>3. picture.width * picture.height \in Nat
  BY <1>1
<1>4. FrameBytes \in Nat
  BY <1>1, <1>3 DEF FrameBytes
<1>5. picture.kind = "gif" => CanvasBytes = PanelBytes
  BY <1>1 DEF CanvasBytes, CanvasWidth, PanelBytes
<1>6. ASSUME CheckDimensions(cfg.limits, picture.width, picture.height)
      PROVE  CanvasBytes \in Nat
  <2>1. picture.height \in Nat \ {0} /\ picture.width * cfg.rows \in Nat
    BY <1>1, <1>2, <1>6 DEF CheckDimensions
  <2>2. CanvasWidth \in Nat
    BY <2>1, <1>2 DEF CanvasWidth, ScaledWidth
  <2>3. CanvasWidth * cfg.rows \in Nat
    BY <2>2, <1>2
  <2> QED
    BY <2>3 DEF CanvasBytes
<1> QED
  BY <1>1, <1>4, <1>5, <1>6

\* A step that keeps picture and configuration keeps all sizes.
LEMMA SameSizes ==
    ASSUME picture' = picture, cfg' = cfg
    PROVE  /\ FrameBytes' = FrameBytes /\ FramesBudget' = FramesBudget
           /\ PanelBytes' = PanelBytes /\ CanvasBytes' = CanvasBytes
           /\ ScreenBytes(cfg)' = ScreenBytes(cfg)
           /\ PictureFits' = PictureFits
           /\ kept' = kept => AnimationFits' = AnimationFits
BY DEF FrameBytes, FramesBudget, ScratchBytes, PanelBytes, CanvasBytes, CanvasWidth,
       ScaledWidth, ScreenBytes, PictureFits, AnimationFits, CheckRenderBuffers

-----------------------------------------------------------------------------
(* Induction.                                                              *)

LEMMA BudgetInit == Init => BudgetInv
BY DEF Init, BudgetInv, ConfigInv, IdleInv, PictureInv, DecodeInv, RenderInv, Configured,
       Working

\* Wherever a picture ends, nothing is held for it.
LEMMA EndKeeps ==
    ASSUME BudgetInv, pc \in Working, NEW res, End(res),
           res \in {"shown", "refused", "too large", "interrupted"}
    PROVE  BudgetInv'
BY DEF End, BudgetInv, ConfigInv, IdleInv, PictureInv, DecodeInv, RenderInv, Configured,
       Working, programVars

\* Starting, taking a picture, and clearing the panel after it.
LEMMA ProgramKeeps ==
    ASSUME BudgetInv, Load \/ Create \/ Take \/ BeginClear \/ EndClear \/ Exited
    PROVE  BudgetInv'
<1> USE DEF BudgetInv, ConfigInv, IdleInv, PictureInv, DecodeInv, RenderInv, Configured,
            Working, programVars, decodeVars, renderVars
<1>1. CASE Load
  BY <1>1 DEF Load
<1>2. CASE Create
  BY <1>2 DEF Create
<1>3. CASE Take
  <2>1. picture' \in Pictures /\ cfg' = cfg
    BY <1>3 DEF Take
  <2>2. FrameBytes' \in Nat /\ FramesBudget' \in Nat /\ PanelBytes' \in Nat
    <3>1. ConfigInv' /\ Configured'
      BY <1>3 DEF Take
    <3>2. cfg' = ConfigOf(env') /\ Accepted(env') /\ env' \in Environments
      BY <3>1
    <3>3. /\ cfg'.rows \in Nat /\ cfg'.cols \in Nat
          /\ cfg'.limits.max_decoded_bytes \in Nat /\ cfg'.limits.max_frames \in Nat
      BY <3>2, ConfigTypes
    <3>4. /\ picture'.width \in Nat /\ picture'.height \in Nat /\ picture'.depth \in Nat
      BY <2>1, ImageBudgetAssumption DEF IsPicture
    <3>5. picture'.width * picture'.height \in Nat /\ cfg'.cols * cfg'.rows \in Nat
      BY ONLY <3>3, <3>4, OneMore
    <3>6. FrameBytes' \in Nat
      BY ONLY <3>4, <3>5, OneMore DEF FrameBytes
    <3>7. PanelBytes' \in Nat
      BY ONLY <3>5 DEF PanelBytes
    <3>8. FramesBudget' \in Nat
      BY ONLY <3>3 DEF FramesBudget, ScratchBytes
    <3> QED
      BY ONLY <3>6, <3>7, <3>8
  <2>3. /\ kept' = 0 /\ retained' = 0 /\ made' = 0 /\ pixels' = 0 /\ canvas' = 0 /\ screen' = 0
        /\ fresh' = FALSE /\ pc' = "header" /\ result' = "none"
    BY <1>3 DEF Take
  <2>4. cfg'.limits.max_frames \in Nat /\ picture'.frames \in Nat
    BY <1>3, <2>1, ConfigTypes, ImageBudgetAssumption DEF Take, IsPicture
  <2>5. 0 * FrameBytes' = 0 /\ 0 * PanelBytes' = 0
    BY ONLY <2>2, OneMore
  <2>6. DecodeInv'
    <3>1. kept' * FrameBytes' = 0
      BY ONLY <2>3, <2>5
    <3>2. 0 <= FramesBudget' /\ 0 <= cfg'.limits.max_frames /\ 0 <= picture'.frames
      BY ONLY <2>2, <2>4
    <3> QED
      BY ONLY <2>3, <3>1, <3>2 DEF Showing, DecodeInv, Working
  <2>7. RenderInv'
    BY <2>2, <2>3, <2>5 DEF Showing
  <2> QED
    BY <1>3, <2>1, <2>3, <2>6, <2>7 DEF Take
<1>4. CASE BeginClear
  BY <1>4, SameSizes DEF BeginClear, Goto
<1>5. CASE EndClear
  BY <1>5 DEF EndClear
<1>6. CASE Exited
  <2>1. UNCHANGED vars
    BY <1>6 DEF Exited
  <2> QED
    BY <2>1, <1>6 DEF Exited, vars
<1> QED
  BY <1>1, <1>2, <1>3, <1>4, <1>5, <1>6

\* Decoding: a frame is kept only after it has been counted.
LEMMA DecodingKeeps ==
    ASSUME BudgetInv, Decoding
    PROVE  BudgetInv'
<1> USE DEF BudgetInv
<1>1. pc \in Working /\ Configured /\ picture \in Pictures
  BY DEF Decoding, Header, DecodeImage, NextFrame, LastFrame, CountFrame, Working, Configured,
         PictureInv
<1>2. /\ FrameBytes \in Nat /\ picture.frames \in Nat /\ FramesBudget \in Nat
      /\ cfg.limits.max_frames \in Nat /\ PanelBytes \in Nat
      /\ picture.kind \in {"gif", "still"}
  BY <1>1, ProgramSizes, PictureSizes
<1>3. ASSUME NEW res, End(res), res \in {"shown", "refused", "too large", "interrupted"}
      PROVE  BudgetInv'
  BY <1>1, <1>3, EndKeeps
<1>4. ASSUME NEW to, Goto(to), to \in Working, UNCHANGED renderVars,
             to \notin Showing, pc \notin Showing, DecodeInv'
      PROVE  BudgetInv'
  <2>1. ConfigInv' /\ PictureInv' /\ IdleInv'
    BY <1>1, <1>4 DEF Goto, programVars, ConfigInv, PictureInv, IdleInv, Configured, Working
  <2>2. RenderInv'
    BY <1>1, <1>4, SameSizes
       DEF Goto, programVars, renderVars, RenderInv, Working, Showing
  <2> QED
    BY <1>4, <2>1, <2>2
<1>5. CASE Header
  <2>1. CASE /\ CheckDimensions(cfg.limits, picture.width, picture.height)
             /\ FrameBytes <= IF picture.kind = "gif" THEN FramesBudget
                                                      ELSE cfg.limits.max_decoded_bytes
    <3> DEFINE to == IF picture.kind = "gif" THEN "next" ELSE "image"
    <3>1. /\ Goto(to) /\ UNCHANGED decodeVars /\ UNCHANGED renderVars /\ pc = "header"
          /\ to \in {"next", "image"}
      BY <1>5, <2>1 DEF Header
    <3>2. picture' = picture /\ cfg' = cfg /\ pc' = to /\ result' = result
      BY <3>1 DEF Goto, programVars
    <3>3. DecodeInv'
      BY <1>1, <1>2, <2>1, <3>1, <3>2, SameSizes DEF DecodeInv, decodeVars, Working, Showing
    <3> QED
      BY <1>4, <3>1, <3>3 DEF Working, Showing
  <2>2. CASE End("refused")
    BY <1>3, <2>2
  <2> QED
    BY <1>5, <2>1, <2>2 DEF Header
<1>6. CASE DecodeImage
  <2>1. /\ Goto("show") /\ UNCHANGED renderVars /\ pc = "image"
        /\ kept' = 1 /\ fresh' = fresh /\ retained' = retained
    BY <1>6 DEF DecodeImage
  <2>2. picture' = picture /\ cfg' = cfg /\ pc' = "show" /\ result' = result
    BY <2>1 DEF Goto, programVars
  <2>3. DecodeInv'
    BY <1>1, <1>2, <2>1, <2>2, SameSizes DEF DecodeInv, Working, Showing
  <2> QED
    BY <1>4, <2>1, <2>3 DEF Working, Showing
<1>7. CASE NextFrame
  <2>1. /\ Goto("count") /\ UNCHANGED renderVars /\ pc = "next" /\ kept < picture.frames
        /\ kept' = kept /\ fresh' = TRUE /\ retained' = retained
    BY <1>7 DEF NextFrame
  <2>2. picture' = picture /\ cfg' = cfg /\ pc' = "count" /\ result' = result
    BY <2>1 DEF Goto, programVars
  <2>3. DecodeInv'
    BY <1>1, <1>2, <2>1, <2>2, SameSizes DEF DecodeInv, Working, Showing
  <2> QED
    BY <1>4, <2>1, <2>3 DEF Working, Showing
<1>8. CASE LastFrame
  <2>1. CASE kept # 0
    <3>1. /\ Goto("show") /\ UNCHANGED decodeVars /\ UNCHANGED renderVars /\ pc = "next"
          /\ kept = picture.frames
      BY <1>8, <2>1 DEF LastFrame
    <3>2. picture' = picture /\ cfg' = cfg /\ pc' = "show" /\ result' = result
      BY <3>1 DEF Goto, programVars
    <3>3. DecodeInv'
      BY <1>1, <1>2, <2>1, <3>1, <3>2, SameSizes DEF DecodeInv, decodeVars, Working, Showing
    <3> QED
      BY <1>4, <3>1, <3>3 DEF Working, Showing
  <2>2. CASE kept = 0
    BY <1>3, <1>8, <2>2 DEF LastFrame
  <2> QED
    BY <2>1, <2>2
<1>9. CASE CountFrame
  <2>1. CASE kept < cfg.limits.max_frames /\ retained + FrameBytes <= FramesBudget
    <3>1. /\ Goto("next") /\ UNCHANGED renderVars /\ pc = "count" /\ fresh' = FALSE
          /\ kept' = kept + 1 /\ retained' = retained + FrameBytes
      BY <1>9, <2>1 DEF CountFrame
    <3>2. picture' = picture /\ cfg' = cfg /\ pc' = "next" /\ result' = result
      BY <3>1 DEF Goto, programVars
    <3>3. /\ picture.kind = "gif" /\ kept \in Nat /\ retained \in Nat
          /\ retained = kept * FrameBytes /\ kept < picture.frames
      BY <1>1, <1>2, <3>1 DEF DecodeInv
    <3>4. retained' = kept' * FrameBytes
      BY ONLY <1>2, <3>1, <3>3, OneMore
    <3>5. kept' \in Nat /\ retained' \in Nat /\ retained' <= FramesBudget
          /\ kept' <= cfg.limits.max_frames /\ kept' <= picture.frames
      BY ONLY <1>2, <2>1, <3>1, <3>3
    <3>6. DecodeInv'
      BY <1>1, <3>1, <3>2, <3>3, <3>4, <3>5, SameSizes DEF DecodeInv, Working, Showing
    <3> QED
      BY <1>4, <3>1, <3>6 DEF Working, Showing
  <2>2. CASE End("refused")
    BY <1>3, <2>2
  <2> QED
    BY <1>9, <2>1, <2>2 DEF CountFrame
<1> QED
  BY <1>5, <1>6, <1>7, <1>8, <1>9 DEF Decoding

\* Rendering: what is allocated has been checked, and is dropped before the next.
LEMMA RenderingKeeps ==
    ASSUME BudgetInv,
           Show \/ Prepare \/ Fill \/ DropCanvas \/ BeginFrame \/ EndFrame \/ Complete
    PROVE  BudgetInv'
<1> USE DEF BudgetInv
<1>1. pc \in Working /\ Configured /\ picture \in Pictures
  BY DEF Show, Prepare, Fill, DropCanvas, BeginFrame, EndFrame, Complete, Working, Configured,
         PictureInv
<1>2. /\ FrameBytes \in Nat /\ picture.frames \in Nat /\ FramesBudget \in Nat
      /\ cfg.limits.max_frames \in Nat /\ PanelBytes \in Nat
      /\ picture.kind \in {"gif", "still"}
      /\ picture.kind = "gif" => CanvasBytes = PanelBytes
  BY <1>1, ProgramSizes, PictureSizes
<1>3. ASSUME NEW res, End(res), res \in {"shown", "refused", "too large", "interrupted"}
      PROVE  BudgetInv'
  BY <1>1, <1>3, EndKeeps
<1>4. ASSUME NEW to, Goto(to), to \in Showing, pc \in Showing \cup {"show"},
             to = "filled" => picture.kind = "gif",
             UNCHANGED decodeVars, RenderInv'
      PROVE  BudgetInv'
  <2>0. picture' = picture /\ cfg' = cfg /\ pc' = to /\ result' = result /\ to \in Working
        /\ UNCHANGED <<env, matrix, kept, retained, fresh>>
    BY <1>4 DEF Goto, programVars, decodeVars, Showing, Working
  <2>1. ConfigInv' /\ PictureInv' /\ IdleInv'
    BY <1>1, <1>4, <2>0 DEF ConfigInv, PictureInv, IdleInv, Configured, Working
  <2>2. DecodeInv'
    BY <1>1, <1>4, <2>0, SameSizes DEF DecodeInv, Working, Showing
  <2> QED
    BY <1>4, <2>1, <2>2
<1>5. CASE Show
  <2>1. CASE picture.kind = "gif" => CheckPanel(cfg) /\ AnimationFits
    <3>1. /\ Goto("prepare") /\ UNCHANGED decodeVars /\ UNCHANGED renderVars /\ pc = "show"
      BY <1>5, <2>1 DEF Show
    <3>2. picture' = picture /\ cfg' = cfg /\ pc' = "prepare" /\ kept' = kept
      BY <3>1 DEF Goto, programVars, decodeVars
    <3>3. made = 0 /\ 0 < kept
      BY <1>1, <1>2, <3>1 DEF RenderInv, DecodeInv, Showing
    <3>4. RenderInv'
      BY <1>1, <1>2, <2>1, <3>1, <3>2, <3>3, SameSizes
         DEF RenderInv, renderVars, Working, Showing
    <3> QED
      BY <1>4, <3>1, <3>4 DEF Showing
  <2>2. CASE End("too large")
    BY <1>3, <2>2
  <2> QED
    BY <1>5, <2>1, <2>2 DEF Show
<1>6. CASE Prepare
  <2>1. CASE /\ CheckPanel(cfg)
             /\ CheckDimensions(cfg.limits, picture.width, picture.height)
             /\ PictureFits
    <3>1. /\ Goto("fill") /\ UNCHANGED decodeVars /\ pc = "prepare" /\ canvas' = CanvasBytes
          /\ made' = made /\ pixels' = pixels /\ screen' = screen
      BY <1>6, <2>1 DEF Prepare
    <3>2. picture' = picture /\ cfg' = cfg /\ pc' = "fill" /\ kept' = kept
      BY <3>1 DEF Goto, programVars, decodeVars
    <3>3. RenderInv'
      BY <1>1, <1>2, <2>1, <3>1, <3>2, SameSizes DEF RenderInv, Working, Showing
    <3> QED
      BY <1>4, <3>1, <3>3 DEF Showing
  <2>2. CASE End("too large")
    BY <1>3, <2>2
  <2> QED
    BY <1>6, <2>1, <2>2 DEF Prepare
<1>7. CASE Fill
  <2> DEFINE to == IF picture.kind = "gif" THEN "filled" ELSE "render"
  <2>1. /\ Goto(to) /\ UNCHANGED decodeVars /\ pc = "fill" /\ pixels' = pixels + PanelBytes
        /\ made' = made + 1 /\ canvas' = canvas /\ screen' = screen
    BY <1>7 DEF Fill
  <2>2. picture' = picture /\ cfg' = cfg /\ pc' = to /\ kept' = kept
    BY <2>1 DEF Goto, programVars, decodeVars
  <2>3. made \in Nat /\ pixels = made * PanelBytes /\ made < kept /\ kept \in Nat
    BY <1>1, <2>1 DEF RenderInv, DecodeInv
  <2>4. pixels' = made' * PanelBytes
    BY ONLY <1>2, <2>1, <2>3, OneMore
  <2>5. made' \in Nat /\ 0 < made' /\ made' <= kept
    BY ONLY <2>1, <2>3
  <2>6. RenderInv'
    BY <1>1, <1>2, <2>1, <2>2, <2>4, <2>5, SameSizes DEF RenderInv, Working, Showing
  <2> QED
    BY <1>4, <2>1, <2>6 DEF Showing
<1>8. CASE DropCanvas
  <2> DEFINE to == IF made < kept THEN "prepare" ELSE "render"
  <2>1. /\ Goto(to) /\ UNCHANGED decodeVars /\ pc = "filled" /\ canvas' = 0
        /\ made' = made /\ pixels' = pixels /\ screen' = screen
    BY <1>8 DEF DropCanvas
  <2>2. picture' = picture /\ cfg' = cfg /\ pc' = to /\ kept' = kept
    BY <2>1 DEF Goto, programVars, decodeVars
  <2>3. picture.kind = "gif"
    BY <1>1, <1>2, <2>1 DEF DecodeInv
  <2>4. RenderInv'
    BY <1>1, <1>2, <2>1, <2>2, <2>3, SameSizes DEF RenderInv, Working, Showing
  <2> QED
    BY <1>4, <2>1, <2>4 DEF Showing
<1>9. CASE BeginFrame
  <2>1. /\ Goto("rendered") /\ UNCHANGED decodeVars /\ pc = "render"
        /\ made' = made /\ pixels' = pixels /\ canvas' = canvas /\ screen' = ScreenBytes(cfg)
    BY <1>9 DEF BeginFrame
  <2>2. picture' = picture /\ cfg' = cfg /\ pc' = "rendered" /\ kept' = kept
    BY <2>1 DEF Goto, programVars, decodeVars
  <2>3. RenderInv'
    BY <1>1, <1>2, <2>1, <2>2, SameSizes DEF RenderInv, Working, Showing
  <2> QED
    BY <1>4, <2>1, <2>3 DEF Showing
<1>10. CASE EndFrame
  <2>1. /\ Goto("render") /\ UNCHANGED decodeVars /\ pc = "rendered"
        /\ made' = made /\ pixels' = pixels /\ canvas' = canvas /\ screen' = 0
    BY <1>10 DEF EndFrame
  <2>2. picture' = picture /\ cfg' = cfg /\ pc' = "render" /\ kept' = kept
    BY <2>1 DEF Goto, programVars, decodeVars
  <2>3. RenderInv'
    BY <1>1, <1>2, <2>1, <2>2, SameSizes DEF RenderInv, Working, Showing
  <2> QED
    BY <1>4, <2>1, <2>3 DEF Showing
<1>11. CASE Complete
  BY <1>3, <1>11 DEF Complete
<1> QED
  BY <1>5, <1>6, <1>7, <1>8, <1>9, <1>10, <1>11

\* Every step keeps the invariant.
LEMMA BudgetNext == BudgetInv /\ [Next]_vars => BudgetInv'
<1> SUFFICES ASSUME BudgetInv, [Next]_vars PROVE BudgetInv'
  OBVIOUS
<1>1. CASE Load \/ Create \/ Take \/ BeginClear \/ EndClear \/ Exited
  BY <1>1, ProgramKeeps
<1>2. CASE Decoding
  BY <1>2, DecodingKeeps
<1>3. CASE Show \/ Prepare \/ Fill \/ DropCanvas \/ BeginFrame \/ EndFrame \/ Complete
  BY <1>3, RenderingKeeps
<1>4. CASE Interrupt
  BY <1>4, EndKeeps DEF Interrupt
<1>5. CASE UNCHANGED vars
  <2>1. /\ UNCHANGED <<env, cfg, matrix, pc, picture, fresh, kept, retained>>
        /\ UNCHANGED <<made, canvas, pixels, screen, result>>
    BY <1>5 DEF vars
  <2>2. ConfigInv' /\ PictureInv'
    BY <2>1 DEF BudgetInv, ConfigInv, PictureInv, Configured
  <2>3. IdleInv'
    BY <2>1, SameSizes DEF BudgetInv, IdleInv
  <2>4. DecodeInv'
    BY <2>1, SameSizes DEF BudgetInv, DecodeInv
  <2>5. RenderInv'
    BY <2>1, SameSizes DEF BudgetInv, RenderInv
  <2> QED
    BY <2>2, <2>3, <2>4, <2>5 DEF BudgetInv
<1> QED
  BY <1>1, <1>2, <1>3, <1>4, <1>5 DEF Next, Rendering

\* The ledger invariant holds in every execution.
THEOREM BudgetIsInvariant == Spec => []BudgetInv
<1> QED
  BY BudgetInit, BudgetNext, PTL DEF Spec

\* In every execution the counts and the ledger are natural numbers, and no more
\* frames are prepared than were decoded.
THEOREM BudgetTypes == Spec => []TypeOK
<1>1. BudgetInv => TypeOK
  <2> SUFFICES ASSUME BudgetInv PROVE TypeOK
    OBVIOUS
  <2>1. CASE pc \in Working
    <3>1. Configured /\ picture \in Pictures
      BY <2>1 DEF BudgetInv, PictureInv, Working, Configured
    <3>2. /\ PanelBytes \in Nat /\ ScreenBytes(cfg) \in Nat
          /\ picture.kind \in {"gif", "still"}
          /\ CheckDimensions(cfg.limits, picture.width, picture.height) => CanvasBytes \in Nat
      BY <3>1, ProgramSizes, PictureSizes DEF BudgetInv
    <3>3. canvas \in Nat /\ screen \in Nat
      BY <2>1, <3>2 DEF BudgetInv, DecodeInv, RenderInv
    <3>4. made \in Nat /\ pixels = made * PanelBytes
      BY <2>1 DEF BudgetInv, RenderInv
    <3>5. pixels \in Nat
      BY <3>2, <3>4
    <3>6. made \in 0..kept
      BY <2>1 DEF BudgetInv, DecodeInv, RenderInv, Showing
    <3> QED
      BY <2>1, <3>1, <3>3, <3>5, <3>6 DEF BudgetInv, ConfigInv, DecodeInv, TypeOK
  <2>2. CASE pc \notin Working
    <3>1. screen \in Nat
      BY <2>2, ProgramSizes DEF BudgetInv, IdleInv, Configured
    <3>2. kept = 0 /\ retained = 0 /\ made = 0 /\ fresh = FALSE /\ canvas = 0 /\ pixels = 0
      BY <2>2 DEF BudgetInv, IdleInv
    <3>3. made \in 0..kept
      BY <3>2
    <3>4. picture \in Pictures \cup {NoPicture}
      BY DEF BudgetInv, PictureInv
    <3> QED
      BY <3>1, <3>2, <3>3, <3>4 DEF BudgetInv, ConfigInv, TypeOK
  <2> QED
    BY <2>1, <2>2
<1> QED
  BY <1>1, BudgetIsInvariant, PTL

-----------------------------------------------------------------------------
(* The budgets.                                                            *)

\* In every execution, whatever the environment and the pictures, the frames that
\* decode.rs keeps stay within their half of MAX_DECODED_BYTES and their number.
THEOREM FramesStayWithinBudget == Spec => []RetainedWithinBudget
<1>1. BudgetInv => RetainedWithinBudget
  <2> SUFFICES ASSUME BudgetInv, Running, picture.kind = "gif"
               PROVE  /\ kept <= cfg.limits.max_frames
                      /\ kept * FrameBytes <= FramesBudget
                      /\ fresh => FrameBytes <= FramesBudget
    BY DEF RetainedWithinBudget
  <2>1. Configured /\ picture \in Pictures
    BY DEF BudgetInv, Running, Configured, PictureInv, NoPicture
  <2>2. FramesBudget \in Nat /\ cfg.limits.max_frames \in Nat /\ FrameBytes \in Nat
    BY <2>1, ProgramSizes, PictureSizes DEF BudgetInv
  <2>3. CASE pc \in Working
    BY <2>2, <2>3 DEF BudgetInv, DecodeInv
  <2>4. CASE pc \notin Working
    <3>1. kept = 0 /\ fresh = FALSE
      BY <2>4 DEF BudgetInv, IdleInv
    <3>2. 0 * FrameBytes = 0
      BY ONLY <2>2, OneMore
    <3> QED
      BY <2>2, <3>1, <3>2
  <2> QED
    BY <2>3, <2>4
<1> QED
  BY <1>1, BudgetIsInvariant, PTL

\* In every execution, what display/mod.rs and the emulator hold for rendering stays
\* within MAX_RENDER_BYTES.
THEOREM RenderStaysWithinLimit == Spec => []RenderWithinLimit
<1>1. BudgetInv => RenderWithinLimit
  <2> SUFFICES ASSUME BudgetInv, Running
               PROVE  canvas + pixels + screen <= cfg.limits.max_render_bytes
    BY DEF RenderWithinLimit
  <2> DEFINE limit == cfg.limits.max_render_bytes
             S == ScreenBytes(cfg)
  <2>1. Configured
    BY DEF Running, Configured
  <2>2. /\ PanelBytes \in Nat /\ S \in Nat /\ limit \in Nat
        /\ 2 * PanelBytes + S <= limit
    BY <2>1, ProgramSizes DEF BudgetInv
  <2>3. screen \in 0..S
    BY <2>2 DEF BudgetInv, IdleInv, RenderInv
  <2>4. CASE pc \notin Working
    BY <2>2, <2>3, <2>4 DEF BudgetInv, IdleInv
  <2>5. CASE pc \in Working
    <3>1. picture \in Pictures /\ picture.kind \in {"gif", "still"}
      BY <2>1, <2>5, PictureSizes DEF BudgetInv, PictureInv
    <3>2. made \in Nat /\ pixels = made * PanelBytes /\ kept \in Nat
      BY <2>5 DEF BudgetInv, RenderInv, DecodeInv
    <3>3. 0 * PanelBytes = 0 /\ 1 * PanelBytes = PanelBytes
      BY ONLY <2>2, OneMore
    <3>4. CASE pc \notin Showing
      <4>1. made = 0 /\ canvas = 0
        BY <2>5, <3>1, <3>4 DEF BudgetInv, RenderInv, Showing
      <4> QED
        BY <2>2, <2>3, <3>2, <3>3, <4>1
    <3>5. CASE pc \in Showing /\ picture.kind = "gif"
      <4>1. AnimationFits /\ made <= kept
        BY <2>5, <3>2, <3>5 DEF BudgetInv, RenderInv, Showing
      <4>2. PanelBytes * (kept + 1) + S <= limit
        BY <4>1 DEF AnimationFits, CheckRenderBuffers
      <4>3. PanelBytes * (kept + 1) = kept * PanelBytes + PanelBytes
            /\ kept * PanelBytes \in Nat /\ made * PanelBytes \in Nat
        BY ONLY <2>2, <3>2, OneMore
      <4>4. made * PanelBytes <= kept * PanelBytes
        BY ONLY <2>2, <3>2, <4>1, Fewer
      <4>5. canvas \in {0, PanelBytes}
        BY <2>5, <3>5 DEF BudgetInv, RenderInv
      <4>6. canvas + pixels + screen <= limit
        <5> HIDE DEF limit, S
        <5> QED
          BY ONLY <2>2, <2>3, <3>2, <4>2, <4>3, <4>4, <4>5
      <4> QED
        BY <4>6
    <3>6. CASE pc \in Showing /\ picture.kind = "still"
      <4>1. CASE pc = "prepare"
        <5>1. made = 0 /\ canvas = 0
          BY <2>5, <3>2, <3>6, <4>1 DEF BudgetInv, RenderInv, DecodeInv, Showing
        <5> QED
          BY <2>2, <2>3, <3>2, <3>3, <5>1
      <4>2. CASE pc # "prepare"
        <5>1. /\ pc \in {"fill", "render", "rendered"} /\ canvas = CanvasBytes /\ PictureFits
              /\ kept = 1 /\ made <= kept
          BY <2>5, <3>2, <3>6, <4>2 DEF BudgetInv, RenderInv, DecodeInv, Showing
        <5>2. CanvasBytes + PanelBytes + S <= limit
          BY <5>1 DEF PictureFits, CheckRenderBuffers
        <5>3. CanvasBytes \in Nat
          BY <2>1, <2>5, <3>1, <5>1, PictureSizes DEF BudgetInv, DecodeInv
        <5>4. pixels \in 0..PanelBytes
          <6>1. made = 0 \/ made = 1
            BY ONLY <3>2, <5>1
          <6> QED
            BY ONLY <2>2, <3>2, <3>3, <6>1
        <5>5. canvas + pixels + screen <= limit
          <6> HIDE DEF limit, S
          <6> QED
            BY ONLY <2>2, <2>3, <5>1, <5>2, <5>3, <5>4
        <5> QED
          BY <5>5
      <4> QED
        BY <4>1, <4>2
    <3> QED
      BY <3>1, <3>4, <3>5, <3>6
  <2> QED
    BY <2>4, <2>5
<1> QED
  BY <1>1, BudgetIsInvariant, PTL

-----------------------------------------------------------------------------
(* The outcomes.                                                           *)

\* How a picture ended agrees with its sizes.
OutcomeInv == (result = "refused" => ~Fits) /\ PanelAlwaysFits

\* Decoding refuses only what is over a limit.
LEMMA RefusedIsOver ==
    ASSUME BudgetInv, Header \/ LastFrame \/ CountFrame, End("refused")
    PROVE  OutcomeInv'
<1>1. pc \in {"header", "next", "count"} /\ pc \in Working /\ Configured
      /\ picture \in Pictures
  BY DEF Header, LastFrame, CountFrame, Working, Configured, BudgetInv, PictureInv
<1>2. /\ FrameBytes \in Nat /\ picture.frames \in Nat /\ FramesBudget \in Nat
      /\ cfg.limits.max_frames \in Nat
      /\ picture.kind \in {"gif", "still"}
  BY <1>1, ProgramSizes, PictureSizes DEF BudgetInv
<1>3. UNCHANGED <<picture, cfg>> /\ result' = "refused" /\ pc' = "clear"
  BY DEF End, programVars
<1>4. ASSUME ~Fits PROVE OutcomeInv'
  <2>1. Fits' = Fits
    BY <1>3, SameSizes DEF Fits
  <2> QED
    BY <1>3, <1>4, <2>1 DEF OutcomeInv, PanelAlwaysFits
<1>5. ASSUME NEW n \in Nat, n <= picture.frames, n * FrameBytes > FramesBudget,
             picture.kind = "gif"
      PROVE  ~Fits
  <2>1. n * FrameBytes <= picture.frames * FrameBytes
    BY ONLY <1>2, <1>5, Fewer
  <2>2. n * FrameBytes \in Nat /\ picture.frames * FrameBytes \in Nat
    BY ONLY <1>2, OneMore
  <2>3. ~(picture.frames * FrameBytes <= FramesBudget)
    BY ONLY <1>2, <1>5, <2>1, <2>2
  <2> QED
    BY <1>5, <2>3 DEF Fits
<1>6. CASE Header
  <2>1. ~(/\ CheckDimensions(cfg.limits, picture.width, picture.height)
          /\ FrameBytes <= IF picture.kind = "gif" THEN FramesBudget
                                                   ELSE cfg.limits.max_decoded_bytes)
    BY <1>3, <1>6 DEF Header, Goto
  <2>2. CASE ~CheckDimensions(cfg.limits, picture.width, picture.height)
    BY <1>4, <2>2 DEF Fits
  <2>3. CASE picture.kind = "still" /\ ~(FrameBytes <= cfg.limits.max_decoded_bytes)
    BY <1>4, <2>3 DEF Fits
  <2>4. CASE picture.kind = "gif" /\ ~(FrameBytes <= FramesBudget)
    <3>1. CASE picture.frames = 0
      BY <1>4, <2>4, <3>1 DEF Fits
    <3>2. CASE picture.frames # 0
      <4>1. 1 * FrameBytes = FrameBytes
        BY ONLY <1>2, OneMore
      <4>2. 1 <= picture.frames /\ 1 * FrameBytes > FramesBudget
        BY ONLY <1>2, <2>4, <3>2, <4>1
      <4> QED
        BY <1>4, <1>5, <2>4, <4>2
    <3> QED
      BY <3>1, <3>2
  <2> QED
    BY <1>2, <2>1, <2>2, <2>3, <2>4
<1>7. CASE LastFrame
  <2>1. pc = "next" /\ kept = 0 /\ kept = picture.frames
    BY <1>3, <1>7 DEF LastFrame, Goto
  <2>2. picture.kind = "gif"
    BY <1>1, <1>2, <2>1 DEF BudgetInv, DecodeInv
  <2> QED
    BY <1>4, <2>1, <2>2 DEF Fits
<1>8. CASE CountFrame
  <2>1. pc = "count" /\ ~(kept < cfg.limits.max_frames /\ retained + FrameBytes <= FramesBudget)
    BY <1>3, <1>8 DEF CountFrame, Goto
  <2>2. /\ picture.kind = "gif" /\ kept \in Nat /\ retained = kept * FrameBytes
        /\ kept < picture.frames
    BY <1>1, <1>2, <2>1 DEF BudgetInv, DecodeInv
  <2>3. CASE ~(kept < cfg.limits.max_frames)
    <3>1. ~(picture.frames \in 1..cfg.limits.max_frames)
      BY ONLY <1>2, <2>2, <2>3
    <3> QED
      BY <1>4, <2>2, <3>1 DEF Fits
  <2>4. CASE ~(retained + FrameBytes <= FramesBudget)
    <3>1. (kept + 1) * FrameBytes = kept * FrameBytes + FrameBytes
          /\ kept * FrameBytes \in Nat
      BY ONLY <1>2, <2>2, OneMore
    <3>2. /\ kept + 1 \in Nat /\ kept + 1 <= picture.frames
          /\ (kept + 1) * FrameBytes > FramesBudget
      BY ONLY <1>2, <2>2, <2>4, <3>1
    <3> QED
      BY <1>4, <1>5, <2>2, <3>2
  <2> QED
    BY <2>1, <2>3, <2>4
<1> QED
  BY <1>6, <1>7, <1>8

\* Rendering finds only scrolls and animations too large.
LEMMA TooLargeIsMoving ==
    ASSUME BudgetInv, Show \/ Prepare, End("too large")
    PROVE  OutcomeInv'
<1>1. pc \in {"show", "prepare"} /\ pc \in Working /\ Configured /\ picture \in Pictures
  BY DEF Show, Prepare, Working, Configured, BudgetInv, PictureInv
<1>2. /\ picture.frames \in Nat /\ picture.kind \in {"gif", "still"}
      /\ picture.kind = "gif" => CanvasBytes = PanelBytes
      /\ PanelBytes \in Nat /\ ScreenBytes(cfg) \in Nat
      /\ cfg.limits.max_render_bytes \in Nat
      /\ 2 * PanelBytes + ScreenBytes(cfg) <= cfg.limits.max_render_bytes
  BY <1>1, ProgramSizes, PictureSizes DEF BudgetInv
<1>3. UNCHANGED <<picture, cfg>> /\ result' = "too large"
  BY DEF End, programVars
<1>4. CheckPanel(cfg)
  BY <1>1, ConfigTypes DEF BudgetInv, ConfigInv
<1>5. picture.scroll \in BOOLEAN /\ (picture.kind = "gif" => ~picture.scroll)
  BY <1>1, ImageBudgetAssumption DEF IsPicture
<1>6. picture.scroll \/ picture.frames > 1
  <2>1. CASE Show
    <3>1. pc = "show" /\ picture.kind = "gif" /\ ~AnimationFits
      <4>1. pc = "show" /\ ~(picture.kind = "gif" => CheckPanel(cfg) /\ AnimationFits)
        <5>1. ~Goto("prepare")
          BY <1>1, <1>3 DEF Goto, BudgetInv, DecodeInv
        <5> QED
          BY <2>1, <5>1 DEF Show
      <4> QED
        BY <1>4, <4>1
    <3>2. kept = picture.frames /\ kept > 0
      BY <1>1, <3>1 DEF BudgetInv, DecodeInv
    <3>3. ~(PanelBytes * (kept + 1) + ScreenBytes(cfg) <= cfg.limits.max_render_bytes)
      BY <3>1 DEF AnimationFits, CheckRenderBuffers
    <3>4. kept # 1
      BY ONLY <1>2, <3>3
    <3> QED
      BY ONLY <1>2, <3>2, <3>4
  <2>2. CASE Prepare
    <3>1. pc = "prepare" /\ ~PictureFits
      BY <1>1, <1>3, <1>4, <2>2 DEF Prepare, Goto, BudgetInv, DecodeInv
    <3>2. CanvasBytes # PanelBytes
      BY ONLY <1>2, <3>1 DEF PictureFits, CheckRenderBuffers
    <3>3. picture.scroll
      BY <1>5, <3>2 DEF CanvasBytes, CanvasWidth, PanelBytes
    <3> QED
      BY <3>3
  <2> QED
    BY <2>1, <2>2
<1> QED
  BY <1>3, <1>6 DEF OutcomeInv, PanelAlwaysFits

\* Every step keeps the outcomes in agreement.
LEMMA OutcomeNext == BudgetInv /\ OutcomeInv /\ [Next]_vars => OutcomeInv'
<1> SUFFICES ASSUME BudgetInv, OutcomeInv, [Next]_vars PROVE OutcomeInv'
  OBVIOUS
<1>1. ASSUME result' \notin {"refused", "too large"} PROVE OutcomeInv'
  BY <1>1 DEF OutcomeInv, PanelAlwaysFits
<1>2. ASSUME result' = result, picture' = picture, cfg' = cfg PROVE OutcomeInv'
  <2>1. Fits' = Fits
    BY <1>2, SameSizes DEF Fits
  <2> QED
    BY <1>2, <2>1 DEF OutcomeInv, PanelAlwaysFits
<1>3. CASE Load \/ Create
  <2>1. result' = result /\ result = "none"
    BY <1>3 DEF Load, Create, BudgetInv, PictureInv, Working
  <2> QED
    BY <1>1, <2>1
<1>4. CASE Take \/ EndClear \/ Complete \/ Interrupt
  BY <1>1, <1>4 DEF Take, EndClear, Complete, Interrupt, End
<1>5. CASE \/ DecodeImage \/ NextFrame \/ Fill \/ DropCanvas \/ BeginFrame \/ EndFrame
           \/ BeginClear \/ Exited \/ UNCHANGED vars
  <2>1. result' = result /\ picture' = picture /\ cfg' = cfg
    BY <1>5 DEF DecodeImage, NextFrame, Fill, DropCanvas, BeginFrame, EndFrame, BeginClear,
                Exited, Goto, programVars, vars
  <2> QED
    BY <1>2, <2>1
<1>6. ASSUME NEW to, Goto(to) PROVE OutcomeInv'
  BY <1>2, <1>6 DEF Goto, programVars
<1>7. CASE Header \/ LastFrame \/ CountFrame
  <2>1. CASE End("refused")
    BY <1>7, <2>1, RefusedIsOver
  <2>2. CASE ~End("refused")
    BY <1>6, <1>7, <2>2 DEF Header, LastFrame, CountFrame
  <2> QED
    BY <2>1, <2>2
<1>8. CASE Show \/ Prepare
  <2>1. CASE End("too large")
    BY <1>8, <2>1, TooLargeIsMoving
  <2>2. CASE ~End("too large")
    BY <1>6, <1>8, <2>2 DEF Show, Prepare
  <2> QED
    BY <2>1, <2>2
<1> QED
  BY <1>3, <1>4, <1>5, <1>7, <1>8 DEF Next, Decoding, Rendering

\* In every execution the limits are inclusive: what is refused does not fit, and what
\* is rendered does.
THEOREM OnlyOverLimitIsRefused == Spec => []RefusedOnlyOverLimit
<1>1. Init => OutcomeInv
  BY DEF Init, OutcomeInv, PanelAlwaysFits
<1>2. BudgetInv /\ OutcomeInv => RefusedOnlyOverLimit
  <2> SUFFICES ASSUME BudgetInv, pc \in Showing \cup {"show"} PROVE Fits
    BY DEF RefusedOnlyOverLimit, OutcomeInv, Showing
  <2>1. pc \in Working /\ Configured /\ picture \in Pictures
    BY DEF Working, Showing, Configured, BudgetInv, PictureInv
  <2>2. picture.frames \in Nat /\ cfg.limits.max_frames \in Nat
        /\ picture.kind \in {"gif", "still"}
    BY <2>1, ProgramSizes, PictureSizes DEF BudgetInv
  <2> QED
    BY <2>1, <2>2 DEF BudgetInv, DecodeInv, Fits, Showing
<1> QED
  BY <1>1, <1>2, BudgetIsInvariant, OutcomeNext, PTL DEF Spec

\* In every execution a panel that was accepted at the start shows every still picture
\* and every GIF of one frame.
THEOREM AcceptedPanelFits == Spec => []PanelAlwaysFits
<1>1. Init => OutcomeInv
  BY DEF Init, OutcomeInv, PanelAlwaysFits
<1>2. OutcomeInv => PanelAlwaysFits
  BY DEF OutcomeInv
<1> QED
  BY <1>1, <1>2, BudgetIsInvariant, OutcomeNext, PTL DEF Spec

\* In every execution the limits that are enforced are those that were written.
THEOREM LimitsHold == Spec => []LimitsAsWritten
<1>1. BudgetInv => LimitsAsWritten
  <2> SUFFICES ASSUME BudgetInv, Running, NEW l \in DOMAIN cfg.limits
               PROVE  /\ cfg.limits[l] > 0
                      /\ LimitVariable[l].kind # "unset" => cfg.limits[l] = LimitVariable[l].value
    BY DEF LimitsAsWritten
  <2>1. cfg = ConfigOf(env) /\ Accepted(env) /\ IsEnvironment(env)
    BY ImageBudgetAssumption DEF BudgetInv, ConfigInv, Running, Configured
  <2>2. /\ l \in {"max_dimension", "max_frames", "max_decoded_bytes", "max_render_bytes"}
        /\ cfg.limits[l] = LimitsOf(env)[l].value /\ LimitsOf(env)[l].ok
    BY <2>1 DEF ConfigOf, LimitsOf, Accepted
  <2> DEFINE raw == LimitVariable[l]
  <2>3. \E max \in {U32 - 1, U64 - 1} :
          \E default \in {DefaultDimension, DefaultFrames, DefaultDecodedBytes,
                          DefaultRenderBytes} : LimitsOf(env)[l] = PositiveEnv(raw, max, default)
    BY <2>2 DEF LimitsOf, LimitVariable
  <2>4. PICK max \in {U32 - 1, U64 - 1}, default \in {DefaultDimension, DefaultFrames,
                DefaultDecodedBytes, DefaultRenderBytes} :
               LimitsOf(env)[l] = PositiveEnv(raw, max, default)
    BY <2>3
  <2>5. default \in Nat
    BY SMT DEF DefaultDimension, DefaultFrames, DefaultDecodedBytes, DefaultRenderBytes
  <2>6. raw \in Raw
    BY <2>1, <2>2 DEF LimitVariable, IsEnvironment
  <2>7. raw.value \in Int
    BY <2>6 DEF Raw
  <2>8. cfg.limits[l] = IF raw.kind = "unset" THEN default ELSE raw.value
    BY <2>2, <2>4 DEF PositiveEnv
  <2>9. (raw.kind = "unset" \/ Parses(raw, max)) /\ cfg.limits[l] # 0
    <3>1. LET v == IF raw.kind = "unset" THEN default ELSE raw.value
          IN  LimitsOf(env)[l].ok = ((raw.kind = "unset" \/ Parses(raw, max)) /\ v # 0)
      BY <2>4 DEF PositiveEnv
    <3>2. (raw.kind = "unset" \/ Parses(raw, max))
          /\ (IF raw.kind = "unset" THEN default ELSE raw.value) # 0
      BY <2>2, <3>1
    <3> QED
      BY <2>8, <3>2
  <2>10. raw.kind # "unset" => 0 <= raw.value
    BY <2>9 DEF Parses
  <2> QED
    BY <2>5, <2>7, <2>8, <2>9, <2>10
<1> QED
  BY <1>1, BudgetIsInvariant, PTL

-----------------------------------------------------------------------------
(* The panel.                                                              *)

\* A panel that was created has the settings of the configuration, and the library
\* supports them.
MatrixInv ==
    Running /\ cfg.rpi =>
        matrix = MatrixOf(cfg) /\ Supported(cfg.brightness, PwmBits(cfg))

LEMMA MatrixAlways == Spec => []MatrixInv
<1>1. Init => MatrixInv
  BY DEF Init, MatrixInv, Running
<1>2. MatrixInv /\ [Next]_vars => MatrixInv'
  <2> SUFFICES ASSUME MatrixInv, [Next]_vars PROVE MatrixInv'
    OBVIOUS
  <2>1. CASE Load
    BY <2>1 DEF Load, MatrixInv, Running
  <2>2. CASE Create
    BY <2>2 DEF Create, MatrixInv, Running
  <2>3. CASE ~Load /\ ~Create
    <3>1. UNCHANGED programVars /\ (Running' => Running)
      BY <2>3 DEF Next, Take, Decoding, Header, DecodeImage, NextFrame, LastFrame, CountFrame,
                  Rendering, Show, Prepare, Fill, DropCanvas, BeginFrame, EndFrame, Complete,
                  BeginClear, EndClear, Interrupt, Exited, End, Goto, Working, Running,
                  programVars, vars
    <3> QED
      BY <3>1 DEF MatrixInv, programVars
  <2> QED
    BY <2>1, <2>2, <2>3
<1> QED
  BY <1>1, <1>2, PTL DEF Spec

\* What from_env makes of the settings of the panel.
LEMMA PanelSettings ==
    ASSUME NEW e, IsEnvironment(e), NEW c, c = ConfigOf(e)
    PROVE  /\ c.brightness \in 0..100 /\ c.pwm_bits \in Nat
           /\ Parses(e.brightness, 100) => c.brightness = e.brightness.value
           /\ Parses(e.pwm_bits, 11) => c.pwm_bits = e.pwm_bits.value
           /\ c.refresh = EnvParse(e.refresh, U64 - 1, 120)
           /\ c.slowdown =
                 IF Parses(e.slowdown, U32 - 1) THEN {e.slowdown.value} ELSE {}
<1>1. {e.brightness, e.pwm_bits} \subseteq Raw
  BY DEF IsEnvironment
<1>2. /\ c.brightness = Brightness(e.brightness)
      /\ c.pwm_bits = EnvParse(e.pwm_bits, U32 - 1, 11)
      /\ c.refresh = EnvParse(e.refresh, U64 - 1, 120)
      /\ c.slowdown = EnvParseOpt(e.slowdown, U32 - 1)
  BY DEF ConfigOf
<1>3. /\ c.brightness \in 0..100
      /\ Parses(e.brightness, 100) => c.brightness = e.brightness.value
  BY <1>1, <1>2 DEF Brightness, EnvParse, Parses, Raw, U8
<1>4. /\ c.pwm_bits \in Nat
      /\ Parses(e.pwm_bits, 11) => c.pwm_bits = e.pwm_bits.value
  BY <1>1, <1>2, WidthsAssumption DEF EnvParse, Parses, Raw, U8
<1> QED
  BY <1>2, <1>3, <1>4 DEF EnvParseOpt

\* The limit of the refresh rate comes through the narrowing to a u32 (rpi.rs:26) as it
\* was written if it is one, and what is no usize gives the limit of 120.
LEMMA RefreshNarrowed ==
    ASSUME NEW raw \in Raw, NEW c, c.refresh = EnvParse(raw, U64 - 1, 120)
    PROVE  /\ Parses(raw, U32 - 1) =>
                 RefreshLimit(c) = IF raw.value = 0 THEN {} ELSE {raw.value}
           /\ ~Parses(raw, U64 - 1) => RefreshLimit(c) = {120}
<1>1. /\ raw.value \in Int
      /\ U32 \in Nat /\ U64 \in Nat /\ 256 < U32 /\ U32 < U64
  BY WidthsAssumption DEF Raw, U8
<1>2. ASSUME Parses(raw, U32 - 1)
      PROVE  RefreshLimit(c) = IF raw.value = 0 THEN {} ELSE {raw.value}
  <2>1. raw.value \in 0..(U32 - 1) /\ Parses(raw, U64 - 1)
    BY <1>1, <1>2 DEF Parses
  <2>2. c.refresh = raw.value
    BY <2>1 DEF EnvParse
  <2>3. raw.value % U32 = raw.value
    BY <1>1, <2>1
  <2>4. CASE raw.value = 0
    BY <2>2, <2>4 DEF RefreshLimit
  <2>5. CASE raw.value > 0
    <3>1. c.refresh > 0 /\ c.refresh % U32 = raw.value /\ raw.value # 0
      BY <2>1, <2>2, <2>3, <2>5
    <3> QED
      BY ONLY <3>1 DEF RefreshLimit
  <2> QED
    BY <2>1, <2>4, <2>5
<1>3. ASSUME ~Parses(raw, U64 - 1) PROVE RefreshLimit(c) = {120}
  <2>1. c.refresh = 120
    BY <1>3 DEF EnvParse
  <2>2. 120 % U32 = 120
    BY <1>1
  <2> QED
    BY <2>1, <2>2 DEF RefreshLimit
<1> QED
  BY <1>2, <1>3

\* In every execution the panel gets the brightness, the bits, the limit of the refresh
\* rate and the slowdown that were written where they are in range, and never what is
\* out of range, although the bits are narrowed to a byte (rpi.rs:30) and the refresh
\* rate to a u32 (rpi.rs:26). A refresh rate that is a usize and no u32 is left out.
THEOREM PanelGetsItsSettings == Spec => []PanelAsConfigured
<1>1. BudgetInv /\ MatrixInv => PanelAsConfigured
  <2> SUFFICES ASSUME BudgetInv, MatrixInv, Running, cfg.rpi
               PROVE  /\ matrix.brightness \in 0..100 /\ matrix.pwm_bits \in 0..11
                      /\ Parses(env.brightness, 100) => matrix.brightness = env.brightness.value
                      /\ Parses(env.pwm_bits, 11) => matrix.pwm_bits = env.pwm_bits.value
                      /\ Parses(env.refresh, U32 - 1) =>
                            matrix.refresh = IF env.refresh.value = 0 THEN {}
                                             ELSE {env.refresh.value}
                      /\ ~Parses(env.refresh, U64 - 1) => matrix.refresh \notin {{}, {0}}
                      /\ matrix.slowdown =
                            IF Parses(env.slowdown, U32 - 1) THEN {env.slowdown.value} ELSE {}
    BY DEF PanelAsConfigured
  <2>1. cfg = ConfigOf(env) /\ IsEnvironment(env)
    BY ImageBudgetAssumption DEF BudgetInv, ConfigInv, Running, Configured
  <2>2. /\ cfg.brightness \in 0..100 /\ cfg.pwm_bits \in Nat
        /\ Parses(env.brightness, 100) => cfg.brightness = env.brightness.value
        /\ Parses(env.pwm_bits, 11) => cfg.pwm_bits = env.pwm_bits.value
        /\ cfg.refresh = EnvParse(env.refresh, U64 - 1, 120)
        /\ cfg.slowdown =
              IF Parses(env.slowdown, U32 - 1) THEN {env.slowdown.value} ELSE {}
    BY <2>1, PanelSettings
  <2>3. /\ matrix.brightness = cfg.brightness /\ matrix.pwm_bits = PwmBits(cfg)
        /\ matrix.refresh = RefreshLimit(cfg)
        /\ matrix.slowdown = cfg.slowdown
        /\ PwmBits(cfg) <= 11
    BY DEF MatrixInv, MatrixOf, Supported
  <2>4. PwmBits(cfg) \in Nat
    BY <2>2 DEF PwmBits, U8
  <2>5. Parses(env.pwm_bits, 11) => PwmBits(cfg) = env.pwm_bits.value
    <3> SUFFICES ASSUME Parses(env.pwm_bits, 11) PROVE PwmBits(cfg) = env.pwm_bits.value
      OBVIOUS
    <3>1. cfg.pwm_bits = env.pwm_bits.value /\ cfg.pwm_bits \in 0..11
      BY <2>2 DEF Parses
    <3> QED
      BY <3>1 DEF PwmBits, U8
  <2>6. /\ Parses(env.refresh, U32 - 1) =>
              matrix.refresh = IF env.refresh.value = 0 THEN {} ELSE {env.refresh.value}
        /\ ~Parses(env.refresh, U64 - 1) => matrix.refresh = {120}
    <3>1. env.refresh \in Raw
      BY <2>1 DEF IsEnvironment
    <3> QED
      BY <2>2, <2>3, <3>1, RefreshNarrowed
  <2>7. {120} \notin {{}, {0}}
    <3>1. 120 \in {120} /\ 120 \notin {} /\ 120 \notin {0}
      OBVIOUS
    <3>2. {120} # {} /\ {120} # {0}
      BY ONLY <3>1
    <3> QED
      BY ONLY <3>2
  <2> QED
    BY <2>2, <2>3, <2>4, <2>5, <2>6, <2>7
<1> QED
  BY <1>1, BudgetIsInvariant, MatrixAlways, PTL
=============================================================================
