-------------------------------- MODULE Picture --------------------------------
(***************************************************************************)
(* How a decoded image becomes light: prepare scales it onto a canvas, row *)
(* by row, fill_pixels cuts a frame of the panel's size out of the canvas  *)
(* at an offset, and the backend puts the frame on its pixels. A colour is *)
(* one channel; what else a pixel holds is the place it was sampled from.  *)
(***************************************************************************)
EXTENDS Naturals

CONSTANTS
    Jobs,          \* what to show on which backend: image, panel, scale, colour, alpha
    MaxDimension,  \* MAX_IMAGE_DIMENSION
    MaxWidth,      \* u32::MAX, the widest canvas
    Word,          \* 2^64, at which unsigned arithmetic wraps
    PollRows       \* rows between two looks at the window's events

IsJob(j) ==
    /\ {j.width, j.height, j.cols, j.rows} \subseteq Nat
    /\ j.rpi \in BOOLEAN    \* the panel of the Raspberry Pi, or else the emulator
    /\ j.scale \in {"Width", "Height", "Scroll"}
    /\ j.colour \in 0..255 /\ j.alpha \in 0..255

\* A product of three dimensions and a factor of two fits in a word.
ASSUME PictureAssumption ==
    /\ \A j \in Jobs : IsJob(j)
    /\ MaxDimension \in Nat /\ MaxWidth \in Nat \ {0} /\ Word \in Nat \ {0}
    /\ 2 * (MaxDimension * (MaxDimension * MaxDimension)) <= Word
    /\ PollRows \in Nat \ {0}

VARIABLES
    job,
    pc,        \* the next step
    y,         \* the row prepare is at
    canvas,    \* the rows drawn so far
    offset,    \* the column of the canvas the next frame begins with
    pixels,    \* the frame, row after row
    panel,     \* what is lit, by column and row
    result     \* how prepare ended

vars == <<job, pc, y, canvas, offset, pixels, panel, result>>

Black == [at |-> <<>>, level |-> 0]

Init ==
    /\ job \in Jobs
    /\ pc = "begin"
    /\ y = 0
    /\ canvas = <<>> /\ pixels = <<>> /\ panel = <<>>
    /\ offset = 0
    /\ result = "none"

-----------------------------------------------------------------------------
(* The arithmetic of prepare, for one job.                                 *)

\* Mutation: the coordinates are computed in half the width.
WrapHalf(n) == n % (Word \div 2)

Wrap(n) == n % Word

AtLeastOne(n) == IF n = 0 THEN 1 ELSE n

\* saturating_sub
Excess(n, m) == IF n > m THEN n - m ELSE 0

ScaledWidth(j) ==
    IF j.scale = "Width" THEN j.cols ELSE AtLeastOne(Wrap(j.width * j.rows) \div j.height)

ScaledHeight(j) ==
    IF j.scale = "Width" THEN AtLeastOne(Wrap(j.height * j.cols) \div j.width) ELSE j.rows

Width(j) == IF j.scale = "Scroll" THEN ScaledWidth(j) ELSE j.cols

\* Of what does not fit, half is cut at each side, and of the rest half is left black.
Crop(scaled, visible) == Excess(scaled, visible) \div 2
Pad(scaled, visible) == Excess(visible, scaled) \div 2

\* Mutation: the corner of the pixel is sampled, rounded up.
SampleCorner(s, size, scaled) == Wrap((2 * s + 2) * size) \div (2 * scaled)

\* The source column or row under the middle of the scaled one s.
Sample(s, size, scaled) == Wrap((2 * s + 1) * size) \div (2 * scaled)

\* Source columns and rows are kept inside the image.
Clamp(s, size) == IF s > size - 1 THEN size - 1 ELSE s

\* The position in the scaled image of a canvas column or row, when there is one.
Covered(i, scaled, visible) ==
    i >= Pad(scaled, visible) /\ i - Pad(scaled, visible) < scaled

Place(i, scaled, visible) == (i - Pad(scaled, visible)) + Crop(scaled, visible)

\* The sampled column or row, before it is clamped.
Source(i, scaled, visible, size) == Sample(Place(i, scaled, visible), size, scaled)

\* The channel over black, in u16.
Blend(colour, alpha) == ((colour * alpha) % 65536) \div 255

\* Mutation: the columns come in reverse.
PixelMirrored(j, col, row) ==
    IF Covered(col, ScaledWidth(j), Width(j)) /\ Covered(row, ScaledHeight(j), j.rows)
      THEN [at |-> <<Clamp(j.width - 1 - Source(col, ScaledWidth(j), Width(j), j.width), j.width),
                     Clamp(Source(row, ScaledHeight(j), j.rows, j.height), j.height)>>,
            level |-> Blend(j.colour, j.alpha)]
      ELSE Black

Pixel(j, col, row) ==
    IF Covered(col, ScaledWidth(j), Width(j)) /\ Covered(row, ScaledHeight(j), j.rows)
      THEN [at |-> <<Clamp(Source(col, ScaledWidth(j), Width(j), j.width), j.width),
                     Clamp(Source(row, ScaledHeight(j), j.rows, j.height), j.height)>>,
            level |-> Blend(j.colour, j.alpha)]
      ELSE Black

\* check_dimensions, for image and panel
DimensionsFit(j) ==
    \A n \in {j.width, j.height, j.cols, j.rows} : 0 < n /\ n <= MaxDimension

-----------------------------------------------------------------------------
(* prepare.                                                                *)

Fail(r) ==
    /\ pc' = "failed" /\ result' = r
    /\ UNCHANGED <<job, y, canvas, offset, pixels, panel>>

\* The sizes are checked before anything is allocated.
Begin ==
    /\ pc = "begin"
    /\ IF DimensionsFit(job) /\ Width(job) <= MaxWidth
         THEN pc' = "rows" /\ UNCHANGED <<job, y, canvas, offset, pixels, panel, result>>
         ELSE Fail("refused")

\* A shutdown or the deadline, at any of the checks of prepare and show.
Stopped == pc \in {"begin", "rows", "fill", "shown"} /\ Fail("stopped")

\* The emulator finds its window closed, every PollRows rows.
WindowClosed ==
    /\ ~job.rpi
    /\ pc = "rows" /\ y < job.rows /\ y % PollRows = 0
    /\ Fail("closed")

\* One row of the canvas.
Row ==
    /\ pc = "rows" /\ y < job.rows
    /\ canvas' = [r \in 0..y |->
                    IF r < y THEN canvas[r]
                    ELSE [x \in 0..Width(job) - 1 |-> Pixel(job, x, y)]]
    /\ y' = y + 1
    /\ UNCHANGED <<job, pc, offset, pixels, panel, result>>

Prepared ==
    /\ pc = "rows" /\ y = job.rows
    /\ pc' = "fill" /\ result' = "ok"
    /\ UNCHANGED <<job, y, canvas, offset, pixels, panel>>

-----------------------------------------------------------------------------
(* show.                                                                   *)

\* The canvas column that the frame shows in column x.
Column(x) == (offset + x) % Width(job)

\* fill_pixels
Fill ==
    /\ pc = "fill"
    /\ pixels' = [i \in 0..job.rows * job.cols - 1 |->
                    canvas[i \div job.cols][Column(i % job.cols)]]
    /\ pc' = "render"
    /\ UNCHANGED <<job, y, canvas, offset, panel, result>>

\* Mutation: the index of the frame is taken for a column-major one.
LitColumnMajor(p) == pixels[p[1] * job.rows + p[2]]

\* The emulator looks every pixel up in the frame; the panel is told each pixel of
\* the frame in turn.
Lit(p) ==
    IF job.rpi THEN pixels[CHOOSE i \in DOMAIN pixels : p = <<i % job.cols, i \div job.cols>>]
           ELSE pixels[p[2] * job.cols + p[1]]

\* render_frame
Render ==
    /\ pc = "render"
    /\ panel' = [p \in (0..job.cols - 1) \X (0..job.rows - 1) |-> Lit(p)]
    /\ pc' = "shown"
    /\ UNCHANGED <<job, y, canvas, offset, pixels, result>>

\* The scroll moves on by one column.
Scroll ==
    /\ pc = "shown" /\ job.scale = "Scroll"
    /\ offset' = IF offset + 1 = Width(job) THEN 0 ELSE offset + 1
    /\ pc' = "fill"
    /\ UNCHANGED <<job, y, canvas, pixels, panel, result>>

Ended == pc \in {"failed", "shown"} /\ UNCHANGED vars

Next ==
    \/ Begin \/ Stopped \/ WindowClosed \/ Row \/ Prepared
    \/ Fill \/ Render \/ Scroll \/ Ended

Spec == Init /\ [][Next]_vars

-----------------------------------------------------------------------------
(* Safety.                                                                 *)

\* The dimensions of the buffers follow each other through the pipeline.
TypeOK ==
    /\ job \in Jobs
    /\ pc \in {"begin", "rows", "fill", "render", "shown", "failed"}
    /\ y \in 0..job.rows
    /\ DOMAIN canvas = 0..y - 1
    /\ \A r \in DOMAIN canvas : DOMAIN canvas[r] = 0..Width(job) - 1
    /\ offset \in Nat
    /\ result \in {"none", "ok", "refused", "stopped", "closed"}

\* Every position of the canvas samples inside the image: the clamp before
\* get_pixel is never needed, for any pair of sizes that passes the checks.
SourceInRange ==
    pc \in {"rows", "fill", "render", "shown"} =>
        /\ \A x \in 0..Width(job) - 1 :
             Covered(x, ScaledWidth(job), Width(job)) =>
               Source(x, ScaledWidth(job), Width(job), job.width) < job.width
        /\ \A r \in 0..job.rows - 1 :
             Covered(r, ScaledHeight(job), job.rows) =>
               Source(r, ScaledHeight(job), job.rows, job.height) < job.height

\* No product of the coordinate arithmetic reaches the width of its type, for any
\* sizes that passed the checks: nothing wraps in builds without overflow checks.
ArithmeticExact ==
    pc \in {"rows", "fill", "render", "shown"} =>
        /\ Wrap(job.width * job.rows) = job.width * job.rows
        /\ Wrap(job.height * job.cols) = job.height * job.cols
        /\ \A s \in 0..ScaledWidth(job) - 1 :
             Wrap((2 * s + 1) * job.width) = (2 * s + 1) * job.width
        /\ \A s \in 0..ScaledHeight(job) - 1 :
             Wrap((2 * s + 1) * job.height) = (2 * s + 1) * job.height

Drawn(r) == {x \in DOMAIN canvas[r] : canvas[r][x] # Black}

\* The picture is never mirrored or torn: from left to right and from row to row
\* the places sampled never go back.
InOrder ==
    \A r, s \in DOMAIN canvas : \A x \in Drawn(r), z \in Drawn(s) :
        x <= z /\ r <= s =>
            /\ canvas[r][x].at[1] <= canvas[s][z].at[1]
            /\ canvas[r][x].at[2] <= canvas[s][z].at[2]

\* Nothing is brighter than in the image, and what is opaque is exactly as bright.
NeverBrighter ==
    \A r \in DOMAIN canvas : \A x \in Drawn(r) :
        /\ canvas[r][x].level <= job.colour
        /\ job.alpha = 255 => canvas[r][x].level = job.colour

\* On either backend every pixel of the panel shows the canvas from the offset on,
\* in its row, with the canvas repeated where it is narrower.
PanelShowsCanvas ==
    pc = "shown" =>
        \A x \in 0..job.cols - 1, r \in 0..job.rows - 1 :
            panel[<<x, r>>] = canvas[r][(offset + x) % Width(job)]
=============================================================================
