----------------------------- MODULE PictureProofs -----------------------------
(***************************************************************************)
(* The coordinates of prepare, for every size of image and panel: they     *)
(* stay in their words and inside the image, and never go back.            *)
(***************************************************************************)
EXTENDS Picture, TLAPS

-----------------------------------------------------------------------------
(* Arithmetic.                                                             *)

\* Products of naturals are monotone in both factors.
LEMMA ProductMonotone ==
    ASSUME NEW a \in Nat, NEW b \in Nat, NEW c \in Nat, NEW d \in Nat, a <= c, b <= d
    PROVE  a * b <= c * d
<1>1. PICK k \in Nat : c = a + k
  BY c - a \in Nat, c = a + (c - a)
<1>2. PICK l \in Nat : d = b + l
  BY d - b \in Nat, d = b + (d - b)
<1>3. c * d = a * b + (a * l + k * b + k * l)
  BY <1>1, <1>2
<1>4. a * l \in Nat /\ k * b \in Nat /\ k * l \in Nat
  OBVIOUS
<1> QED
  BY <1>3, <1>4

\* Strictly, when the other factor is positive.
LEMMA ProductStrict ==
    ASSUME NEW a \in Nat, NEW b \in Nat \ {0}, NEW c \in Nat, a < c
    PROVE  a * b < c * b
<1>1. (a + 1) * b <= c * b
  BY ProductMonotone
<1>2. (a + 1) * b = a * b + b
  OBVIOUS
<1> QED
  BY <1>1, <1>2

\* A quotient is below n when the dividend is below n divisors.
LEMMA QuotientBelow ==
    ASSUME NEW p \in Nat, NEW d \in Nat \ {0}, NEW n \in Nat, p < d * n
    PROVE  p \div d < n
<1> DEFINE q == p \div d
<1>1. q \in Nat /\ p = q * d + (p % d) /\ p % d \in Nat
  OBVIOUS
<1>2. SUFFICES ASSUME n <= q PROVE FALSE
  BY <1>1
<1>3. n * d <= q * d
  BY <1>1, <1>2, ProductMonotone
<1>4. q * d \in Nat /\ n * d = d * n
  BY <1>1
<1> HIDE DEF q
<1> QED
  BY <1>1, <1>3, <1>4

\* Quotients by the same divisor are in the order of their dividends.
LEMMA QuotientMonotone ==
    ASSUME NEW p \in Nat, NEW q \in Nat, NEW d \in Nat \ {0}, p <= q
    PROVE  p \div d <= q \div d
<1> DEFINE n == (q \div d) + 1
<1>1. q \div d \in Nat /\ q = (q \div d) * d + (q % d) /\ q % d < d /\ q % d \in Nat
  OBVIOUS
<1>2. (q \div d) * d + d = d * n
  BY <1>1
<1>3. q < d * n
  BY <1>1, <1>2
<1>4. p \div d < n
  BY <1>1, <1>3, QuotientBelow
<1> QED
  BY <1>1, <1>4

\* Below the word nothing wraps.
LEMMA NoWrap ==
    ASSUME NEW n \in Nat, n < Word
    PROVE  Wrap(n) = n
BY PictureAssumption DEF Wrap

-----------------------------------------------------------------------------
(* The sizes.                                                              *)

\* Sizes that pass check_dimensions, with the products they bound.
Fits(j) == j \in Jobs /\ DimensionsFit(j)

LEMMA FitsBounds ==
    ASSUME NEW j, Fits(j)
    PROVE  /\ j.width \in 1..MaxDimension /\ j.height \in 1..MaxDimension
           /\ j.cols \in 1..MaxDimension /\ j.rows \in 1..MaxDimension
           /\ MaxDimension \in Nat \ {0}
           /\ j.scale \in {"Width", "Height", "Scroll"}
BY PictureAssumption DEF Fits, DimensionsFit, IsJob

\* A product of two dimensions fits in the word, and so does a scaled coordinate.
LEMMA WordBounds ==
    ASSUME NEW a \in Nat, NEW b \in Nat, NEW s \in Nat,
           MaxDimension \in Nat \ {0},
           a <= MaxDimension, b <= MaxDimension, s < MaxDimension * MaxDimension
    PROVE  a * b < Word /\ (2 * s + 1) * a < Word /\ a * b <= MaxDimension * MaxDimension
<1> DEFINE M == MaxDimension
<1> DEFINE S == M * M
<1>1. M \in Nat \ {0} /\ S \in Nat \ {0} /\ M * S \in Nat \ {0} /\ Word \in Nat
      /\ 2 * (M * S) <= Word
  BY PictureAssumption
<1>2. a * b <= S
  BY ProductMonotone, <1>1
<1>3. S <= M * S
  BY <1>1, ProductMonotone, 1 * S <= M * S
<1>4. (2 * s + 1) * a <= (2 * S - 1) * M
  <2>1. 2 * s + 1 <= 2 * S - 1 /\ 2 * S - 1 \in Nat /\ 2 * s + 1 \in Nat
    BY <1>1
  <2> HIDE DEF M, S
  <2> QED
    BY <2>1, <1>1, ProductMonotone, a <= M DEF M
<1>5. (2 * S - 1) * M = 2 * (M * S) - M
  BY <1>1
<1>6. a * b \in Nat /\ (2 * s + 1) * a \in Nat
  OBVIOUS
<1> HIDE DEF M, S
<1>7. a * b < Word
  BY <1>1, <1>2, <1>3, <1>6
<1>8. (2 * s + 1) * a < Word
  BY <1>1, <1>4, <1>5, <1>6
<1> QED
  BY <1>2, <1>7, <1>8 DEF S, M

\* Scaled sizes are positive and at most a product of two dimensions.
LEMMA ScaledBounds ==
    ASSUME NEW j, Fits(j)
    PROVE  /\ ScaledWidth(j) \in Nat \ {0} /\ ScaledWidth(j) <= MaxDimension * MaxDimension
           /\ ScaledHeight(j) \in Nat \ {0} /\ ScaledHeight(j) <= MaxDimension * MaxDimension
           /\ Width(j) \in Nat \ {0}
<1> DEFINE S == MaxDimension * MaxDimension
<1>1. /\ j.width \in 1..MaxDimension /\ j.height \in 1..MaxDimension
      /\ j.cols \in 1..MaxDimension /\ j.rows \in 1..MaxDimension
      /\ MaxDimension \in Nat \ {0}
  BY FitsBounds
<1>2. S \in Nat \ {0} /\ MaxDimension <= S
  BY <1>1, ProductMonotone, 1 * MaxDimension <= MaxDimension * MaxDimension
<1>3. ASSUME NEW a \in 1..MaxDimension, NEW b \in 1..MaxDimension, NEW c \in 1..MaxDimension
      PROVE  AtLeastOne(Wrap(a * b) \div c) \in Nat \ {0} /\ AtLeastOne(Wrap(a * b) \div c) <= S
  <2>1. a * b < Word /\ a * b <= S /\ a * b \in Nat
    <3>1. 0 < MaxDimension * MaxDimension
      BY <1>2
    <3>2. a \in Nat /\ b \in Nat /\ a <= MaxDimension /\ b <= MaxDimension /\ 0 \in Nat
      BY <1>1
    <3>3. a * b < Word /\ a * b <= MaxDimension * MaxDimension
      BY ONLY <1>1, <3>1, <3>2, WordBounds
    <3> QED
      BY <3>2, <3>3
  <2>2. Wrap(a * b) = a * b
    BY <2>1, NoWrap
  <2>3. (a * b) \div c \in Nat /\ (a * b) \div c <= S
    <3>1. (a * b) \div c \in Nat
      BY <2>1
    <3>2. a * b < c * (S + 1)
      <4>1. 1 * (S + 1) <= c * (S + 1)
        BY <1>2, ProductMonotone
      <4> QED
        BY <4>1, <2>1, <1>2
    <3>3. (a * b) \div c < S + 1
      BY <3>2, <2>1, <1>2, QuotientBelow
    <3> QED
      BY <3>1, <3>3, <1>2
  <2> HIDE DEF S
  <2> QED
    BY <2>2, <2>3, <1>2 DEF AtLeastOne
<1> HIDE DEF S
<1>4. ScaledWidth(j) \in Nat \ {0} /\ ScaledWidth(j) <= S
  BY <1>1, <1>2, <1>3 DEF ScaledWidth
<1>5. ScaledHeight(j) \in Nat \ {0} /\ ScaledHeight(j) <= S
  BY <1>1, <1>2, <1>3 DEF ScaledHeight
<1> QED
  BY <1>1, <1>4, <1>5 DEF S, Width

-----------------------------------------------------------------------------
(* The positions.                                                          *)

\* Where the canvas is covered, the position is one of the scaled image.
LEMMA PlaceInRange ==
    ASSUME NEW visible \in Nat \ {0}, NEW scaled \in Nat \ {0}, NEW i \in 0..visible - 1,
           Covered(i, scaled, visible)
    PROVE  Place(i, scaled, visible) \in 0..scaled - 1
BY DEF Covered, Place, Pad, Crop, Excess

\* A position of the scaled image has its source inside the image.
LEMMA SampleInRange ==
    ASSUME NEW size \in Nat \ {0}, NEW scaled \in Nat \ {0}, NEW s \in 0..scaled - 1,
           (2 * s + 1) * size < Word
    PROVE  Sample(s, size, scaled) \in 0..size - 1
<1>1. 2 * s + 1 \in Nat /\ 2 * scaled \in Nat \ {0} /\ 2 * s + 1 < 2 * scaled
  OBVIOUS
<1>2. (2 * s + 1) * size \in Nat
  OBVIOUS
<1>3. Wrap((2 * s + 1) * size) = (2 * s + 1) * size
  BY <1>2, NoWrap
<1>4. (2 * s + 1) * size < (2 * scaled) * size
  BY <1>1, ProductStrict
<1>5. ((2 * s + 1) * size) \div (2 * scaled) < size
  BY <1>1, <1>2, <1>4, QuotientBelow
<1>6. ((2 * s + 1) * size) \div (2 * scaled) \in Nat
  BY <1>1, <1>2
<1> QED
  BY <1>3, <1>5, <1>6 DEF Sample

\* Of two positions the later one has the later source, or the same.
LEMMA SampleMonotone ==
    ASSUME NEW size \in Nat \ {0}, NEW scaled \in Nat \ {0},
           NEW s \in 0..scaled - 1, NEW t \in 0..scaled - 1, s <= t,
           (2 * s + 1) * size < Word, (2 * t + 1) * size < Word
    PROVE  Sample(s, size, scaled) <= Sample(t, size, scaled)
<1>1. 2 * s + 1 \in Nat /\ 2 * t + 1 \in Nat /\ 2 * s + 1 <= 2 * t + 1 /\ 2 * scaled \in Nat \ {0}
  OBVIOUS
<1>2. (2 * s + 1) * size <= (2 * t + 1) * size
  BY <1>1, ProductMonotone
<1>3. (2 * s + 1) * size \in Nat /\ (2 * t + 1) * size \in Nat
  OBVIOUS
<1>4. ((2 * s + 1) * size) \div (2 * scaled) <= ((2 * t + 1) * size) \div (2 * scaled)
  BY <1>1, <1>2, <1>3, QuotientMonotone
<1> QED
  BY <1>3, <1>4, NoWrap DEF Sample
-----------------------------------------------------------------------------
(* The behaviour.                                                          *)

\* What is drawn is what Pixel says of its position, and of sizes that were checked.
PictureInv ==
    /\ job \in Jobs
    /\ pc \in {"rows", "fill", "render", "shown"} => DimensionsFit(job)
    /\ y \in Nat
    /\ y > 0 => DimensionsFit(job)
    /\ DOMAIN canvas = 0..y - 1
    /\ \A r \in 0..y - 1 :
         /\ DOMAIN canvas[r] = 0..Width(job) - 1
         /\ \A x \in 0..Width(job) - 1 : canvas[r][x] = Pixel(job, x, r)
    /\ pc = "rows" => y <= job.rows
    /\ y > 0 => y <= job.rows

\* PictureInv holds in every reachable state.
THEOREM PictureAlways == Spec => []PictureInv
<1>1. Init => PictureInv
  BY DEF Init, PictureInv
<1>2. PictureInv /\ [Next]_vars => PictureInv'
  <2> SUFFICES ASSUME PictureInv, [Next]_vars PROVE PictureInv'
    OBVIOUS
  <2>1. CASE Begin
    <3>1. job.rows \in Nat /\ y \in Nat
      BY PictureAssumption DEF PictureInv, IsJob
    <3>2. y <= job.rows
      BY <3>1 DEF PictureInv
    <3>3. CASE DimensionsFit(job) /\ Width(job) <= MaxWidth
      BY <2>1, <3>2, <3>3 DEF PictureInv, Begin
    <3>4. CASE ~(DimensionsFit(job) /\ Width(job) <= MaxWidth)
      BY <2>1, <3>4 DEF PictureInv, Begin, Fail
    <3> QED
      BY <3>3, <3>4
  <2>2. CASE Stopped
    BY <2>2 DEF PictureInv, Stopped, Fail
  <2>3. CASE WindowClosed
    BY <2>3 DEF PictureInv, WindowClosed, Fail
  <2>4. CASE Row
    <3>1. y' = y + 1 /\ job' = job /\ pc' = pc /\ pc = "rows" /\ y < job.rows /\ DimensionsFit(job)
      BY <2>4 DEF PictureInv, Row
    <3>2. job.rows \in Nat
      BY PictureAssumption DEF PictureInv, IsJob
    <3>3. DOMAIN canvas' = 0..y' - 1
      BY <2>4, <3>1 DEF PictureInv, Row
    <3>4. ASSUME NEW r \in 0..y' - 1
          PROVE  /\ DOMAIN canvas'[r] = 0..Width(job) - 1
                 /\ \A x \in 0..Width(job) - 1 : canvas'[r][x] = Pixel(job, x, r)
      <4>1. CASE r < y
        BY <2>4, <3>1, <4>1 DEF PictureInv, Row
      <4>2. CASE r = y
        BY <2>4, <3>1, <4>2 DEF PictureInv, Row
      <4> QED
        BY <3>1, <4>1, <4>2 DEF PictureInv
    <3> QED
      BY <3>1, <3>2, <3>3, <3>4 DEF PictureInv
  <2>5. CASE Prepared
    BY <2>5 DEF PictureInv, Prepared
  <2>6. CASE Fill
    BY <2>6 DEF PictureInv, Fill
  <2>7. CASE Render
    BY <2>7 DEF PictureInv, Render
  <2>8. CASE Scroll
    BY <2>8 DEF PictureInv, Scroll
  <2>9. CASE Ended \/ UNCHANGED vars
    BY <2>9 DEF PictureInv, Ended, vars
  <2> QED
    BY <2>1, <2>2, <2>3, <2>4, <2>5, <2>6, <2>7, <2>8, <2>9 DEF Next
<1> QED
  BY <1>1, <1>2, PTL DEF Spec

ControlInv ==
    /\ pc \in {"begin", "rows", "fill", "render", "shown", "failed"}
    /\ offset \in Nat
    /\ result \in {"none", "ok", "refused", "stopped", "closed"}

\* The variables keep their types: the canvas has as many rows as were drawn, each as
\* wide as the picture.
THEOREM PictureTypes == Spec => []TypeOK
<1>1. Init => ControlInv
  BY DEF Init, ControlInv
<1>2. ControlInv /\ [Next]_vars => ControlInv'
  BY DEF ControlInv, Next, Begin, Fail, Stopped, WindowClosed, Row, Prepared, Fill, Render,
         Scroll, Ended, vars
<1>3. PictureInv /\ ControlInv => TypeOK
  <2> SUFFICES ASSUME PictureInv, ControlInv PROVE TypeOK
    OBVIOUS
  <2>1. job.rows \in Nat
    BY PictureAssumption DEF PictureInv, IsJob
  <2>2. y \in 0..job.rows
    BY <2>1 DEF PictureInv
  <2> QED
    BY <2>2 DEF PictureInv, ControlInv, TypeOK
<1> QED
  BY <1>1, <1>2, <1>3, PictureAlways, PTL DEF Spec

\* A source coordinate is in its word and in the image, and is in order.
LEMMA SourceBounds ==
    ASSUME NEW size \in 1..MaxDimension, NEW scaled \in Nat \ {0}, NEW visible \in Nat \ {0},
           MaxDimension \in Nat \ {0}, scaled <= MaxDimension * MaxDimension,
           NEW i \in 0..visible - 1, Covered(i, scaled, visible)
    PROVE  Source(i, scaled, visible, size) \in 0..size - 1
<1> DEFINE s == Place(i, scaled, visible)
<1>1. s \in 0..scaled - 1
  BY PlaceInRange
<1>2. (2 * s + 1) * size < Word
  <2> HIDE DEF s
  <2>1. s \in Nat /\ s < MaxDimension * MaxDimension
    BY <1>1
  <2>2. size \in Nat /\ size <= MaxDimension
    OBVIOUS
  <2> QED
    BY ONLY <2>1, <2>2, MaxDimension \in Nat \ {0}, WordBounds
<1> HIDE DEF s
<1>3. Sample(s, size, scaled) \in 0..size - 1
  BY <1>1, <1>2, SampleInRange
<1> QED
  BY <1>3 DEF s, Source

\* The sources of a checked job, column by column and row by row.
LEMMA JobSources ==
    ASSUME NEW j, Fits(j)
    PROVE  /\ \A x \in 0..Width(j) - 1 : Covered(x, ScaledWidth(j), Width(j)) =>
                Source(x, ScaledWidth(j), Width(j), j.width) \in 0..j.width - 1
           /\ \A r \in 0..j.rows - 1 : Covered(r, ScaledHeight(j), j.rows) =>
                Source(r, ScaledHeight(j), j.rows, j.height) \in 0..j.height - 1
<1>1. /\ j.width \in 1..MaxDimension /\ j.height \in 1..MaxDimension
      /\ j.rows \in Nat \ {0} /\ MaxDimension \in Nat \ {0}
  BY FitsBounds
<1>2. /\ ScaledWidth(j) \in Nat \ {0} /\ ScaledWidth(j) <= MaxDimension * MaxDimension
      /\ ScaledHeight(j) \in Nat \ {0} /\ ScaledHeight(j) <= MaxDimension * MaxDimension
      /\ Width(j) \in Nat \ {0}
  BY ScaledBounds
<1> QED
  BY <1>1, <1>2, SourceBounds

\* For every image and panel that pass the checks, every pixel of the canvas is
\* sampled inside the image: the clamp in prepare never changes a coordinate.
THEOREM SourcesInRange == Spec => []SourceInRange
<1>1. PictureInv => SourceInRange
  <2> SUFFICES ASSUME PictureInv, pc \in {"rows", "fill", "render", "shown"} PROVE SourceInRange
    BY DEF SourceInRange
  <2>1. Fits(job)
    BY DEF PictureInv, Fits
  <2>2. job.width \in Nat /\ job.height \in Nat
    BY <2>1, FitsBounds
  <2> QED
    BY <2>1, <2>2, JobSources DEF SourceInRange
<1> QED
  BY <1>1, PictureAlways, PTL

\* No coordinate product of prepare wraps, as long as the cube of the dimension
\* limit, doubled, fits in 64 bits: up to MAX_IMAGE_DIMENSION = 2^21.
THEOREM NothingWraps == Spec => []ArithmeticExact
<1>1. PictureInv => ArithmeticExact
  <2> SUFFICES ASSUME PictureInv, pc \in {"rows", "fill", "render", "shown"} PROVE ArithmeticExact
    BY DEF ArithmeticExact
  <2>1. Fits(job)
    BY DEF PictureInv, Fits
  <2>2. /\ job.width \in 1..MaxDimension /\ job.height \in 1..MaxDimension
        /\ job.cols \in 1..MaxDimension /\ job.rows \in 1..MaxDimension
        /\ MaxDimension \in Nat \ {0}
    BY <2>1, FitsBounds
  <2>3. /\ ScaledWidth(job) \in Nat /\ ScaledWidth(job) <= MaxDimension * MaxDimension
        /\ ScaledHeight(job) \in Nat /\ ScaledHeight(job) <= MaxDimension * MaxDimension
    BY <2>1, ScaledBounds
  <2>4. ASSUME NEW a \in 1..MaxDimension, NEW n \in Nat, n <= MaxDimension * MaxDimension,
               NEW s \in 0..n - 1
        PROVE  Wrap((2 * s + 1) * a) = (2 * s + 1) * a
    <3>1. s \in Nat /\ s < MaxDimension * MaxDimension /\ a \in Nat /\ a <= MaxDimension
      BY <2>2, <2>4
    <3>2. (2 * s + 1) * a < Word
      BY ONLY <2>2, <3>1, WordBounds
    <3>3. (2 * s + 1) * a \in Nat
      BY <3>1
    <3> QED
      BY <3>2, <3>3, NoWrap
  <2>5. ASSUME NEW a \in 1..MaxDimension, NEW b \in 1..MaxDimension
        PROVE  Wrap(a * b) = a * b
    <3>1. a \in Nat /\ b \in Nat /\ a <= MaxDimension /\ b <= MaxDimension /\ 0 \in Nat
      BY <2>2
    <3>2. 0 < MaxDimension * MaxDimension
      BY <2>2, ProductStrict, 0 * MaxDimension < MaxDimension * MaxDimension
    <3>3. a * b < Word /\ a * b <= MaxDimension * MaxDimension
      BY ONLY <2>2, <3>1, <3>2, WordBounds
    <3> QED
      BY <3>1, <3>3, NoWrap
  <2> QED
    BY <2>2, <2>3, <2>4, <2>5 DEF ArithmeticExact
<1> QED
  BY <1>1, PictureAlways, PTL


-----------------------------------------------------------------------------
(* The order of the picture.                                               *)

\* The sources of two positions of one axis are in their order.
LEMMA SourceMonotone ==
    ASSUME NEW size \in 1..MaxDimension, NEW scaled \in Nat \ {0}, NEW visible \in Nat \ {0},
           MaxDimension \in Nat \ {0}, scaled <= MaxDimension * MaxDimension,
           NEW i \in 0..visible - 1, Covered(i, scaled, visible),
           NEW k \in 0..visible - 1, Covered(k, scaled, visible), i <= k
    PROVE  Source(i, scaled, visible, size) <= Source(k, scaled, visible, size)
<1> DEFINE s == Place(i, scaled, visible)
           t == Place(k, scaled, visible)
<1>1. s \in 0..scaled - 1 /\ t \in 0..scaled - 1
  BY PlaceInRange
<1>2. s <= t
  BY DEF Covered, Place, Pad, Crop, Excess
<1>3. ASSUME NEW u \in 0..scaled - 1
      PROVE  (2 * u + 1) * size < Word
  <2>1. u \in Nat /\ u < MaxDimension * MaxDimension
    OBVIOUS
  <2>2. size \in Nat /\ size <= MaxDimension
    OBVIOUS
  <2> QED
    BY ONLY <2>1, <2>2, MaxDimension \in Nat \ {0}, WordBounds
<1> HIDE DEF s, t
<1>4. (2 * s + 1) * size < Word /\ (2 * t + 1) * size < Word
  BY <1>1, <1>3
<1>5. size \in Nat \ {0}
  OBVIOUS
<1>6. Sample(s, size, scaled) <= Sample(t, size, scaled)
  BY ONLY <1>1, <1>2, <1>4, <1>5, scaled \in Nat \ {0}, SampleMonotone
<1> QED
  BY <1>6 DEF s, t, Source

\* A drawn pixel holds the sources of its column and its row, unclamped.
LEMMA DrawnPixel ==
    ASSUME NEW j, Fits(j), NEW x \in 0..Width(j) - 1, NEW r \in 0..j.rows - 1,
           Pixel(j, x, r) # Black
    PROVE  /\ Covered(x, ScaledWidth(j), Width(j)) /\ Covered(r, ScaledHeight(j), j.rows)
           /\ Pixel(j, x, r).at[1] = Source(x, ScaledWidth(j), Width(j), j.width)
           /\ Pixel(j, x, r).at[2] = Source(r, ScaledHeight(j), j.rows, j.height)
           /\ Pixel(j, x, r).level = Blend(j.colour, j.alpha)
<1>1. Covered(x, ScaledWidth(j), Width(j)) /\ Covered(r, ScaledHeight(j), j.rows)
  BY DEF Pixel
<1>2. /\ Source(x, ScaledWidth(j), Width(j), j.width) \in 0..j.width - 1
      /\ Source(r, ScaledHeight(j), j.rows, j.height) \in 0..j.height - 1
  BY <1>1, JobSources
<1>3. j.width \in Nat /\ j.height \in Nat
  BY FitsBounds
<1>4. /\ Clamp(Source(x, ScaledWidth(j), Width(j), j.width), j.width)
           = Source(x, ScaledWidth(j), Width(j), j.width)
      /\ Clamp(Source(r, ScaledHeight(j), j.rows, j.height), j.height)
           = Source(r, ScaledHeight(j), j.rows, j.height)
  BY <1>2, <1>3 DEF Clamp
<1> QED
  BY <1>1, <1>4 DEF Pixel

\* A drawn pixel of a reachable canvas, as a pixel of a checked job.
LEMMA DrawnOfCanvas ==
    ASSUME PictureInv, NEW r \in DOMAIN canvas, NEW x \in Drawn(r)
    PROVE  /\ Fits(job) /\ x \in 0..Width(job) - 1 /\ r \in 0..job.rows - 1
           /\ canvas[r][x] = Pixel(job, x, r) /\ Pixel(job, x, r) # Black
<1>1. r \in 0..y - 1 /\ y \in Nat /\ y > 0
  BY DEF PictureInv
<1>2. x \in 0..Width(job) - 1 /\ canvas[r][x] = Pixel(job, x, r) /\ canvas[r][x] # Black
  BY <1>1 DEF PictureInv, Drawn
<1>3. Fits(job) /\ y <= job.rows
  BY <1>1 DEF PictureInv, Fits
<1>4. job.rows \in Nat
  BY <1>3, FitsBounds
<1> QED
  BY <1>1, <1>2, <1>3, <1>4

\* The canvas is never mirrored or torn, for any sizes.
THEOREM PictureInOrder == Spec => []InOrder
<1>1. PictureInv => InOrder
  <2> SUFFICES ASSUME PictureInv, NEW r \in DOMAIN canvas, NEW s \in DOMAIN canvas,
                      NEW x \in Drawn(r), NEW z \in Drawn(s), x <= z, r <= s
               PROVE  /\ canvas[r][x].at[1] <= canvas[s][z].at[1]
                      /\ canvas[r][x].at[2] <= canvas[s][z].at[2]
    BY DEF InOrder
  <2>1. /\ Fits(job) /\ x \in 0..Width(job) - 1 /\ r \in 0..job.rows - 1
        /\ canvas[r][x] = Pixel(job, x, r) /\ Pixel(job, x, r) # Black
    BY DrawnOfCanvas
  <2>2. /\ z \in 0..Width(job) - 1 /\ s \in 0..job.rows - 1
        /\ canvas[s][z] = Pixel(job, z, s) /\ Pixel(job, z, s) # Black
    BY DrawnOfCanvas
  <2>3. /\ job.width \in 1..MaxDimension /\ job.height \in 1..MaxDimension
        /\ job.rows \in Nat \ {0} /\ MaxDimension \in Nat \ {0}
    BY <2>1, FitsBounds
  <2>4. /\ ScaledWidth(job) \in Nat \ {0} /\ ScaledWidth(job) <= MaxDimension * MaxDimension
        /\ ScaledHeight(job) \in Nat \ {0} /\ ScaledHeight(job) <= MaxDimension * MaxDimension
        /\ Width(job) \in Nat \ {0}
    BY <2>1, ScaledBounds
  <2>5. /\ Covered(x, ScaledWidth(job), Width(job)) /\ Covered(r, ScaledHeight(job), job.rows)
        /\ Pixel(job, x, r).at[1] = Source(x, ScaledWidth(job), Width(job), job.width)
        /\ Pixel(job, x, r).at[2] = Source(r, ScaledHeight(job), job.rows, job.height)
    BY <2>1, DrawnPixel
  <2>6. /\ Covered(z, ScaledWidth(job), Width(job)) /\ Covered(s, ScaledHeight(job), job.rows)
        /\ Pixel(job, z, s).at[1] = Source(z, ScaledWidth(job), Width(job), job.width)
        /\ Pixel(job, z, s).at[2] = Source(s, ScaledHeight(job), job.rows, job.height)
    BY <2>1, <2>2, DrawnPixel
  <2>7. Source(x, ScaledWidth(job), Width(job), job.width)
          <= Source(z, ScaledWidth(job), Width(job), job.width)
    BY <2>1, <2>2, <2>3, <2>4, <2>5, <2>6, SourceMonotone
  <2>8. Source(r, ScaledHeight(job), job.rows, job.height)
          <= Source(s, ScaledHeight(job), job.rows, job.height)
    BY <2>1, <2>2, <2>3, <2>4, <2>5, <2>6, SourceMonotone
  <2> QED
    BY <2>1, <2>2, <2>5, <2>6, <2>7, <2>8
<1> QED
  BY <1>1, PictureAlways, PTL

\* The blend in 16 bits is the exact one.
LEMMA BlendBounds ==
    ASSUME NEW c \in 0..255, NEW a \in 0..255
    PROVE  Blend(c, a) <= c /\ (a = 255 => Blend(c, a) = c)
<1>1. c * a <= c * 255 /\ c * a \in Nat
  BY ProductMonotone
<1>2. (c * a) % 65536 = c * a
  BY <1>1
<1>3. c * a < 255 * (c + 1)
  BY <1>1
<1>4. (c * a) \div 255 < c + 1 /\ (c * a) \div 255 \in Nat
  BY <1>1, <1>3, QuotientBelow
<1>5. a = 255 => (c * a) \div 255 = c
  OBVIOUS
<1> QED
  BY <1>2, <1>4, <1>5 DEF Blend

\* Nothing is brighter than in the image, and what is opaque is as bright, for every
\* colour and alpha: the product fits in 16 bits.
THEOREM PictureNeverBrighter == Spec => []NeverBrighter
<1>1. PictureInv => NeverBrighter
  <2> SUFFICES ASSUME PictureInv, NEW r \in DOMAIN canvas, NEW x \in Drawn(r)
               PROVE  /\ canvas[r][x].level <= job.colour
                      /\ job.alpha = 255 => canvas[r][x].level = job.colour
    BY DEF NeverBrighter
  <2>1. /\ Fits(job) /\ x \in 0..Width(job) - 1 /\ r \in 0..job.rows - 1
        /\ canvas[r][x] = Pixel(job, x, r) /\ Pixel(job, x, r) # Black
    BY DrawnOfCanvas
  <2>2. canvas[r][x].level = Blend(job.colour, job.alpha)
    BY <2>1, DrawnPixel
  <2>3. job.colour \in 0..255 /\ job.alpha \in 0..255
    BY PictureAssumption DEF PictureInv, IsJob
  <2>4. /\ Blend(job.colour, job.alpha) <= job.colour
        /\ job.alpha = 255 => Blend(job.colour, job.alpha) = job.colour
    <3>1. PICK c \in 0..255, a \in 0..255 : c = job.colour /\ a = job.alpha
      BY <2>3
    <3>2. Blend(c, a) <= c /\ (a = 255 => Blend(c, a) = c)
      BY BlendBounds
    <3> QED
      BY ONLY <3>1, <3>2
  <2> QED
    BY ONLY <2>2, <2>4
<1> QED
  BY <1>1, PictureAlways, PTL
-----------------------------------------------------------------------------
(* The frame.                                                              *)

\* The index of a place in a row-major frame, and the place back from the index.
LEMMA RowMajor ==
    ASSUME NEW m \in Nat \ {0}, NEW n \in Nat \ {0}, NEW a \in 0..m - 1, NEW b \in 0..n - 1
    PROVE  /\ a * n + b \in 0..m * n - 1
           /\ (a * n + b) \div n = a
           /\ (a * n + b) % n = b
<1>1. (a + 1) * n <= m * n
  BY ProductMonotone
<1>2. (a + 1) * n = a * n + n /\ a * n \in Nat /\ m * n \in Nat
  OBVIOUS
<1>3. a * n + b \in 0..m * n - 1
  BY <1>1, <1>2
<1> DEFINE p == a * n + b
           q == p \div n
<1>4. p \in Nat /\ q \in Nat /\ p = q * n + (p % n) /\ p % n \in 0..n - 1
  BY <1>2
<1> HIDE DEF q
<1>5. q = a
  <2>1. CASE q < a
    <3>1. (q + 1) * n <= a * n
      BY <1>4, <2>1, ProductMonotone
    <3>2. (q + 1) * n = q * n + n /\ q * n \in Nat
      BY <1>4
    <3> QED
      BY <1>2, <1>4, <3>1, <3>2
  <2>2. CASE a < q
    <3>1. (a + 1) * n <= q * n /\ q * n \in Nat
      BY <1>4, <2>2, ProductMonotone
    <3> QED
      BY <1>2, <1>4, <3>1
  <2> QED
    BY <1>4, <2>1, <2>2
<1>6. p % n = b
  BY <1>2, <1>4, <1>5
<1> QED
  BY <1>3, <1>5, <1>6 DEF q

\* An index is that of its row and its column.
LEMMA IndexOfPlace ==
    ASSUME NEW m \in Nat \ {0}, NEW n \in Nat \ {0}, NEW p \in 0..m * n - 1
    PROVE  p = (p \div n) * n + (p % n)
<1>1. m * n \in Nat
  OBVIOUS
<1>2. p \in Nat
  BY <1>1
<1> QED
  BY ONLY <1>2, n \in Nat \ {0}

\* What a pixel of the panel should show.
Shown(x, r) == canvas[r][(offset + x) % Width(job)]

\* The frame that is about to be rendered holds, at each index, what belongs there.
FrameInv ==
    /\ pc = "render" =>
         /\ DOMAIN pixels = 0..job.rows * job.cols - 1
         /\ \A x \in 0..job.cols - 1, r \in 0..job.rows - 1 :
              pixels[r * job.cols + x] = Shown(x, r)
    /\ PanelShowsCanvas

\* The sizes of a checked panel.
LEMMA PanelSizes ==
    ASSUME PictureInv, pc \in {"fill", "render"}
    PROVE  job.cols \in Nat \ {0} /\ job.rows \in Nat \ {0}
<1>1. Fits(job)
  BY DEF PictureInv, Fits
<1> QED
  BY <1>1, FitsBounds

\* fill_pixels puts at each index what the panel should show there.
LEMMA FillsTheFrame ==
    ASSUME PictureInv, FrameInv, Fill
    PROVE  FrameInv'
<1>1. job.cols \in Nat \ {0} /\ job.rows \in Nat \ {0}
  BY PanelSizes DEF Fill
<1>2. UNCHANGED <<job, canvas, offset>> /\ pc' = "render"
  BY DEF Fill
<1>3. DOMAIN pixels' = 0..job.rows * job.cols - 1
  BY DEF Fill
<1>4. ASSUME NEW x \in 0..job.cols - 1, NEW r \in 0..job.rows - 1
      PROVE  pixels'[r * job.cols + x] = Shown(x, r)
  <2>1. PICK m \in Nat \ {0}, n \in Nat \ {0} : m = job.rows /\ n = job.cols
    BY <1>1
  <2>2. x \in 0..n - 1 /\ r \in 0..m - 1
    BY <2>1
  <2> DEFINE k == r * n + x
  <2>3. k \in 0..m * n - 1 /\ k \div n = r /\ k % n = x
    BY ONLY <2>2, RowMajor
  <2> HIDE DEF k
  <2>4. pixels' = [i \in 0..m * n - 1 |-> canvas[i \div n][Column(i % n)]]
    BY <2>1 DEF Fill
  <2>5. pixels'[k] = canvas[k \div n][Column(k % n)]
    BY ONLY <2>3, <2>4, Zenon
  <2>6. pixels'[k] = Shown(x, r)
    BY ONLY <2>3, <2>5 DEF Column, Shown
  <2> QED
    BY <2>1, <2>6 DEF k
<1> QED
  BY <1>2, <1>3, <1>4 DEF FrameInv, PanelShowsCanvas, Shown, Width, ScaledWidth

\* Both backends light each pixel with the entry of the frame at its row-major index.
LEMMA LitIsRowMajor ==
    ASSUME PictureInv, FrameInv, pc = "render",
           NEW x \in 0..job.cols - 1, NEW r \in 0..job.rows - 1
    PROVE  Lit(<<x, r>>) = Shown(x, r)
<1>1. job.cols \in Nat \ {0} /\ job.rows \in Nat \ {0}
  BY PanelSizes
<1>2. PICK m \in Nat \ {0}, n \in Nat \ {0} : m = job.rows /\ n = job.cols
  BY <1>1
<1>3. x \in 0..n - 1 /\ r \in 0..m - 1
  BY <1>2
<1> DEFINE k == r * n + x
<1>4. k \in 0..m * n - 1 /\ k \div n = r /\ k % n = x
  BY ONLY <1>3, RowMajor
<1>5. pixels[k] = Shown(x, r)
  BY <1>2 DEF FrameInv
<1>6. DOMAIN pixels = 0..m * n - 1
  BY <1>2 DEF FrameInv
<1>7. CASE ~job.rpi
  BY <1>2, <1>5, <1>7 DEF Lit
<1>8. CASE job.rpi
  <2> HIDE DEF k
  <2> DEFINE chosen == CHOOSE i \in DOMAIN pixels : <<x, r>> = <<i % n, i \div n>>
  <2>1. <<x, r>> = <<k % n, k \div n>>
    BY ONLY <1>4
  <2>2. chosen \in DOMAIN pixels /\ <<x, r>> = <<chosen % n, chosen \div n>>
    BY ONLY <1>4, <1>6, <2>1, Zenon
  <2>3. Lit(<<x, r>>) = pixels[chosen]
    BY <1>2, <1>8 DEF Lit
  <2> HIDE DEF chosen
  <2>4. chosen \in 0..m * n - 1 /\ chosen % n = x /\ chosen \div n = r
    BY ONLY <1>6, <2>2
  <2>5. chosen = k
    BY ONLY <2>4, IndexOfPlace DEF k
  <2> QED
    BY <1>5, <2>3, <2>5
<1> QED
  BY <1>7, <1>8

\* For every image, panel and offset, on either backend, each pixel of the panel shows
\* the canvas from the offset on, in its own row: nothing is torn, shifted or transposed.
THEOREM PanelShowsTheCanvas == Spec => []PanelShowsCanvas
<1>1. Init => FrameInv
  BY DEF Init, FrameInv, PanelShowsCanvas
<1>2. PictureInv /\ FrameInv /\ [Next]_vars => FrameInv'
  <2> SUFFICES ASSUME PictureInv, FrameInv, [Next]_vars PROVE FrameInv'
    OBVIOUS
  <2>1. CASE Begin \/ Stopped \/ WindowClosed \/ Row \/ Prepared \/ Scroll
    BY <2>1 DEF Begin, Stopped, WindowClosed, Row, Prepared, Scroll, Fail, FrameInv,
                PanelShowsCanvas
  <2>2. CASE Fill
    BY <2>2, FillsTheFrame
  <2>3. CASE Render
    <3>1. ASSUME NEW x \in 0..job.cols - 1, NEW r \in 0..job.rows - 1
          PROVE  panel'[<<x, r>>] = Shown(x, r)
      <4>1. panel'[<<x, r>>] = Lit(<<x, r>>)
        BY <2>3 DEF Render
      <4>2. pc = "render"
        BY <2>3 DEF Render
      <4> QED
        BY <4>1, <4>2, LitIsRowMajor
    <3>2. UNCHANGED <<job, canvas, offset>> /\ pc' = "shown"
      BY <2>3 DEF Render
    <3> QED
      BY <3>1, <3>2 DEF FrameInv, PanelShowsCanvas, Shown, Width, ScaledWidth
  <2>4. CASE Ended \/ UNCHANGED vars
    BY <2>4 DEF Ended, vars, FrameInv, PanelShowsCanvas, Shown, Width, ScaledWidth
  <2> QED
    BY <2>1, <2>2, <2>3, <2>4 DEF Next
<1>3. FrameInv => PanelShowsCanvas
  BY DEF FrameInv
<1> QED
  BY <1>1, <1>2, <1>3, PictureAlways, PTL DEF Spec
=============================================================================
