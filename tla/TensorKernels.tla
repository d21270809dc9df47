---------------------------- MODULE TensorKernels ----------------------------
(***************************************************************************)
(* The int8 layer kernels of the YOLOv5n stages (src/yolov5n), reduced to  *)
(* what can go wrong in them: which source pixel each byte of a packed     *)
(* patch row comes from, which buffer bytes are written, and when a kernel *)
(* refuses to run.  Weights, activations and quantisation are data and are *)
(* left out: a layer is its shape, a feature map is a square of pixels.    *)
(***************************************************************************)
EXTENDS Integers, Sequences, FiniteSets

PIX_BLOCK == 16
OC_BLOCK  == 16
K_BLOCK   == 64

CeilDiv(a, b)  == (a + b - 1) \div b
RoundUp(a, b)  == b * CeilDiv(a, b)

\* A layer: c input channels, n output channels, a k by k kernel, stride s.
Shape(c, n, k, s) == [c |-> c, n |-> n, k |-> k, s |-> s, p |-> (k - 1) \div 2]

KInner(l)  == l.k * l.k * l.c
KPadded(l) == RoundUp(KInner(l), K_BLOCK)

(***************************************************************************)
(* Packing.  A block of 16 output pixels is packed into 16 rows of         *)
(* KPadded bytes, one slot of l.c bytes for each tap of the kernel.        *)
(***************************************************************************)
Outside == <<-1, -1>>
Smear   == <<-2, -2>>

\* What a padded convolution reads for tap t of the output pixel at pos.
TapSource(l, side, pos, t) ==
  LET y == pos[1] * l.s + (t \div l.k) - l.p
      x == pos[2] * l.s + (t % l.k) - l.p
  IN IF y \in 0 .. side - 1 /\ x \in 0 .. side - 1 THEN <<y, x>> ELSE Outside

\* The output pixel a row of the block is packed for.  "flat" divides the
\* index of every pixel by the width; "row" divides the first one only.
\*
\* Mutant: every file's copy of the packing code divides the first one only.
MutPackedPos(walk, pix, width) ==
  LET first == pix - (pix % PIX_BLOCK)
  IN <<first \div width, (first % width) + (pix % PIX_BLOCK)>>

PackedPos(walk, pix, width) ==
  LET first == pix - (pix % PIX_BLOCK)
  IN IF walk = "flat" THEN <<pix \div width, pix % width>>
     ELSE <<first \div width, (first % width) + (pix % PIX_BLOCK)>>

\* Bytes are copied eight at a time.
CopySpan(c) == RoundUp(c, 8)

\* What the slot of tap t holds in the end: rows are zeroed, taps outside the
\* image are skipped, and a copy may run on into the slots that follow.
PackedTap(l, side, pos, t) ==
  LET own == TapSource(l, side, pos, t)
  IN IF own # Outside THEN own
     ELSE IF \E u \in 0 .. t - 1 : /\ u * l.c + CopySpan(l.c) > t * l.c
                                   /\ TapSource(l, side, pos, u) # Outside
          THEN Smear ELSE Outside

\* The pixels looked at: every pixel of the first three rows of the output
\* and of the last two.  Rows are packed alike in between, and a block of 16
\* returns to column 0 within three rows of every width in use.
ProbedRows(out) == (0 .. 2) \cup (out - 2 .. out - 1)

PacksRight(l, walk, side, out) ==
  \A y \in ProbedRows(out), x \in 0 .. out - 1 :
    LET pix == y * out + x IN
    \A t \in 0 .. l.k * l.k - 1 :
      PackedTap(l, side, PackedPos(walk, pix, out), t)
        = TapSource(l, side, <<y, x>>, t)

(***************************************************************************)
(* The convolution that is not packed: for every column x and block of 16  *)
(* rows it accumulates, tap by tap, the k blocks of that tap; the hardware *)
(* masks the rows that convolution_ctrl puts outside the image.            *)
(***************************************************************************)
BlocksPerTap(l) == (KPadded(l) \div K_BLOCK) \div (l.k * l.k)

\* The passes over one output tile, in order.
ExactPasses(l, side, x) ==
  LET tap(i) == (i - 1) \div BlocksPerTap(l)
      all    == [i \in 1 .. l.k * l.k * BlocksPerTap(l) |->
                   <<tap(i), (i - 1) % BlocksPerTap(l)>>]
  IN SelectSeq(all, LAMBDA e : x + (e[1] % 3) - 1 \in 0 .. side - 1)

\* Each weight block meets the channels it was made for, each tap that lies
\* inside is used once, and the accumulator is handed on after the last pass.
ExactRight(l, side) ==
  \A x \in {0, 1, side - 1} :
    LET seq  == ExactPasses(l, side, x)
        cols == {t \in 0 .. 8 : x + (t % 3) - 1 \in 0 .. side - 1}
        last == CHOOSE t \in cols : \A u \in cols : u <= t
    IN /\ BlocksPerTap(l) * K_BLOCK = l.c
       /\ {seq[i] : i \in DOMAIN seq} = cols \X (0 .. BlocksPerTap(l) - 1)
       /\ Len(seq) = Cardinality(cols) * BlocksPerTap(l)
       /\ seq[Len(seq)] = <<last, BlocksPerTap(l) - 1>>

(***************************************************************************)
(* The 1x1 convolution of 32 channels of p5: for every column x a load     *)
(* takes the 64 bytes of a pair of pixels, and an offset of 8 words picks  *)
(* the second one.                                                         *)
(***************************************************************************)
PairPixel(x)    == x - (x % 2) + (IF x % 2 = 1 THEN 8 * 4 ELSE 0) \div 32
PairRight(side) == \A x \in 0 .. side - 1 : PairPixel(x) = x

(***************************************************************************)
(* The kernels, by the file that holds the copy: yolov5n_common.c          *)
(* (stages p0 to p3), the neck files (p4, p5, p7, p9), the head files (p6, *)
(* p8, p10).  A kernel returns -1 when its guard fails.                    *)
(***************************************************************************)
\* conv, packed: yolov5n_run_convk_packed_layer
CommonPackedGuard(l, srcC, patch) == l.c = srcC /\ patch >= PIX_BLOCK * KPadded(l)
\* 1x1: yolov5n_run_conv1x1_layer
Common1x1Guard(l, srcC, packed) ==
  /\ l.k = 1 /\ l.c = srcC
  /\ KPadded(l) > srcC => packed >= PIX_BLOCK * KPadded(l)

NeckPackedGuard(l, srcC) == KInner(l) = 9 * srcC /\ KPadded(l) >= KInner(l)
NeckPairGuard(l)         == l.c = 32 /\ l.n = 32 /\ l.k = 1

HeadPackedGuard(l, srcC) == KInner(l) = 9 * srcC /\ KPadded(l) <= 768
Head1x1Guard(l, srcC)    == KInner(l) = srcC /\ KPadded(l) <= 128
HeadExactGuard(l, srcC)  ==
  /\ l.k = 3 /\ l.c = srcC
  /\ (KPadded(l) \div K_BLOCK) % 9 = 0
  /\ srcC % K_BLOCK = 0
  /\ BlocksPerTap(l) = srcC \div K_BLOCK

Guard(family, kind, l, srcC, room) ==
  CASE family = "common" /\ kind = "1x1"    -> Common1x1Guard(l, srcC, room)
    [] family = "common" /\ kind = "packed" -> CommonPackedGuard(l, srcC, room)
    [] family = "neck"   /\ kind = "1x1"    -> TRUE
    [] family = "neck"   /\ kind = "packed" -> NeckPackedGuard(l, srcC)
    [] family = "neck"   /\ kind = "pair"   -> NeckPairGuard(l)
    [] family = "head"   /\ kind = "1x1"    -> Head1x1Guard(l, srcC)
    [] family = "head"   /\ kind = "packed" -> HeadPackedGuard(l, srcC)
    [] family = "head"   /\ kind = "exact"  -> HeadExactGuard(l, srcC)

\* The neck files run 1x1 layers on the source itself; the others pack first
\* when the rows are shorter than a whole number of k blocks.
PackingBytes(family, kind, l, srcC) ==
  IF \/ kind = "packed"
     \/ kind = "1x1" /\ family # "neck" /\ KPadded(l) # srcC
  THEN PIX_BLOCK * KPadded(l) ELSE 0

\* A kernel computes every pixel of its output from the right inputs.
ConvRight(walk, kind, l, side, out) ==
  CASE kind = "1x1"    -> TRUE
    [] kind = "packed" -> PacksRight(l, walk, side, out)
    [] kind = "exact"  -> ExactRight(l, side)
    [] kind = "pair"   -> PairRight(side)

(***************************************************************************)
(* A concatenation of two maps, pixel by pixel in ascending order, whose   *)
(* output may be the buffer of an input: pixel i of the output overwrites  *)
(* the input pixels that start before its end.                             *)
(***************************************************************************)
ConcatRight(aliased, partC, wholeC, pixels) ==
  aliased => \A i \in 1 .. 3 :
               i >= pixels \/ \A j \in 0 .. i - 1 :
                                (j + 1) * wholeC <= i * partC

(***************************************************************************)
(* max over 5x5, in two passes, each clipped at the border.                *)
(***************************************************************************)
Window(x, side) == LET lo == IF x > 2 THEN x - 2 ELSE 0
                       hi == IF x + 2 >= side THEN side - 1 ELSE x + 2
                   IN lo .. hi

MaxPoolRight(side) ==
  \A y, x \in 0 .. side - 1 :
    LET rows == {<<y, xx>> : xx \in Window(x, side)}
        read == UNION {{<<yy, q[2]>> : q \in rows} : yy \in Window(y, side)}
    IN read = {q \in (0 .. side - 1) \X (0 .. side - 1) :
                 /\ q[1] \in y - 2 .. y + 2
                 /\ q[2] \in x - 2 .. x + 2}

(***************************************************************************)
(* The scratch arena of a hart (yolov5n_arena_alloc): blocks of 64 bytes   *)
(* from the bottom, a trap when the declared peak would be passed.         *)
(***************************************************************************)
ArenaEnd(sizes) ==
  LET end[i \in 0 .. Len(sizes)] ==
        IF i = 0 THEN 0 ELSE RoundUp(end[i - 1], 64) + sizes[i]
  IN end[Len(sizes)]

ArenaTraps(sizes, peak) == ArenaEnd(sizes) > peak
==============================================================================
