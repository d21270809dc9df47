------------------------------- MODULE Yolov5n -------------------------------
(***************************************************************************)
(* The eleven stages of the YOLOv5n programs, one file each                *)
(* (src/yolov5n/yolov5n_p0.c to yolov5n_p10.c), and the graph of the model *)
(* they are meant to compute.                                              *)
(*                                                                         *)
(* For each stage: its layers, the kernels of its file with the constants  *)
(* that the file fixes, its memory, and the steps of its run continuation. *)
(* Buffers have the names of the code; where the code gives one block two  *)
(* names (cat_buf is buf0 in p0, branch_buf is mid_buf) the block's is     *)
(* used.                                                                   *)
(***************************************************************************)
EXTENDS Stages

Acc == 4 * PIX_BLOCK * OC_BLOCK

-----------------------------------------------------------------------------

\* p0: 640 x 640 x 3 to 160 x 160 x 32

P0Layers ==
  [L0 |-> Shape(3, 16, 6, 2), L1 |-> Shape(16, 32, 3, 2), L2 |-> Shape(32, 16, 1, 1),
   L3 |-> Shape(16, 16, 1, 1), L4 |-> Shape(16, 16, 3, 1), L5 |-> Shape(32, 16, 1, 1),
   L6 |-> Shape(32, 32, 1, 1)]

P0Bufs ==
  << <<"buf0", 320 * 320 * 16>>, <<"a", 160 * 160 * 16>>, <<"mid", 160 * 160 * 16>>,
     <<"packed", PIX_BLOCK * 64>>, <<"patch", PIX_BLOCK * 192>>, <<"acc", Acc>> >>
P0Peak == RoundUp(320 * 320 * 16, 64) + 2 * 160 * 160 * 16 + PIX_BLOCK * (64 + 192) + Acc

P0Steps ==
  << Packed("L0", "in", 640, 3, "buf0", 320, 16),
     Packed("L1", "buf0", 320, 16, "out", 160, 32),
     Conv1x1("L2", "out", 160, 32, "a", 16),
     Conv1x1("L3", "a", 160, 16, "mid", 16),
     Packed("L4", "mid", 160, 16, "buf0", 160, 16),
     Add("L2>L4", "a", "buf0", 160, 16),
     Conv1x1("L5", "out", 160, 32, "mid", 16),
     Cat("buf0", "mid", 160, 16, "buf0"),
     Conv1x1("L6", "buf0", 160, 32, "out", 32) >>

P0 == Stage("p0", "common", "flat", "patch", <<640 * 640 * 3>>,
            P0Bufs, P0Peak, P0Layers, P0Steps)

-----------------------------------------------------------------------------

\* p1: 160 x 160 x 32 to 80 x 80 x 64

P1Layers ==
  [L7 |-> Shape(32, 64, 3, 2), L8 |-> Shape(64, 32, 1, 1), L9 |-> Shape(32, 32, 1, 1),
   L10 |-> Shape(32, 32, 3, 1), L11 |-> Shape(32, 32, 1, 1), L12 |-> Shape(32, 32, 3, 1),
   L13 |-> Shape(64, 32, 1, 1), L14 |-> Shape(64, 64, 1, 1)]

P1Bufs ==
  << <<"down", 80 * 80 * 64>>, <<"a", 80 * 80 * 32>>, <<"mid", 80 * 80 * 32>>,
     <<"b", 80 * 80 * 32>>, <<"packed", PIX_BLOCK * 64>>,
     <<"patch", PIX_BLOCK * 320>>, <<"acc", Acc>> >>
P1Peak == RoundUp(80 * 80 * 64, 64) + 3 * 80 * 80 * 32 + PIX_BLOCK * (64 + 320) + Acc

P1Steps ==
  << Packed("L7", "in", 160, 32, "down", 80, 64),
     Conv1x1("L8", "down", 80, 64, "a", 32),
     Conv1x1("L9", "a", 80, 32, "mid", 32),
     Packed("L10", "mid", 80, 32, "b", 80, 32),
     Add("L8>L10", "a", "b", 80, 32),
     Conv1x1("L11", "b", 80, 32, "mid", 32),
     Packed("L12", "mid", 80, 32, "a", 80, 32),
     Add("L10>L12", "b", "a", 80, 32),
     Conv1x1("L13", "down", 80, 64, "mid", 32),
     Cat("a", "mid", 80, 32, "down"),
     Conv1x1("L14", "down", 80, 64, "out", 64) >>

P1 == Stage("p1", "common", "flat", "patch", <<160 * 160 * 32>>,
            P1Bufs, P1Peak, P1Layers, P1Steps)

-----------------------------------------------------------------------------

\* p2: 80 x 80 x 64 to 40 x 40 x 128

P2Layers ==
  [L15 |-> Shape(64, 128, 3, 2), L16 |-> Shape(128, 64, 1, 1), L17 |-> Shape(64, 64, 1, 1),
   L18 |-> Shape(64, 64, 3, 1), L19 |-> Shape(64, 64, 1, 1), L20 |-> Shape(64, 64, 3, 1),
   L21 |-> Shape(64, 64, 1, 1), L22 |-> Shape(64, 64, 3, 1), L23 |-> Shape(128, 64, 1, 1),
   L24 |-> Shape(128, 128, 1, 1)]

P2Bufs ==
  << <<"down", 40 * 40 * 128>>, <<"a", 40 * 40 * 64>>, <<"mid", 40 * 40 * 64>>,
     <<"b", 40 * 40 * 64>>, <<"packed", PIX_BLOCK * 128>>,
     <<"patch", PIX_BLOCK * 576>>, <<"acc", Acc>> >>
P2Peak == RoundUp(40 * 40 * 128, 64) + 3 * 40 * 40 * 64 + PIX_BLOCK * (128 + 576) + Acc

P2Steps ==
  << Packed("L15", "in", 80, 64, "down", 40, 128),
     Conv1x1("L16", "down", 40, 128, "a", 64),
     Conv1x1("L17", "a", 40, 64, "mid", 64),
     Packed("L18", "mid", 40, 64, "b", 40, 64),
     Add("L16>L18", "a", "b", 40, 64),
     Conv1x1("L19", "b", 40, 64, "mid", 64),
     Packed("L20", "mid", 40, 64, "a", 40, 64),
     Add("L18>L20", "b", "a", 40, 64),
     Conv1x1("L21", "a", 40, 64, "mid", 64),
     Packed("L22", "mid", 40, 64, "b", 40, 64),
     Add("L20>L22", "a", "b", 40, 64),
     Conv1x1("L23", "down", 40, 128, "mid", 64),
     Cat("b", "mid", 40, 64, "down"),
     Conv1x1("L24", "down", 40, 128, "out", 128) >>

P2 == Stage("p2", "common", "flat", "patch", <<80 * 80 * 64>>,
            P2Bufs, P2Peak, P2Layers, P2Steps)

-----------------------------------------------------------------------------

\* p3: 40 x 40 x 128 to 20 x 20 x 128; cat is cat1_buf and cat4_buf

P3Layers ==
  [L25 |-> Shape(128, 256, 3, 2), L26 |-> Shape(256, 128, 1, 1), L27 |-> Shape(128, 128, 1, 1),
   L28 |-> Shape(128, 128, 3, 1), L29 |-> Shape(256, 128, 1, 1), L30 |-> Shape(256, 256, 1, 1),
   L31 |-> Shape(256, 128, 1, 1), L32 |-> Shape(512, 256, 1, 1), L33 |-> Shape(256, 128, 1, 1)]

P3Bufs ==
  << <<"cat", 20 * 20 * 512>>, <<"down", 20 * 20 * 256>>, <<"a", 20 * 20 * 128>>,
     <<"mid", 20 * 20 * 128>>, <<"b", 20 * 20 * 128>>, <<"p1", 20 * 20 * 128>>,
     <<"p2", 20 * 20 * 128>>, <<"p3", 20 * 20 * 128>>, <<"packed", PIX_BLOCK * 512>>,
     <<"patch", PIX_BLOCK * 1152>>, <<"pool_tmp", 20 * 20 * 128>>, <<"acc", Acc>> >>
P3Peak == RoundUp(20 * 20 * 512, 64) + 20 * 20 * 256 + 7 * 20 * 20 * 128
            + PIX_BLOCK * (512 + 1152) + Acc

P3Steps ==
  << Packed("L25", "in", 40, 128, "down", 20, 256),
     Conv1x1("L26", "down", 20, 256, "a", 128),
     Conv1x1("L27", "a", 20, 128, "mid", 128),
     Packed("L28", "mid", 20, 128, "b", 20, 128),
     Add("L26>L28", "a", "b", 20, 128),
     Conv1x1("L29", "down", 20, 256, "mid", 128),
     Cat("b", "mid", 20, 128, "cat"),
     Conv1x1("L30", "cat", 20, 256, "down", 256),
     Conv1x1("L31", "down", 20, 256, "a", 128),
     MaxPool("a", 20, 128, "p1"),
     MaxPool("p1", 20, 128, "p2"),
     MaxPool("p2", 20, 128, "p3"),
     Cat4("p3", "p2", "p1", "a", 20, 128, "cat"),
     Conv1x1("L32", "cat", 20, 512, "down", 256),
     Conv1x1("L33", "down", 20, 256, "out", 128) >>

P3 == Stage("p3", "common", "flat", "patch", <<40 * 40 * 128>>,
            P3Bufs, P3Peak, P3Layers, P3Steps)

-----------------------------------------------------------------------------

\* p4: top 20 x 20 x 128 and skip 40 x 40 x 128 to 40 x 40 x 64

P4Layers ==
  [L34 |-> Shape(256, 64, 1, 1), L35 |-> Shape(64, 64, 1, 1), L36 |-> Shape(64, 64, 3, 1),
   L37 |-> Shape(256, 64, 1, 1), L38 |-> Shape(128, 128, 1, 1), L39 |-> Shape(128, 64, 1, 1)]

P4Conv1x1(l, src, c, dst, n) == Conv1x1(l, src, 40, c, dst, n)
P4Conv3x3(l, src, c, dst, n) == Packed(l, src, 40, c, dst, 40, n)

\* Mutant: the sum is put into the skipped input's buffer.
MutP4Residual(skip, body)    == Add("L34>L36", body, skip, 40, 64)
P4Residual(skip, body)       == Add("L34>L36", skip, body, 40, 64)
P4ConcatInput(a, skip, dst)  == UpCat(a, skip, 40, 128, dst)
P4ConcatBranch(a, b, dst)    == Cat(a, b, 40, 64, dst)

P4Bufs ==
  << <<"cat0", 40 * 40 * 256>>, <<"mid", 40 * 40 * 64>>, <<"a", 40 * 40 * 64>>,
     <<"b", 40 * 40 * 64>>, <<"cat1", 40 * 40 * 128>>, <<"patch", PIX_BLOCK * 576>> >>
P4Peak == RoundUp(40 * 40 * 256, 64) + 3 * 40 * 40 * 64 + 40 * 40 * 128 + PIX_BLOCK * 576

P4Steps ==
  << P4ConcatInput("top", "skip", "cat0"),
     P4Conv1x1("L34", "cat0", 256, "a", 64),
     P4Conv1x1("L35", "a", 64, "mid", 64),
     P4Conv3x3("L36", "mid", 64, "b", 64),
     P4Residual("a", "b"),
     P4Conv1x1("L37", "cat0", 256, "a", 64),
     P4ConcatBranch("b", "a", "cat1"),
     P4Conv1x1("L38", "cat1", 128, "cat0", 128),
     P4Conv1x1("L39", "cat0", 128, "out", 64) >>

P4 == Stage("p4", "neck", "flat", "patch", <<20 * 20 * 128, 40 * 40 * 128>>,
            P4Bufs, P4Peak, P4Layers, P4Steps)

-----------------------------------------------------------------------------

\* p5: top 40 x 40 x 64 and skip 80 x 80 x 64 to 80 x 80 x 64

P5Layers ==
  [L40 |-> Shape(128, 32, 1, 1), L41 |-> Shape(32, 32, 1, 1), L42 |-> Shape(32, 32, 3, 1),
   L43 |-> Shape(128, 32, 1, 1), L44 |-> Shape(64, 64, 1, 1)]

P5Conv1x1(l, src, c, dst, n) ==
  IF KInner(P5Layers[l]) = 32 /\ c = 32 THEN Pair(l, src, 80, c, dst, n)
  ELSE Conv1x1(l, src, 80, c, dst, n)
\* Its kernel for blocks of 32 channels is never called: K_BLOCK is 64.
P5Conv3x3(l, src, c, dst, n) == Packed(l, src, 80, c, dst, 80, n)
P5Residual(skip, body)       == Add("L40>L42", skip, body, 80, 32)
P5ConcatInput(a, skip, dst)  == UpCat(a, skip, 80, 64, dst)
P5ConcatBranch(a, b, dst)    == Cat(a, b, 80, 32, dst)

P5Bufs ==
  << <<"cat0", 80 * 80 * 128>>, <<"mid", 80 * 80 * 32>>, <<"a", 80 * 80 * 32>>,
     <<"b", 80 * 80 * 32>>, <<"cat", 80 * 80 * 64>>, <<"patch", PIX_BLOCK * 288>> >>
P5Peak == RoundUp(80 * 80 * 128, 64) + 3 * 80 * 80 * 32 + 80 * 80 * 64 + PIX_BLOCK * 288

P5Steps ==
  << P5ConcatInput("top", "skip", "cat0"),
     P5Conv1x1("L40", "cat0", 128, "a", 32),
     P5Conv1x1("L41", "a", 32, "mid", 32),
     P5Conv3x3("L42", "mid", 32, "b", 32),
     P5Residual("a", "b"),
     P5Conv1x1("L43", "cat0", 128, "a", 32),
     P5ConcatBranch("b", "a", "cat"),
     P5Conv1x1("L44", "cat", 64, "out", 64) >>

P5 == Stage("p5", "neck", "flat", "patch", <<40 * 40 * 64, 80 * 80 * 64>>,
            P5Bufs, P5Peak, P5Layers, P5Steps)

-----------------------------------------------------------------------------

\* p7: p4 80 x 80 x 64 and skip 40 x 40 x 64 to 40 x 40 x 128

P7Layers ==
  [L45 |-> Shape(64, 64, 3, 2), L46 |-> Shape(128, 64, 1, 1), L47 |-> Shape(64, 64, 1, 1),
   L48 |-> Shape(64, 64, 3, 1), L49 |-> Shape(128, 64, 1, 1), L50 |-> Shape(128, 128, 1, 1)]

P7Conv1x1(l, src, c, dst, n) == Conv1x1(l, src, 40, c, dst, n)
P7Conv3x3(l, src, c, dst, n) == Packed(l, src, 40, c, dst, 40, n)
P7Residual(skip, body)       == Add("L46>L48", skip, body, 40, 64)
P7ConcatInput(a, skip, dst)  == Cat(a, skip, 40, 64, dst)
P7ConcatBranch(a, b, dst)    == Cat(a, b, 40, 64, dst)
P7Conv3x3s2(l, src, c, dst, n) == Packed(l, src, 80, c, dst, 40, n)

P7Bufs ==
  << <<"down", 40 * 40 * 64>>, <<"cat0", 40 * 40 * 128>>, <<"mid", 40 * 40 * 64>>,
     <<"a", 40 * 40 * 64>>, <<"b", 40 * 40 * 64>>, <<"cat1", 40 * 40 * 128>>,
     <<"patch", PIX_BLOCK * 576>>, <<"patch3x3s2", PIX_BLOCK * 576>> >>
P7Peak == RoundUp(40 * 40 * 64, 64) + 3 * 40 * 40 * 64 + 2 * 40 * 40 * 128
            + 2 * PIX_BLOCK * 576

P7Steps ==
  << P7Conv3x3s2("L45", "in", 64, "down", 64),
     P7ConcatInput("down", "skip", "cat0"),
     P7Conv1x1("L46", "cat0", 128, "a", 64),
     P7Conv1x1("L47", "a", 64, "mid", 64),
     P7Conv3x3("L48", "mid", 64, "b", 64),
     P7Residual("a", "b"),
     P7Conv1x1("L49", "cat0", 128, "a", 64),
     P7ConcatBranch("b", "a", "cat1"),
     P7Conv1x1("L50", "cat1", 128, "out", 128) >>

P7 == Stage("p7", "neck", "flat", "patch3x3s2", <<80 * 80 * 64, 40 * 40 * 64>>,
            P7Bufs, P7Peak, P7Layers, P7Steps)

-----------------------------------------------------------------------------

\* p9: p4 40 x 40 x 128 and skip 20 x 20 x 128 to 20 x 20 x 256

P9Layers ==
  [L51 |-> Shape(128, 128, 3, 2), L52 |-> Shape(256, 128, 1, 1), L53 |-> Shape(128, 128, 1, 1),
   L54 |-> Shape(128, 128, 3, 1), L55 |-> Shape(256, 128, 1, 1), L56 |-> Shape(256, 256, 1, 1)]

P9Conv1x1(l, src, c, dst, n) == Conv1x1(l, src, 20, c, dst, n)
P9Conv3x3(l, src, c, dst, n) == Packed(l, src, 20, c, dst, 20, n)
P9Residual(skip, body)       == Add("L52>L54", skip, body, 20, 128)

\* Mutant: the skip connection comes first.
MutP9ConcatInput(a, skip, dst) == Cat(skip, a, 20, 128, dst)
P9ConcatInput(a, skip, dst)  == Cat(a, skip, 20, 128, dst)
P9ConcatBranch(a, b, dst)    == Cat(a, b, 20, 128, dst)
P9Conv3x3s2(l, src, c, dst, n) == Packed(l, src, 40, c, dst, 20, n)

\* Mutant: the sizes of the patches as in p7.
MutP9Bufs ==
  << <<"down", 20 * 20 * 128>>, <<"cat0", 20 * 20 * 256>>, <<"mid", 20 * 20 * 128>>,
     <<"a", 20 * 20 * 128>>, <<"b", 20 * 20 * 128>>, <<"cat1", 20 * 20 * 256>>,
     <<"patch", PIX_BLOCK * 576>>, <<"patch3x3s2", PIX_BLOCK * 576>> >>
P9Bufs ==
  << <<"down", 20 * 20 * 128>>, <<"cat0", 20 * 20 * 256>>, <<"mid", 20 * 20 * 128>>,
     <<"a", 20 * 20 * 128>>, <<"b", 20 * 20 * 128>>, <<"cat1", 20 * 20 * 256>>,
     <<"patch", PIX_BLOCK * 1152>>, <<"patch3x3s2", PIX_BLOCK * 1152>> >>
P9Peak == RoundUp(20 * 20 * 128, 64) + 3 * 20 * 20 * 128 + 2 * 20 * 20 * 256
            + 2 * PIX_BLOCK * 1152

P9Steps ==
  << P9Conv3x3s2("L51", "in", 128, "down", 128),
     P9ConcatInput("down", "skip", "cat0"),
     P9Conv1x1("L52", "cat0", 256, "a", 128),
     P9Conv1x1("L53", "a", 128, "mid", 128),
     P9Conv3x3("L54", "mid", 128, "b", 128),
     P9Residual("a", "b"),
     P9Conv1x1("L55", "cat0", 256, "a", 128),
     P9ConcatBranch("b", "a", "cat1"),
     P9Conv1x1("L56", "cat1", 256, "out", 256) >>

P9 == Stage("p9", "neck", "flat", "patch3x3s2", <<40 * 40 * 128, 20 * 20 * 128>>,
            P9Bufs, P9Peak, P9Layers, P9Steps)

-----------------------------------------------------------------------------

\* p6: 80 x 80 x 64 to a box and a class map

P6Layers ==
  [L57 |-> Shape(64, 64, 3, 1), L58 |-> Shape(64, 64, 3, 1), L69 |-> Shape(64, 64, 1, 1),
   L63 |-> Shape(64, 80, 3, 1), L64 |-> Shape(80, 80, 3, 1), L72 |-> Shape(80, 80, 1, 1)]

P6Conv1x1(l, src, c, dst, n) == Conv1x1(l, src, 80, c, dst, n)
P6ConvPacked(l, src, c, dst, n) == Packed(l, src, 80, c, dst, 80, n)

P6Bufs ==
  << <<"stage0", 80 * 80 * 80>>, <<"stage1", 80 * 80 * 80>>, <<"acc", Acc>>,
     <<"packed", PIX_BLOCK * 128>>, <<"patch", PIX_BLOCK * 768>> >>
P6Peak == RoundUp(80 * 80 * 80, 64) + 80 * 80 * 80 + Acc + PIX_BLOCK * (128 + 768)

\* In the demo the last layer of each branch writes into a channel's buffer.
P6Steps(demo) ==
  << P6ConvPacked("L57", "in", 64, "stage0", 64),
     P6ConvPacked("L58", "stage0", 64, "stage1", 64),
     P6Conv1x1("L69", "stage1", 64, IF demo THEN "box" ELSE "stage0", 64),
     P6ConvPacked("L63", "in", 64, "stage0", 80),
     P6ConvPacked("L64", "stage0", 80, "stage1", 80),
     P6Conv1x1("L72", "stage1", 80, IF demo THEN "cls" ELSE "stage0", 80) >>

P6(demo) == Stage("p6", "head", "row", "patch", <<80 * 80 * 64>>,
                  P6Bufs, P6Peak, P6Layers, P6Steps(demo))

-----------------------------------------------------------------------------

\* p8: 40 x 40 x 128 to a box and a class map

P8Layers ==
  [L59 |-> Shape(128, 64, 3, 1), L60 |-> Shape(64, 64, 3, 1), L70 |-> Shape(64, 64, 1, 1),
   L65 |-> Shape(128, 80, 3, 1), L66 |-> Shape(80, 80, 3, 1), L73 |-> Shape(80, 80, 1, 1)]

P8Conv1x1(l, src, c, dst, n) == Conv1x1(l, src, 40, c, dst, n)
P8ConvExact(l, src, c, dst, n) == Exact(l, src, 40, c, dst, n)
P8ConvPacked(l, src, c, dst, n) == Packed(l, src, 40, c, dst, 40, n)

P8Bufs ==
  << <<"stage0", 40 * 40 * 80>>, <<"stage1", 40 * 40 * 80>>, <<"acc", Acc>>,
     <<"packed", PIX_BLOCK * 128>>, <<"patch", PIX_BLOCK * 768>> >>
P8Peak == RoundUp(40 * 40 * 80, 64) + 40 * 40 * 80 + Acc + PIX_BLOCK * (128 + 768)

\* In the demo the last layer of each branch writes into a channel's buffer.
P8Steps(demo) ==
  << P8ConvExact("L59", "in", 128, "stage0", 64),
     P8ConvPacked("L60", "stage0", 64, "stage1", 64),
     P8Conv1x1("L70", "stage1", 64, IF demo THEN "box" ELSE "stage0", 64),
     P8ConvExact("L65", "in", 128, "stage0", 80),
     P8ConvPacked("L66", "stage0", 80, "stage1", 80),
     P8Conv1x1("L73", "stage1", 80, IF demo THEN "cls" ELSE "stage0", 80) >>

P8(demo) == Stage("p8", "head", "row", "patch", <<40 * 40 * 128>>,
                  P8Bufs, P8Peak, P8Layers, P8Steps(demo))

-----------------------------------------------------------------------------

\* p10: 20 x 20 x 256 to a box and a class map

P10Layers ==
  [L61 |-> Shape(256, 64, 3, 1), L62 |-> Shape(64, 64, 3, 1), L71 |-> Shape(64, 64, 1, 1),
   L67 |-> Shape(256, 80, 3, 1), L68 |-> Shape(80, 80, 3, 1), L74 |-> Shape(80, 80, 1, 1)]

P10Conv1x1(l, src, c, dst, n) == Conv1x1(l, src, 20, c, dst, n)
P10ConvExact(l, src, c, dst, n) == Exact(l, src, 20, c, dst, n)
P10ConvPacked(l, src, c, dst, n) == Packed(l, src, 20, c, dst, 20, n)

P10Bufs ==
  << <<"stage0", 20 * 20 * 80>>, <<"stage1", 20 * 20 * 80>>, <<"acc", Acc>>,
     <<"packed", PIX_BLOCK * 128>>, <<"patch", PIX_BLOCK * 768>> >>
P10Peak == RoundUp(20 * 20 * 80, 64) + 20 * 20 * 80 + Acc + PIX_BLOCK * (128 + 768)

\* In the demo the last layer of each branch writes into a channel's buffer.
P10Steps(demo) ==
  << P10ConvExact("L61", "in", 256, "stage0", 64),
     P10ConvPacked("L62", "stage0", 64, "stage1", 64),
     P10Conv1x1("L71", "stage1", 64, IF demo THEN "box" ELSE "stage0", 64),
     P10ConvExact("L67", "in", 256, "stage0", 80),
     P10ConvPacked("L68", "stage0", 80, "stage1", 80),
     P10Conv1x1("L74", "stage1", 80, IF demo THEN "cls" ELSE "stage0", 80) >>

P10(demo) == Stage("p10", "head", "row", "patch", <<20 * 20 * 256>>,
                  P10Bufs, P10Peak, P10Layers, P10Steps(demo))

-----------------------------------------------------------------------------

\* The graph of the model: what the reference scripts of tools/yolo compute
\* layer by layer.  Ln is a convolution with its activation, r a residual sum
\* (with the layers whose scales its table is made for), c and d a
\* concatenation, u one with an upsampled map, m a maximum pool.
ModelGraph ==
  [image |-> <<"image">>,
   L0 |-> <<"conv", "L0", "image">>,
   L1 |-> <<"conv", "L1", "L0">>,
   L2 |-> <<"conv", "L2", "L1">>,
   L3 |-> <<"conv", "L3", "L2">>,
   L4 |-> <<"conv", "L4", "L3">>,
   r4 |-> <<"add", "L2>L4", "L2", "L4">>,
   L5 |-> <<"conv", "L5", "L1">>,
   c5 |-> <<"cat", "", "r4", "L5">>,
   L6 |-> <<"conv", "L6", "c5">>,
   L7 |-> <<"conv", "L7", "L6">>,
   L8 |-> <<"conv", "L8", "L7">>,
   L9 |-> <<"conv", "L9", "L8">>,
   L10 |-> <<"conv", "L10", "L9">>,
   r10 |-> <<"add", "L8>L10", "L8", "L10">>,
   L11 |-> <<"conv", "L11", "r10">>,
   L12 |-> <<"conv", "L12", "L11">>,
   r12 |-> <<"add", "L10>L12", "r10", "L12">>,
   L13 |-> <<"conv", "L13", "L7">>,
   c13 |-> <<"cat", "", "r12", "L13">>,
   L14 |-> <<"conv", "L14", "c13">>,
   L15 |-> <<"conv", "L15", "L14">>,
   L16 |-> <<"conv", "L16", "L15">>,
   L17 |-> <<"conv", "L17", "L16">>,
   L18 |-> <<"conv", "L18", "L17">>,
   r18 |-> <<"add", "L16>L18", "L16", "L18">>,
   L19 |-> <<"conv", "L19", "r18">>,
   L20 |-> <<"conv", "L20", "L19">>,
   r20 |-> <<"add", "L18>L20", "r18", "L20">>,
   L21 |-> <<"conv", "L21", "r20">>,
   L22 |-> <<"conv", "L22", "L21">>,
   r22 |-> <<"add", "L20>L22", "r20", "L22">>,
   L23 |-> <<"conv", "L23", "L15">>,
   c23 |-> <<"cat", "", "r22", "L23">>,
   L24 |-> <<"conv", "L24", "c23">>,
   L25 |-> <<"conv", "L25", "L24">>,
   L26 |-> <<"conv", "L26", "L25">>,
   L27 |-> <<"conv", "L27", "L26">>,
   L28 |-> <<"conv", "L28", "L27">>,
   r28 |-> <<"add", "L26>L28", "L26", "L28">>,
   L29 |-> <<"conv", "L29", "L25">>,
   c29 |-> <<"cat", "", "r28", "L29">>,
   L30 |-> <<"conv", "L30", "c29">>,
   L31 |-> <<"conv", "L31", "L30">>,
   m1 |-> <<"pool", "", "L31">>,
   m2 |-> <<"pool", "", "m1">>,
   m3 |-> <<"pool", "", "m2">>,
   c31 |-> <<"cat", "", "m3", "m2", "m1", "L31">>,
   L32 |-> <<"conv", "L32", "c31">>,
   L33 |-> <<"conv", "L33", "L32">>,
   u34 |-> <<"upcat", "", "L33", "L24">>,
   L34 |-> <<"conv", "L34", "u34">>,
   L35 |-> <<"conv", "L35", "L34">>,
   L36 |-> <<"conv", "L36", "L35">>,
   r36 |-> <<"add", "L34>L36", "L34", "L36">>,
   L37 |-> <<"conv", "L37", "u34">>,
   c37 |-> <<"cat", "", "r36", "L37">>,
   L38 |-> <<"conv", "L38", "c37">>,
   L39 |-> <<"conv", "L39", "L38">>,
   u40 |-> <<"upcat", "", "L39", "L14">>,
   L40 |-> <<"conv", "L40", "u40">>,
   L41 |-> <<"conv", "L41", "L40">>,
   L42 |-> <<"conv", "L42", "L41">>,
   r42 |-> <<"add", "L40>L42", "L40", "L42">>,
   L43 |-> <<"conv", "L43", "u40">>,
   c43 |-> <<"cat", "", "r42", "L43">>,
   L44 |-> <<"conv", "L44", "c43">>,
   L57 |-> <<"conv", "L57", "L44">>,
   L58 |-> <<"conv", "L58", "L57">>,
   L69 |-> <<"conv", "L69", "L58">>,
   L63 |-> <<"conv", "L63", "L44">>,
   L64 |-> <<"conv", "L64", "L63">>,
   L72 |-> <<"conv", "L72", "L64">>,
   L45 |-> <<"conv", "L45", "L44">>,
   d45 |-> <<"cat", "", "L45", "L39">>,
   L46 |-> <<"conv", "L46", "d45">>,
   L47 |-> <<"conv", "L47", "L46">>,
   L48 |-> <<"conv", "L48", "L47">>,
   r48 |-> <<"add", "L46>L48", "L46", "L48">>,
   L49 |-> <<"conv", "L49", "d45">>,
   c49 |-> <<"cat", "", "r48", "L49">>,
   L50 |-> <<"conv", "L50", "c49">>,
   L59 |-> <<"conv", "L59", "L50">>,
   L60 |-> <<"conv", "L60", "L59">>,
   L70 |-> <<"conv", "L70", "L60">>,
   L65 |-> <<"conv", "L65", "L50">>,
   L66 |-> <<"conv", "L66", "L65">>,
   L73 |-> <<"conv", "L73", "L66">>,
   L51 |-> <<"conv", "L51", "L50">>,
   d51 |-> <<"cat", "", "L51", "L33">>,
   L52 |-> <<"conv", "L52", "d51">>,
   L53 |-> <<"conv", "L53", "L52">>,
   L54 |-> <<"conv", "L54", "L53">>,
   r54 |-> <<"add", "L52>L54", "L52", "L54">>,
   L55 |-> <<"conv", "L55", "d51">>,
   c55 |-> <<"cat", "", "r54", "L55">>,
   L56 |-> <<"conv", "L56", "c55">>,
   L61 |-> <<"conv", "L61", "L56">>,
   L62 |-> <<"conv", "L62", "L61">>,
   L71 |-> <<"conv", "L71", "L62">>,
   L67 |-> <<"conv", "L67", "L56">>,
   L68 |-> <<"conv", "L68", "L67">>,
   L74 |-> <<"conv", "L74", "L68">>]

==============================================================================
