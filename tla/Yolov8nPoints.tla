----------------------------- MODULE Yolov8nPoints -----------------------------
(***************************************************************************)
(* The point by point C2f and Detect computations of the YOLOv8n programs  *)
(* (src/yolov8n): which points of a map are computed, and which pixels the *)
(* taps of each convolution read through the small patches of the code.    *)
(* The same code is found, with other constants, in every *_c2f_detect.c.  *)
(***************************************************************************)
EXTENDS Stages

\* One scale of the network as a file fixes it: the layers are numbered in
\* the table of weights, cv1, b0_cv1, b0_cv2 and cv2 from c2f, the three box
\* layers from box and the three class layers from cls.
Scale(name, side, inC, outC, hidden, samples, peak) ==
  [name |-> name, side |-> side, inC |-> inC, outC |-> outC, hidden |-> hidden,
   samples |-> samples, peak |-> peak]

AllPoints(s) == 0 .. s.side * s.side - 1
Pixel(s, y, x) == IF y \in 0 .. s.side - 1 /\ x \in 0 .. s.side - 1
                  THEN <<y, x>> ELSE Outside
At(s, p, dy, dx) == Pixel(s, p \div s.side + dy, (p % s.side) + dx)
Point(s, pixel)  == pixel[1] * s.side + pixel[2]
Around(s, p, r)  == {At(s, p, dy, dx) : dy, dx \in -r .. r} \ {Outside}

\* What a 3x3 convolution with padding 1 reads at a pixel.
Taps(s, pixel) == [t \in 0 .. 8 |-> TapSource(Shape(1, 1, 3, 1), s.side, pixel, t)]

(***************************************************************************)
(* Reading through a patch of width by width slots centred anywhere in it: *)
(* a tap outside the patch or on a slot that is not valid adds nothing.    *)
(***************************************************************************)
FromPatch(patch, width, cy, cx) ==
  [t \in 0 .. 8 |->
     LET py == cy + (t \div 3) - 1
         px == cx + (t % 3) - 1
     IN IF py \in 0 .. width - 1 /\ px \in 0 .. width - 1
        THEN patch[py * width + px] ELSE Outside]

Patch(s, p, r) ==
  LET width == 2 * r + 1
  IN [i \in 0 .. width * width - 1 |-> At(s, p, (i \div width) - r, (i % width) - r)]

\* One point of the sparse C2f: b0_cv1 is read from a 5x5 patch of the second
\* half of cv1 at each of the nine pixels around the point, and b0_cv2 from
\* the nine results.
PointRight(s, p) ==
  /\ \A j \in 0 .. 8 : Patch(s, p, 1)[j] # Outside
       => FromPatch(Patch(s, p, 2), 5, (j \div 3) + 1, (j % 3) + 1)
            = Taps(s, Patch(s, p, 1)[j])
  /\ FromPatch(Patch(s, p, 1), 3, 1, 1) = Taps(s, At(s, p, 0, 0))

\* One point of the dense C2f: both layers are read from 3x3 patches of maps.
MapPointRight(s, p) == FromPatch(Patch(s, p, 1), 3, 1, 1) = Taps(s, At(s, p, 0, 0))

\* The points of the rows looked at.
ProbedPoints(s) == {p \in AllPoints(s) : p \div s.side \in ProbedRows(s.side)}

(***************************************************************************)
(* Which points the sparse C2f computes, and which the Detect layers read: *)
(* the second 3x3 layer is computed at the sample points, the first at the *)
(* nine pixels around each, from the nine around each of those.            *)
(***************************************************************************)
NeededPoints(s) ==
  {Point(s, q) : q \in UNION {Around(s, p, 1) : p \in s.samples}}
DetectReads(s) ==
  UNION {{Point(s, r) : r \in UNION {Around(s, Point(s, q), 1) : q \in Around(s, p, 1)}}
           : p \in s.samples}

\* The second layer of Detect reads the nine results through their validity.
DetectTapsRight(s) ==
  \A p \in s.samples :
    FromPatch([t \in 0 .. 8 |-> Taps(s, At(s, p, 0, 0))[t]], 3, 1, 1)
      = Taps(s, At(s, p, 0, 0))

(***************************************************************************)
(* The steps of the two stages.  w is the number of the first C2f layer,   *)
(* b and c those of the box and class layers, in the table of weights.     *)
(***************************************************************************)
W(i)     == "W" \o ToString(i)
Half(src, side, h, which, dst) == Compute(which, <<Src(src, side, 2 * h)>>, dst, side, h)

C2fSteps(s, w, b0cv1, b0cv2, computed) ==
  << PointConv(W(w), "in", s.side, s.inC, "cv1", s.side, 2 * s.hidden, {}),
     Half("cv1", s.side, s.hidden, "first half", "chunk0"),
     Half("cv1", s.side, s.hidden, "second half", "chunk1"),
     PointConv(W(w + 1), "chunk1", s.side, s.hidden, "b0_cv1", s.side, s.hidden, b0cv1),
     PointConv(W(w + 2), "b0_cv1", s.side, s.hidden, "conv1", s.side, s.hidden, b0cv2),
     Step("add", "", <<Src("conv1", s.side, s.hidden), Src("chunk1", s.side, s.hidden)>>,
          "bottleneck", s.side, s.hidden),
     Step("cat", "", <<Src("chunk0", s.side, s.hidden), Src("chunk1", s.side, s.hidden),
                       Src("bottleneck", s.side, s.hidden)>>, "cat", s.side, 3 * s.hidden),
     PointConv(W(w + 3), "cat", s.side, 3 * s.hidden, "out", s.side, s.outC, computed),
     Compute("C2f summary", <<Src("in", s.side, s.inC), Src("out", s.side, s.outC)>>,
             "summary", 1, 160) >>

DetectSteps(s, b, c, reads, taps, bytes) ==
  << PointConv(W(b), "in", s.side, s.outC, "box_taps", 3, 64, reads),
     PointConv(W(b + 1), "box_taps", 3, 64, "box1_out", 1, 64, taps),
     PointConv(W(b + 2), "box1_out", 1, 64, "box_raw", 1, 64, {}),
     PointConv(W(c), "in", s.side, s.outC, "cls_taps", 3, 80, reads),
     PointConv(W(c + 1), "cls_taps", 3, 80, "cls1_out", 1, 80, taps),
     PointConv(W(c + 2), "cls1_out", 1, 80, "cls_raw", 1, 80, {}),
     Compute("Detect", <<Src("in", s.side, s.outC), Src("box_raw", 1, 64),
                         Src("cls_raw", 1, 80)>>, "summary", 1, bytes) >>

C2fLayersOf(s, w) ==
  (W(w)     :> Shape(s.inC, 2 * s.hidden, 1, 1)) @@
  (W(w + 1) :> Shape(s.hidden, s.hidden, 3, 1)) @@
  (W(w + 2) :> Shape(s.hidden, s.hidden, 3, 1)) @@
  (W(w + 3) :> Shape(3 * s.hidden, s.outC, 1, 1))

\* The scratch of a Detect: the buffers of the two branches and the public
\* outputs of every sample.
DetectBufs(samples) ==
  << <<"box_taps", 9 * 64>>, <<"box1_out", 64>>, <<"box_raw", 64>>,
     <<"cls_taps", 9 * 80>>, <<"cls1_out", 80>>, <<"cls_raw", 80>>,
     <<"box_public", samples * 4 * 4>>, <<"cls_public", samples * 80 * 2>> >>
DETECT_SCRATCH_PEAK_BYTES == 4096

DetectLayersOf(s, b, c) ==
  (W(b)     :> Shape(s.outC, 64, 3, 1)) @@ (W(b + 1) :> Shape(64, 64, 3, 1)) @@
  (W(b + 2) :> Shape(64, 64, 1, 1))     @@
  (W(c)     :> Shape(s.outC, 80, 3, 1)) @@ (W(c + 1) :> Shape(80, 80, 3, 1)) @@
  (W(c + 2) :> Shape(80, 80, 1, 1))

\* sizeof(c2f_scratch_t): one point's buffers, or also maps of the whole side.
SparseScratch(h)             == 2 * h + 25 * h + h + h + 9 * h + h + h + 3 * h + 25 + 9
DenseScratch(points, h, tmp) == 4 * points * h + tmp + 9 * h + h + 3 * h + 9

\* The site, unless all is right.
Unless(right, site) == IF right THEN {} ELSE {site}

PointStage(name, bytes, bufs, peak, layers, steps) ==
  Stage(name, "points", "points", "", <<bytes>>, bufs, peak, layers, steps)

C2fStage(s, scratch, layers, w, taps, computed) ==
  PointStage(s.name \o " C2f", s.side * s.side * s.inC, << <<"scratch", scratch>> >>, s.peak,
             layers, C2fSteps(s, w, taps, taps, computed))

DetectStage(s, layers, b, c, reads) ==
  PointStage(s.name \o " Detect", s.side * s.side * s.outC,
             DetectBufs(Cardinality(s.samples)), DETECT_SCRATCH_PEAK_BYTES, layers,
             DetectSteps(s, b, c, reads, Unless(DetectTapsRight(s), s.name \o " taps"), 192))

(***************************************************************************)
(* The part of the model's graph that a scale computes.                    *)
(***************************************************************************)
C2fNet(name, in, w) ==
  (W(w)     :> <<"conv", W(w), in>>) @@
  (W(w) \o " first"  :> <<"node", "first half", W(w)>>) @@
  (W(w) \o " second" :> <<"node", "second half", W(w)>>) @@
  (W(w + 1) :> <<"conv", W(w + 1), W(w) \o " second">>) @@
  (W(w + 2) :> <<"conv", W(w + 2), W(w + 1)>>) @@
  (W(w) \o " sum" :> <<"add", "", W(w + 2), W(w) \o " second">>) @@
  (W(w) \o " cat" :> <<"cat", "", W(w) \o " first", W(w) \o " second", W(w) \o " sum">>) @@
  (W(w + 3) :> <<"conv", W(w + 3), W(w) \o " cat">>) @@
  (name \o " C2f summary" :> <<"node", "C2f summary", in, W(w + 3)>>)

DetectNet(name, in, b, c) ==
  (W(b)     :> <<"conv", W(b), in>>)           @@ (W(c)     :> <<"conv", W(c), in>>) @@
  (W(b + 1) :> <<"conv", W(b + 1), W(b)>>)     @@ (W(c + 1) :> <<"conv", W(c + 1), W(c)>>) @@
  (W(b + 2) :> <<"conv", W(b + 2), W(b + 1)>>) @@ (W(c + 2) :> <<"conv", W(c + 2), W(c + 1)>>) @@
  (name \o " Detect" :> <<"node", "Detect", in, W(b + 2), W(c + 2)>>)
===============================================================================
