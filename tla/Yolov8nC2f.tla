------------------------------ MODULE Yolov8nC2f ------------------------------
(***************************************************************************)
(* The six C2f and Detect programs of YOLOv8n, a file each                 *)
(* (src/yolov8n).  S3, S4 and S5 are yolov8n_p3_c2f_detect.c and its       *)
(* siblings, which compute the C2f at a few points and leave a sentinel in *)
(* the rest of the map; D3, D4 and D5 are yolov8n_p3_dense_c2f_detect.c    *)
(* and its siblings, which compute the whole map.  Each file holds the     *)
(* constants of its scale, the source of its input, the C2f, the Detect    *)
(* and a checker with the results it expects.                              *)
(***************************************************************************)
EXTENDS Network, Yolov8nPoints

SourceProcess(kind, value) ==
  [Idle(kind) EXCEPT !.ops = <<SendOp(0, "out")>>, !.init = [out |-> value]]

C2fProcess(kind, stage) ==
  [Idle(kind) EXCEPT
     !.ops = <<RecvOp(0, "in"), RunOp, SendOp(1, "out"), SendOp(2, "summary")>>,
     !.stage = stage]

DetectProcess(kind, stage) ==
  [Idle(kind) EXCEPT !.ops = <<RecvOp(0, "in"), RunOp, SendOp(1, "summary")>>,
                     !.stage = stage]

\* Receives at port i - 1 what should be the i-th of the values.
CheckerProcess(kind, values) ==
  [Idle(kind) EXCEPT
     !.ops = [i \in 1 .. Len(values) |-> RecvOp(i - 1, ToString(i - 1))] \o <<CheckOp>>,
     !.tests = {[what |-> "value", buf |-> ToString(i - 1), value |-> values[i]]
                  : i \in DOMAIN values}]

-----------------------------------------------------------------------------

\* yolov8n_p3_c2f_detect.c

S3Scale        == Scale("P3", 80, 192, 64, 32, {0, 1, 79, 80, 1234, 3200, 6321, 6399}, 4096)
S3Scratch      == SparseScratch(S3Scale.hidden)
S3C2fLayers    == C2fLayersOf(S3Scale, 0)
S3DetectLayers == DetectLayersOf(S3Scale, 12, 21)

S3Needed    == NeededPoints(S3Scale)
S3Taps      == Unless(\A p \in S3Needed : PointRight(S3Scale, p), "P3 C2f")
S3Sentinel  == Unless(S3Needed = AllPoints(S3Scale), "P3 sentinel")
S3C2f       == C2fStage(S3Scale, S3Scratch, S3C2fLayers, 0, S3Taps, S3Sentinel)
S3Reads     == Unless(DetectReads(S3Scale) \subseteq S3Needed, "P3 Detect")
S3Detect    == DetectStage(S3Scale, S3DetectLayers, 12, 21, S3Reads)

S3C2fExpect    == IF Cardinality(S3Needed) = 37
                  THEN Value("P3 C2f summary", 1, 160, {"P3 sentinel"}) ELSE Nothing
S3DetectExpect == Value("P3 Detect", 1, 192, {"P3 sentinel", "P3 Detect"})

S3Source        == SourceProcess("p3_source", Value("P3 input", 80, 192, {}))
S3C2fProcess    == C2fProcess("p3_c2f", S3C2f)
S3DetectProcess == DetectProcess("p3_detect", S3Detect)
S3Checker       == CheckerProcess("p3_checker", <<S3C2fExpect, S3DetectExpect>>)

-----------------------------------------------------------------------------

\* yolov8n_p4_c2f_detect.c

S4Scale        == Scale("P4", 40, 192, 128, 64, {0, 1, 39, 40, 333, 800, 1511, 1599}, 4096)
S4Scratch      == SparseScratch(S4Scale.hidden)
S4C2fLayers    == C2fLayersOf(S4Scale, 4)
S4DetectLayers == DetectLayersOf(S4Scale, 15, 24)

S4Needed    == NeededPoints(S4Scale)
S4Taps      == Unless(\A p \in S4Needed : PointRight(S4Scale, p), "P4 C2f")
S4Sentinel  == Unless(S4Needed = AllPoints(S4Scale), "P4 sentinel")
S4C2f       == C2fStage(S4Scale, S4Scratch, S4C2fLayers, 4, S4Taps, S4Sentinel)
S4Reads     == Unless(DetectReads(S4Scale) \subseteq S4Needed, "P4 Detect")
S4Detect    == DetectStage(S4Scale, S4DetectLayers, 15, 24, S4Reads)

S4C2fExpect    == IF Cardinality(S4Needed) = 40
                  THEN Value("P4 C2f summary", 1, 160, {"P4 sentinel"}) ELSE Nothing
S4DetectExpect == Value("P4 Detect", 1, 192, {"P4 sentinel", "P4 Detect"})

S4Source        == SourceProcess("p4_source", Value("P4 input", 40, 192, {}))
S4C2fProcess    == C2fProcess("p4_c2f", S4C2f)
S4DetectProcess == DetectProcess("p4_detect", S4Detect)
S4Checker       == CheckerProcess("p4_checker", <<S4C2fExpect, S4DetectExpect>>)

-----------------------------------------------------------------------------

\* yolov8n_p5_c2f_detect.c

S5Scale        == Scale("P5", 20, 384, 256, 128, {0, 21}, 6144)
S5Scratch      == SparseScratch(S5Scale.hidden)
S5C2fLayers    == C2fLayersOf(S5Scale, 8)
S5DetectLayers == DetectLayersOf(S5Scale, 18, 27)

S5Needed    == NeededPoints(S5Scale)
S5Taps      == Unless(\A p \in S5Needed : PointRight(S5Scale, p), "P5 C2f")
S5Sentinel  == Unless(S5Needed = AllPoints(S5Scale), "P5 sentinel")
S5C2f       == C2fStage(S5Scale, S5Scratch, S5C2fLayers, 8, S5Taps, S5Sentinel)
S5Reads     == Unless(DetectReads(S5Scale) \subseteq S5Needed, "P5 Detect")
S5Detect    == DetectStage(S5Scale, S5DetectLayers, 18, 27, S5Reads)

S5C2fExpect    == IF Cardinality(S5Needed) = 9
                  THEN Value("P5 C2f summary", 1, 160, {"P5 sentinel"}) ELSE Nothing
S5DetectExpect == Value("P5 Detect", 1, 192, {"P5 sentinel", "P5 Detect"})

S5Source        == SourceProcess("p5_source", Value("P5 input", 20, 384, {}))
S5C2fProcess    == C2fProcess("p5_c2f", S5C2f)
S5DetectProcess == DetectProcess("p5_detect", S5Detect)
S5Checker       == CheckerProcess("p5_checker", <<S5C2fExpect, S5DetectExpect>>)

-----------------------------------------------------------------------------

\* yolov8n_p3_dense_c2f_detect.c

D3Scale        == Scale("P3", 80, 192, 64, 32, {0, 1, 79, 80, 1234, 3200, 6321, 6399}, 1048576)
D3Scratch      == DenseScratch(80 * 80, 32, 2 * 32)
D3C2fLayers    == C2fLayersOf(D3Scale, 0)
D3DetectLayers == DetectLayersOf(D3Scale, 12, 21)

D3Taps      == Unless(\A p \in ProbedPoints(D3Scale) : MapPointRight(D3Scale, p), "P3 C2f")
D3C2f       == C2fStage(D3Scale, D3Scratch, D3C2fLayers, 0, D3Taps, {})
D3Reads     == Unless(DetectReads(D3Scale) \subseteq AllPoints(D3Scale), "P3 Detect")
D3Detect    == DetectStage(D3Scale, D3DetectLayers, 12, 21, D3Reads)

D3C2fExpect    == IF Cardinality(AllPoints(D3Scale)) = 6400
                  THEN Value("P3 C2f summary", 1, 160, {}) ELSE Nothing
D3DetectExpect == Value("P3 Detect", 1, 192, {})

D3Source        == SourceProcess("p3_source", Value("P3 input", 80, 192, {}))
D3C2fProcess    == C2fProcess("p3_c2f", D3C2f)
D3DetectProcess == DetectProcess("p3_detect", D3Detect)
D3Checker       == CheckerProcess("p3_checker", <<D3C2fExpect, D3DetectExpect>>)

-----------------------------------------------------------------------------

\* yolov8n_p4_dense_c2f_detect.c

D4Scale        == Scale("P4", 40, 192, 128, 64, {0, 1, 39, 40, 333, 800, 1511, 1599}, 524288)
D4Scratch      == DenseScratch(40 * 40, 64, 256 + 28 * 64 + 25)
D4C2fLayers    == C2fLayersOf(D4Scale, 4)
D4DetectLayers == DetectLayersOf(D4Scale, 15, 24)

D4Taps      == Unless(\A p \in ProbedPoints(D4Scale) : MapPointRight(D4Scale, p), "P4 C2f")
D4C2f       == C2fStage(D4Scale, D4Scratch, D4C2fLayers, 4, D4Taps, {})
D4Reads     == Unless(DetectReads(D4Scale) \subseteq AllPoints(D4Scale), "P4 Detect")
D4Detect    == DetectStage(D4Scale, D4DetectLayers, 15, 24, D4Reads)

D4C2fExpect    == IF Cardinality(AllPoints(D4Scale)) = 1600
                  THEN Value("P4 C2f summary", 1, 160, {}) ELSE Nothing
D4DetectExpect == Value("P4 Detect", 1, 192, {})

D4Source        == SourceProcess("p4_source", Value("P4 input", 40, 192, {}))
D4C2fProcess    == C2fProcess("p4_c2f", D4C2f)
D4DetectProcess == DetectProcess("p4_detect", D4Detect)
D4Checker       == CheckerProcess("p4_checker", <<D4C2fExpect, D4DetectExpect>>)

-----------------------------------------------------------------------------

\* yolov8n_p5_dense_c2f_detect.c

D5Scale        == Scale("P5", 20, 384, 256, 128, {0, 21}, 262144)
D5Scratch      == DenseScratch(20 * 20, 128, 256 + 28 * 128 + 25)
D5C2fLayers    == C2fLayersOf(D5Scale, 8)
D5DetectLayers == DetectLayersOf(D5Scale, 18, 27)

D5Taps      == Unless(\A p \in ProbedPoints(D5Scale) : MapPointRight(D5Scale, p), "P5 C2f")
D5C2f       == C2fStage(D5Scale, D5Scratch, D5C2fLayers, 8, D5Taps, {})
D5Reads     == Unless(DetectReads(D5Scale) \subseteq AllPoints(D5Scale), "P5 Detect")
D5Detect    == DetectStage(D5Scale, D5DetectLayers, 18, 27, D5Reads)

D5C2fExpect    == IF Cardinality(AllPoints(D5Scale)) = 400
                  THEN Value("P5 C2f summary", 1, 160, {}) ELSE Nothing
D5DetectExpect == Value("P5 Detect", 1, 192, {})

D5Source        == SourceProcess("p5_source", Value("P5 input", 20, 384, {}))
D5C2fProcess    == C2fProcess("p5_c2f", D5C2f)
D5DetectProcess == DetectProcess("p5_detect", D5Detect)
D5Checker       == CheckerProcess("p5_checker", <<D5C2fExpect, D5DetectExpect>>)
===============================================================================
