------------------------------- MODULE Yolov8n -------------------------------
(***************************************************************************)
(* The YOLOv8n programs (src/yolov8n/*.tpp): the six of module Yolov8nC2f, *)
(* one for each scale and manner; their two combinations with a checker of *)
(* their own; Detect alone, at every scale and at P5; and the neck between *)
(* P4 and P5, without and with the Detect of P5 behind it.                 *)
(***************************************************************************)
EXTENDS Yolov8nC2f

Input(name) == (name \o " input") :> <<"input", name>>

P3Net == Input("P3") @@ C2fNet("P3", "P3 input", 0) @@ DetectNet("P3", "W3", 12, 21)
P4Net == Input("P4") @@ C2fNet("P4", "P4 input", 4) @@ DetectNet("P4", "W7", 15, 24)
P5Net == Input("P5") @@ C2fNet("P5", "P5 input", 8) @@ DetectNet("P5", "W11", 18, 27)

-----------------------------------------------------------------------------
(***************************************************************************)
(* One scale: the input, the C2f, the Detect and the checker are numbered  *)
(* from first on, and the last three messages have the same lengths.       *)
(***************************************************************************)
ScaleEdges(first, input, output, checker, port) ==
  {<<first, 0, first + 1, 0, input>>, <<first + 1, 1, first + 2, 0, output>>,
   <<first + 1, 2, checker, port, 160>>, <<first + 2, 1, checker, port + 1, 192>>}

P3Edges(first, checker, port) == ScaleEdges(first, 1228800, 409600, checker, port)
P4Edges(first, checker, port) == ScaleEdges(first, 307200, 204800, checker, port)
P5Edges(first, checker, port) == ScaleEdges(first, 153600, 102400, checker, port)

ScaleProcs(first, source, c2f, detect) ==
  (first :> source) @@ (first + 1 :> c2f) @@ (first + 2 :> detect)

S3Procs == ScaleProcs(850, S3Source, S3C2fProcess, S3DetectProcess)
S4Procs == ScaleProcs(840, S4Source, S4C2fProcess, S4DetectProcess)
S5Procs == ScaleProcs(830, S5Source, S5C2fProcess, S5DetectProcess)
D3Procs == ScaleProcs(890, D3Source, D3C2fProcess, D3DetectProcess)
D4Procs == ScaleProcs(880, D4Source, D4C2fProcess, D4DetectProcess)
D5Procs == ScaleProcs(870, D5Source, D5C2fProcess, D5DetectProcess)

Yolov8nP3 == Program("p3", S3Procs @@ (853 :> S3Checker), Connections(P3Edges(850, 853, 0)), P3Net)
Yolov8nP4 == Program("p4", S4Procs @@ (843 :> S4Checker), Connections(P4Edges(840, 843, 0)), P4Net)
Yolov8nP5 == Program("p5", S5Procs @@ (833 :> S5Checker), Connections(P5Edges(830, 833, 0)), P5Net)

Yolov8nP3Dense ==
  Program("p3_dense", D3Procs @@ (893 :> D3Checker), Connections(P3Edges(890, 893, 0)), P3Net)
Yolov8nP4Dense ==
  Program("p4_dense", D4Procs @@ (883 :> D4Checker), Connections(P4Edges(880, 883, 0)), P4Net)
Yolov8nP5Dense ==
  Program("p5_dense", D5Procs @@ (873 :> D5Checker), Connections(P5Edges(870, 873, 0)), P5Net)

-----------------------------------------------------------------------------
(***************************************************************************)
(* The three scales together, with one checker.                            *)
(***************************************************************************)
CombinedChecker ==
  CheckerProcess("checker", <<S3C2fExpect, S3DetectExpect, S4C2fExpect, S4DetectExpect,
                              S5C2fExpect, S5DetectExpect>>)
DenseCombinedChecker ==
  CheckerProcess("checker", <<D3C2fExpect, D3DetectExpect, D4C2fExpect, D4DetectExpect,
                              D5C2fExpect, D5DetectExpect>>)

Yolov8nC2fDetect ==
  Program("c2f_detect", S3Procs @@ S4Procs @@ S5Procs @@ (860 :> CombinedChecker),
          Connections(P3Edges(850, 860, 0) \cup P4Edges(840, 860, 2) \cup P5Edges(830, 860, 4)),
          P3Net @@ P4Net @@ P5Net)

Yolov8nDenseC2fDetect ==
  Program("dense_c2f_detect", D3Procs @@ D4Procs @@ D5Procs @@ (900 :> DenseCombinedChecker),
          Connections(P3Edges(890, 900, 0) \cup P4Edges(880, 900, 2) \cup P5Edges(870, 900, 4)),
          P3Net @@ P4Net @@ P5Net)

-----------------------------------------------------------------------------
(***************************************************************************)
(* Detect alone, from whole maps that its sources make: all three scales   *)
(* (yolov8n_detect_downstream.c), and P5 (yolov8n_p5_detect.c).            *)
(***************************************************************************)
DetectScales ==
  << Scale("P3", 80, 192, 64, 32, {0, 1, 79, 80, 1234, 3200, 6321, 6399}, 0),
     Scale("P4", 40, 192, 128, 64, {0, 1, 39, 40, 333, 800, 1511, 1599}, 0),
     Scale("P5", 20, 384, 256, 128, {0, 1, 19, 20, 123, 210, 381, 399}, 0) >>
DetectBox == <<12, 15, 18>>
DetectCls == <<21, 24, 27>>

DetectMap(i) == DetectScales[i].name \o " map"
DetectReadsMap(s) == Unless(DetectReads(s) \subseteq AllPoints(s), s.name \o " Detect")

DetectAlone(i) ==
  LET s == DetectScales[i]
  IN DetectProcess("detect", DetectStage(s, DetectLayersOf(s, DetectBox[i], DetectCls[i]),
                                         DetectBox[i], DetectCls[i], DetectReadsMap(s)))
DetectSource(i) ==
  LET s == DetectScales[i]
  IN SourceProcess("source", Value(DetectMap(i), s.side, s.outC, {}))
DetectChecker ==
  CheckerProcess("checker", [i \in 1 .. 3 |->
                               Value(DetectScales[i].name \o " Detect", 1, 192, {})])

DetectAloneNet(i) ==
  (DetectMap(i) :> <<"input", DetectMap(i)>>) @@
  DetectNet(DetectScales[i].name, DetectMap(i), DetectBox[i], DetectCls[i])

Yolov8nDetect ==
  Program("detect", [p \in 820 .. 826 |-> CASE p \in 820 .. 822 -> DetectSource(p - 819)
                                  [] p \in 823 .. 825 -> DetectAlone(p - 822)
                                  [] OTHER -> DetectChecker],
          Connections({<<820, 0, 823, 0, 409600>>, <<821, 0, 824, 0, 204800>>,
                       <<822, 0, 825, 0, 102400>>, <<823, 1, 826, 0, 192>>,
                       <<824, 1, 826, 1, 192>>, <<825, 1, 826, 2, 192>>}),
          DetectAloneNet(1) @@ DetectAloneNet(2) @@ DetectAloneNet(3))

\* p5_detect's file has its own layers, taps and summary of 160 bytes.
P5DetectScale == Scale("P5", 20, 384, 256, 128, {0, 1, 19, 20, 123, 210, 381, 399}, 0)
P5DetectStage ==
  PointStage("P5 detect", 20 * 20 * 256, DetectBufs(8), DETECT_SCRATCH_PEAK_BYTES,
             DetectLayersOf(P5DetectScale, 18, 27),
             DetectSteps(P5DetectScale, 18, 27, DetectReadsMap(P5DetectScale),
                         Unless(DetectTapsRight(P5DetectScale), "P5 taps"), 160))
P5DetectSource  == SourceProcess("source", Value("P5 map", 20, 256, {}))
P5DetectChecker == CheckerProcess("checker", <<Value("P5 Detect", 1, 160, {})>>)

Yolov8nP5Detect ==
  Program("p5_detect", (810 :> P5DetectSource) @@ (811 :> DetectProcess("detect", P5DetectStage))
            @@ (812 :> P5DetectChecker),
          Connections({<<810, 0, 811, 0, 102400>>, <<811, 1, 812, 0, 160>>}),
          DetectAloneNet(3))

-----------------------------------------------------------------------------
(***************************************************************************)
(* The neck (yolov8n_p4_p5_neck_tail.c): model 19 halves the map of P4 and *)
(* is put before the channels of model 9, which a source makes.            *)
(***************************************************************************)
Model19Layers == W(31) :> Shape(128, 128, 3, 2)
Model19Steps ==
  << PointConv(W(31), "in", 40, 128, "out", 20, 128, {}),
     Compute("model19 summary", <<Src("in", 40, 128), Src("out", 20, 128)>>, "summary", 1, 160) >>
Model19Stage == PointStage("model19", 40 * 40 * 128, << <<"out_vec", 128>> >>, 4096,
                           Model19Layers, Model19Steps)
Model19Process == C2fProcess("model19", Model19Stage)

Model9Source == SourceProcess("model9_source", Value("model9", 20, 256, {}))

ConcatSteps ==
  << Step("cat", "", <<Src("model19", 20, 128), Src("model9", 20, 256)>>, "out", 20, 384),
     Compute("concat summary", <<Src("model19", 20, 128), Src("model9", 20, 256),
                                 Src("out", 20, 384)>>, "summary", 1, 160) >>
ConcatStage == Stage("concat", "points", "points", "", <<20 * 20 * 128, 20 * 20 * 256>>,
                     <<>>, 0, <<>>, ConcatSteps)
ConcatProcess ==
  [Idle("concat") EXCEPT
     !.ops = <<RecvOp(0, "model19"), RecvOp(1, "model9"), RunOp,
               SendOp(2, "out"), SendOp(3, "summary")>>,
     !.stage = ConcatStage]

NeckNet ==
  P4Net @@
  ("model9" :> <<"input", "model9">>) @@
  (W(31) :> <<"conv", W(31), "W7">>) @@
  ("model19 summary" :> <<"node", "model19 summary", "W7", W(31)>>) @@
  ("neck" :> <<"cat", "", W(31), "model9">>) @@
  ("concat summary" :> <<"node", "concat summary", W(31), "model9", "neck">>)

Model19Expect       == Value("model19 summary", 1, 160, {})
ConcatExpect        == Value("concat summary", 1, 160, {})
NeckChecker == CheckerProcess("checker", <<D4C2fExpect, Model19Expect,
                                           Value("neck", 20, 384, {}), ConcatExpect>>)

NeckProcs == (880 :> D4Source) @@ (881 :> D4C2fProcess) @@ (910 :> Model19Process)
               @@ (911 :> Model9Source) @@ (912 :> ConcatProcess)
NeckEdges == {<<880, 0, 881, 0, 307200>>, <<881, 1, 910, 0, 204800>>,
              <<910, 1, 912, 0, 51200>>, <<911, 0, 912, 1, 102400>>}

Yolov8nNeckTail ==
  Program("neck_tail", NeckProcs @@ (913 :> NeckChecker),
          Connections(NeckEdges \cup
            {<<881, 2, 913, 0, 160>>, <<910, 2, 913, 1, 160>>,
             <<912, 2, 913, 2, 153600>>, <<912, 3, 913, 3, 160>>}),
          NeckNet)

(***************************************************************************)
(* The neck with the C2f and the Detect of P5 behind it                    *)
(* (yolov8n_p4_p5_neck_tail_p5_detect.c).                                  *)
(***************************************************************************)
NeckDetectChecker ==
  CheckerProcess("checker", <<D4C2fExpect, Model19Expect, ConcatExpect,
                              Value("P5 C2f summary", 1, 160, {}),
                              Value("P5 Detect", 1, 192, {})>>)

Yolov8nNeckTailDetect ==
  Program("neck_tail_detect", NeckProcs @@ (871 :> D5C2fProcess) @@ (872 :> D5DetectProcess)
            @@ (914 :> NeckDetectChecker),
          Connections(NeckEdges \cup
            {<<881, 2, 914, 0, 160>>, <<910, 2, 914, 1, 160>>, <<912, 2, 871, 0, 153600>>,
             <<912, 3, 914, 2, 160>>, <<871, 1, 872, 0, 102400>>, <<871, 2, 914, 3, 160>>,
             <<872, 1, 914, 4, 192>>}),
          NeckNet @@ C2fNet("P5", "neck", 8) @@ DetectNet("P5", "W11", 18, 27))
==============================================================================
