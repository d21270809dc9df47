--------------------------- MODULE Yolov5nPrograms ---------------------------
(***************************************************************************)
(* The processes of the YOLOv5n programs, and the programs: the demo       *)
(* (yolov5n_demo.tpp), the whole network without the demo's sink           *)
(* (yolov5n_full.tpp), and its second half from stored inputs              *)
(* (yolov5n_downstream.tpp).                                               *)
(***************************************************************************)
EXTENDS Network, Yolov5n

-----------------------------------------------------------------------------
(***************************************************************************)
(* Processes.                                                              *)
(***************************************************************************)
Linear(kind, quiet, stage) ==
  [Idle(kind) EXCEPT !.ops = <<RecvOp(0, "in"), RunOp, SendOp(1, "out")>>,
                     !.stage = stage, !.quiet = quiet]

P0Process == Linear("p0", TRUE, P0)
P1Process == Linear("p1", TRUE, P1)
P2Process == Linear("p2", TRUE, P2)
P3Process == Linear("p3", TRUE, P3)

Neck(kind, first, stage) ==
  [Idle(kind) EXCEPT !.ops = <<RecvOp(0, first), RecvOp(1, "skip"), RunOp, SendOp(2, "out")>>,
                     !.stage = stage]

P4Process == Neck("p4", "top", P4)
P5Process == Neck("p5", "top", P5)
P7Process == Neck("p7", "in", P7)
P9Process == Neck("p9", "in", P9)

\* The heads send their maps only where both output ports are connected.
DetectHead(kind, demo, stage) ==
  [Idle(kind) EXCEPT
     !.ops = <<RecvOp(0, "in"), RunOp>>
               \o (IF demo THEN <<SendOp(1, "box"), SendOp(2, "cls")>> ELSE <<>>),
     !.stage = stage]

P6Process(demo)  == DetectHead("p6", demo, P6(demo))
P8Process(demo)  == DetectHead("p8", demo, P8(demo))
P10Process(demo) == [DetectHead("p10", demo, P10(demo)) EXCEPT !.passes = ~demo]

\* Mutant: the two copies are sent in the other order.
MutFork2 == [Idle("fork2") EXCEPT !.ops = <<RecvOp(0, "buf"), SendOp(2, "buf"), SendOp(1, "buf")>>]

Fork2 == [Idle("fork2") EXCEPT !.ops = <<RecvOp(0, "buf"), SendOp(1, "buf"), SendOp(2, "buf")>>]

SendStatic(kind, value) ==
  [Idle(kind) EXCEPT !.ops = <<SendOp(0, "out")>>, !.init = [out |-> value]]

SrcP5    == SendStatic("src_p5", Value("L33", 20, 128, {}))
\* Mutant: the channels of the map that p4 makes of it.
MutSrcP4 == SendStatic("src_p4", Value("L24", 40, 256, {}))
SrcP4    == SendStatic("src_p4", Value("L24", 40, 128, {}))
SrcP3    == SendStatic("src_p3", Value("L14", 80, 64, {}))
SrcInput == SendStatic("src_input", Value("image", 640, 3, {}))

Test(what, buf, value) == [what |-> what, buf |-> buf, value |-> value]

DemoSink ==
  [Idle("demo_sink") EXCEPT
     !.ops = <<RecvOp(4, "p10 box"), RecvOp(5, "p10 cls"), RecvOp(2, "p8 box"),
               RecvOp(3, "p8 cls"), RecvOp(0, "p6 box"), RecvOp(1, "p6 cls"), CheckOp>>,
     !.keeps = TRUE,
     !.tests = {Test("bytes", "p6 box", 80 * 80 * 64), Test("bytes", "p6 cls", 80 * 80 * 80),
                Test("bytes", "p8 box", 40 * 40 * 64), Test("bytes", "p8 cls", 40 * 40 * 80),
                Test("bytes", "p10 box", 20 * 20 * 64), Test("bytes", "p10 cls", 20 * 20 * 80)}]

Yolov5nProcess ==
  [demo \in BOOLEAN |->
     [src_p5 |-> SrcP5, src_p4 |-> SrcP4, src_p3 |-> SrcP3, src_input |-> SrcInput,
      fork2 |-> Fork2, demo_sink |-> DemoSink,
      p0 |-> P0Process, p1 |-> P1Process, p2 |-> P2Process, p3 |-> P3Process,
      p4 |-> P4Process, p5 |-> P5Process, p7 |-> P7Process, p9 |-> P9Process,
      p6 |-> P6Process(demo), p8 |-> P8Process(demo), p10 |-> P10Process(demo)]]

-----------------------------------------------------------------------------
(***************************************************************************)
(* Programs.                                                               *)
(***************************************************************************)
Connected(conns, p, port) == \E c \in conns : c.src = p /\ c.sp = port

Yolov5nProgram(name, kind, conns) ==
  LET demo(p) == Connected(conns, p, 1) /\ Connected(conns, p, 2)
  IN Program(name, [p \in DOMAIN kind |-> Yolov5nProcess[demo(p)][kind[p]]], conns, ModelGraph)

FullKinds ==
  [p \in 500 .. 517 |->
     CASE p = 500 -> "src_input" [] p = 501 -> "p0" [] p = 502 -> "p1"
       [] p = 504 -> "p2" [] p = 506 -> "p3" [] p = 508 -> "p4" [] p = 510 -> "p5"
       [] p = 512 -> "p6" [] p = 513 -> "p7" [] p = 515 -> "p8" [] p = 516 -> "p9"
       [] p = 517 -> "p10" [] OTHER -> "fork2"]

FullConns == Connections(
  {<<500, 0, 501, 0, 1228800>>, <<501, 1, 502, 0, 819200>>, <<502, 1, 503, 0, 409600>>,
   <<503, 1, 504, 0, 409600>>, <<503, 2, 510, 1, 409600>>, <<504, 1, 505, 0, 204800>>,
   <<505, 1, 506, 0, 204800>>, <<505, 2, 508, 1, 204800>>, <<506, 1, 507, 0, 51200>>,
   <<507, 1, 508, 0, 51200>>, <<507, 2, 516, 1, 51200>>, <<508, 2, 509, 0, 102400>>,
   <<509, 1, 510, 0, 102400>>, <<509, 2, 513, 1, 102400>>, <<510, 2, 511, 0, 409600>>,
   <<511, 1, 512, 0, 409600>>, <<511, 2, 513, 0, 409600>>, <<513, 2, 514, 0, 204800>>,
   <<514, 1, 515, 0, 204800>>, <<514, 2, 516, 0, 204800>>, <<516, 2, 517, 0, 102400>>})

Yolov5nFull == Yolov5nProgram("full", FullKinds, FullConns)

DemoConns == FullConns \cup Connections(
  {<<512, 1, 518, 0, 409600>>, <<512, 2, 518, 1, 512000>>, <<515, 1, 518, 2, 102400>>,
   <<515, 2, 518, 3, 128000>>, <<517, 1, 518, 4, 25600>>, <<517, 2, 518, 5, 32000>>})

Yolov5nDemo == Yolov5nProgram("demo", FullKinds @@ (518 :> "demo_sink"), DemoConns)

DownstreamKinds ==
  [p \in 500 .. 513 |->
     CASE p = 500 -> "src_p5" [] p = 501 -> "src_p4" [] p = 502 -> "src_p3"
       [] p = 504 -> "p4" [] p = 506 -> "p5" [] p = 508 -> "p6" [] p = 509 -> "p7"
       [] p = 511 -> "p8" [] p = 512 -> "p9" [] p = 513 -> "p10" [] OTHER -> "fork2"]

DownstreamConns == Connections(
  {<<500, 0, 503, 0, 51200>>, <<503, 1, 504, 0, 51200>>, <<503, 2, 512, 1, 51200>>,
   <<501, 0, 504, 1, 204800>>, <<504, 2, 505, 0, 102400>>, <<505, 1, 506, 0, 102400>>,
   <<505, 2, 509, 1, 102400>>, <<502, 0, 506, 1, 409600>>, <<506, 2, 507, 0, 409600>>,
   <<507, 1, 508, 0, 409600>>, <<507, 2, 509, 0, 409600>>, <<509, 2, 510, 0, 204800>>,
   <<510, 1, 511, 0, 204800>>, <<510, 2, 512, 0, 204800>>, <<512, 2, 513, 0, 102400>>})

Yolov5nDownstream == Yolov5nProgram("downstream", DownstreamKinds, DownstreamConns)
===============================================================================
