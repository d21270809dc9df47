------------------------------ MODULE MCNetwork ------------------------------
EXTENDS Yolov5nPrograms, Yolov8n, Dataflow
MCCalm ==
  {Yolov5nDemo, Yolov5nFull, Yolov5nDownstream,
   Yolov8nP3, Yolov8nP4, Yolov8nP5, Yolov8nP3Dense, Yolov8nP4Dense, Yolov8nP5Dense,
   Yolov8nC2fDetect, Yolov8nDenseC2fDetect, Yolov8nDetect, Yolov8nP5Detect,
   Yolov8nNeckTail, Yolov8nNeckTailDetect}
\* The programs whose kernels use the tensor unit, which may now err twice.
MCErring == {WithErrors(g, 2) : g \in {Yolov5nDemo, Yolov5nFull, Yolov5nDownstream}}
MCPrograms == MCCalm \cup MCErring
\* The demo alone, and a sparse C2f with its Detect.
MCDemo   == {Yolov5nDemo}
MCSparse == {Yolov8nP5}
\* The addresses that yolov5n_demo_result holds when the demo has passed.
MCDemoResults == {<<518, "p6 box", "L69">>, <<518, "p6 cls", "L72">>,
                  <<518, "p8 box", "L70">>, <<518, "p8 cls", "L73">>,
                  <<518, "p10 box", "L71">>, <<518, "p10 cls", "L74">>}
MCResults == [n \in {g.name : g \in Programs} |-> IF n = "demo" THEN MCDemoResults ELSE {}]
MCSites == {"L0", "p0 cat", "L60", "L62", "L66", "L68", "L42 scratch"}
             \cup UNION {{s \o " sentinel", s \o " Detect"} : s \in {"P3", "P4", "P5"}}
MCSpills == {"L42"}
==============================================================================
