------------------------------- MODULE Network -------------------------------
(***************************************************************************)
(* A network program: the processes of a .tpp file with the connections    *)
(* between them, each a fixed list of receives, runs and sends.  A         *)
(* connection is a rendezvous (module Rendezvous), so a message passes     *)
(* when its sender and its receiver have both come to it.                  *)
(*                                                                         *)
(* A process has its kind, its operations, the buffers it has from the     *)
(* start (init), its stage, whether a kernel's -1 stops it without a word  *)
(* (quiet), whether its run reports that the test has passed (passes),     *)
(* whether it leaves its inputs to the host (keeps), and the tests that    *)
(* its check makes of its buffers.                                         *)
(*                                                                         *)
(* A program has a bound of its own, errors: as long as fewer stages have  *)
(* given up, a tensor error can come.                                      *)
(***************************************************************************)
EXTENDS Stages, EdgePlan

CONSTANTS
  Programs,    \* a set of programs [name, kind, proc, conns, net, errors]
  Results,     \* a function from names to the set of <<process, buffer, node>>
               \* that the program leaves to the host
  KnownSites,  \* the sites of the findings, which runs of their own show
  KnownSpills  \* the layers of the findings whose scratch is too small

VARIABLES
  prog,     \* the program that runs
  pc,       \* the index of each process's next operation
  mem,      \* each process's buffers
  failed,   \* the processes whose stage has given up
  verdict   \* what has been reported to the host: "pass", "fail"

vars == <<prog, pc, mem, failed, verdict>>

Op(do, port, buf) == [do |-> do, port |-> port, buf |-> buf]
RecvOp(port, buf) == Op("recv", port, buf)
SendOp(port, buf) == Op("send", port, buf)
RunOp             == Op("run", 0, "")
CheckOp           == Op("check", 0, "")

NoStage == Stage("none", "", "", "", <<>>, <<>>, 0, <<>>, <<>>)

Idle(kind) ==
  [kind |-> kind, ops |-> <<>>, init |-> <<>>, stage |-> NoStage,
   quiet |-> FALSE, passes |-> FALSE, keeps |-> FALSE, tests |-> {}]

\* The connections of <<source, port, destination, port, bytes>>.
Connections(edges) ==
  {[src |-> e[1], sp |-> e[2], dst |-> e[3], dp |-> e[4], bytes |-> e[5]] : e \in edges}

Kinds(proc) == [p \in DOMAIN proc |-> proc[p].kind]
Program(name, proc, conns, net) ==
  [name |-> name, kind |-> Kinds(proc), proc |-> proc, conns |-> conns, net |-> net, errors |-> 0]

\* The same program with up to n tensor errors.
WithErrors(g, n) == [g EXCEPT !.errors = n]

RecvAt(proc) == {i \in DOMAIN proc.ops : proc.ops[i].do = "recv"}
SendAt(proc) == {i \in DOMAIN proc.ops : proc.ops[i].do = "send"}
RunAt(proc)  == {i \in DOMAIN proc.ops : proc.ops[i].do = "run"}

Uses(op, buf) == op.do \in {"run", "check"} \/ (op.do = "send" /\ op.buf = buf)

-----------------------------------------------------------------------------
(***************************************************************************)
(* How the programs are built.                                             *)
(***************************************************************************)
\* The continuations of a process: it receives all its inputs, then it
\* computes, in one run, then it sends, once on each port.  A check comes last.
Phase(op) == CASE op.do = "recv" -> 1 [] op.do \in {"run", "check"} -> 2 [] op.do = "send" -> 3
InPhases(proc) ==
  LET ops == proc.ops IN
  /\ ops \in Seq({ops[i] : i \in DOMAIN ops})
  /\ \A i \in DOMAIN ops : ops[i].do \in {"recv", "run", "check", "send"}
  /\ \A i, j \in DOMAIN ops : i < j => Phase(ops[i]) <= Phase(ops[j])
  /\ \A i, j \in SendAt(proc) : ops[i].port = ops[j].port => i = j
  /\ \A i, j \in RunAt(proc) : i = j
  /\ \A i \in DOMAIN ops : ops[i].do = "check" => i = Len(ops)

\* What it receives is of use to it, or left to the host by a sink.
UsesInputs(proc) ==
  IF proc.keeps THEN SendAt(proc) = {}
  ELSE \A i \in RecvAt(proc) : \E j \in DOMAIN proc.ops : Uses(proc.ops[j], proc.ops[i].buf)

\* Only what the planner takes for a forwarder passes on what it received, or
\* sends without having computed.
OnlyForwards(g, p) ==
  LET proc == g.proc[p] IN
  \A i \in RecvAt(proc), j \in SendAt(proc) :
    proc.ops[i].buf = proc.ops[j].buf \/ RunAt(proc) = {} => Forwards(g, <<p, proc.ops[j].port>>)

\* Both ends of a connection are operations, and an input has one connection.
Plugged(g) ==
  /\ \A p \in DOMAIN g.proc : \A i \in SendAt(g.proc[p]) :
       \E c \in g.conns : c.src = p /\ c.sp = g.proc[p].ops[i].port
  /\ \A c \in g.conns :
       /\ \E i \in SendAt(g.proc[c.src]) : g.proc[c.src].ops[i].port = c.sp
       /\ \E i \in RecvAt(g.proc[c.dst]) : g.proc[c.dst].ops[i].port = c.dp
       /\ \A d \in g.conns : c.dst = d.dst /\ c.dp = d.dp => c = d

WellBuilt(g) ==
  /\ WellFormed(g) /\ DOMAIN g.proc = DOMAIN g.kind
  /\ \A p \in DOMAIN g.proc : InPhases(g.proc[p]) /\ UsesInputs(g.proc[p]) /\ OnlyForwards(g, p)
  /\ Plugged(g)

ASSUME ProgramsAssumption == \A g \in Programs : WellBuilt(g)

-----------------------------------------------------------------------------
Procs      == DOMAIN prog.proc
P(p)       == prog.proc[p]
Stopped(p) == pc[p] > Len(P(p).ops)
Now(p)     == IF Stopped(p) THEN Op("stopped", 0, "") ELSE P(p).ops[pc[p]]

\* What is wrong with each stage, whichever program runs it.
StageFlaws ==
  [st \in UNION {{g.proc[p].stage : p \in DOMAIN g.proc} : g \in Programs} |-> Flaws(st)]

Init ==
  /\ prog \in Programs
  /\ pc = [p \in Procs |-> 1]
  /\ mem = [p \in Procs |-> P(p).init]
  /\ failed = {}
  /\ verdict = {}

\* Buffers that no later operation of the process uses are forgotten.
UsedLater(proc, i, m) ==
  {b \in DOMAIN m : \E j \in i .. Len(proc.ops) : Uses(proc.ops[j], b)}
Kept(proc, i, m)      == [b \in UsedLater(proc, i + 1, m) |-> m[b]]

Stop(p) == pc' = [pc EXCEPT ![p] = Len(P(p).ops) + 1]

-----------------------------------------------------------------------------
(***************************************************************************)
(* Both sides of a connection have come to their operation on it.          *)
(***************************************************************************)
Ready(c) ==
  /\ Now(c.src).do = "send" /\ Now(c.src).port = c.sp
  /\ Now(c.dst).do = "recv" /\ Now(c.dst).port = c.dp

Meet(c) ==
  /\ Ready(c)
  /\ pc' = [pc EXCEPT ![c.src] = @ + 1, ![c.dst] = @ + 1]
  /\ LET v == mem[c.src][Now(c.src).buf]
     IN mem' = [mem EXCEPT ![c.src] = Kept(P(c.src), pc[c.src], @),
                           ![c.dst] = (Now(c.dst).buf :> v) @@ @]
  /\ UNCHANGED <<prog, failed, verdict>>

\* The lengths of the messages received before operation i, in their order.
Received(proc, i, m) ==
  LET recvs == SelectSeq(SubSeq(proc.ops, 1, i - 1), LAMBDA o : o.do = "recv")
  IN [j \in DOMAIN recvs |-> Bytes(m[recvs[j].buf])]

StageStops(proc, i, m) == GivesUp(proc.stage, StageFlaws[proc.stage], Received(proc, i, m))

\* Mutant: the stage stops, but without the failure of the macro.
MutGiveUp(p, silent) ==
  /\ Stop(p)
  /\ failed' = failed \cup {p}
  /\ UNCHANGED <<mem, verdict>>

\* The stage stops and, unless it is silent about it, reports a failure.  The
\* other processes go on.
GiveUp(p, silent) ==
  /\ Stop(p)
  /\ failed' = failed \cup {p}
  /\ verdict' = IF silent THEN verdict ELSE verdict \cup {"fail"}
  /\ UNCHANGED mem

(***************************************************************************)
(* The continuation that computes.  It gives up before its first kernel    *)
(* where a length is wrong or the arena traps, or in the kernel whose      *)
(* guard does not hold: in p0 to p3 a kernel's -1 stops the process        *)
(* without a report.                                                       *)
(***************************************************************************)
Computes(p) ==
  /\ pc' = [pc EXCEPT ![p] = @ + 1]
  /\ \E after \in RunSteps(prog.net, P(p).stage, StageFlaws[P(p).stage], mem[p]) :
       mem' = [mem EXCEPT ![p] = Kept(P(p), pc[p], after)]
  /\ verdict' = verdict \cup (IF P(p).passes THEN {"pass"} ELSE {})

RunStage(p) ==
  /\ Now(p).do = "run"
  /\ UNCHANGED prog
  /\ IF StageStops(P(p), pc[p], mem[p])
     THEN GiveUp(p, P(p).quiet /\ Received(P(p), pc[p], mem[p]) = P(p).stage.lens)
     ELSE Computes(p) /\ UNCHANGED failed

(***************************************************************************)
(* The tensor unit sets its error register behind a multiplication, a      *)
(* quantisation or a store: the kernel clears it and returns -1, behind    *)
(* which the stage returns from its continuation.                          *)
(***************************************************************************)
Multiplies(st) == \E i \in DOMAIN st.steps : IsConv(st.steps[i])

\* An error can come in this stage.
MayErr(p) ==
  /\ Now(p).do = "run" /\ Multiplies(P(p).stage)
  /\ ~StageStops(P(p), pc[p], mem[p])
  /\ Cardinality(failed) < prog.errors

\* Mutant: the register is read and cleared, but the -1 is not looked at.
MutTensorError(p) == MayErr(p) /\ Computes(p) /\ failed' = failed \cup {p} /\ UNCHANGED prog

TensorError(p) == MayErr(p) /\ GiveUp(p, P(p).quiet) /\ UNCHANGED prog

(***************************************************************************)
(* The continuation of a sink that looks at what it received.              *)
(***************************************************************************)
Satisfied(proc, m) ==
  \A t \in proc.tests : IF t.what = "bytes" THEN Bytes(m[t.buf]) = t.value
                        ELSE m[t.buf] = t.value

CheckAll(p) ==
  /\ Now(p).do = "check"
  /\ Stop(p)
  /\ verdict' = verdict \cup {IF Satisfied(P(p), mem[p]) THEN "pass" ELSE "fail"}
  /\ mem' = [mem EXCEPT ![p] = IF P(p).keeps THEN @ ELSE Kept(P(p), pc[p], @)]
  /\ UNCHANGED <<prog, failed>>

Done == (\A p \in Procs : Stopped(p)) /\ UNCHANGED vars

Next ==
  \/ \E c \in prog.conns : Meet(c)
  \/ \E p \in Procs : RunStage(p) \/ TensorError(p) \/ CheckAll(p)
  \/ Done

Spec == Init /\ [][Next]_vars /\ WF_vars(Next)

-----------------------------------------------------------------------------
(***************************************************************************)
(* Properties.                                                             *)
(***************************************************************************)
TypeOK ==
  /\ prog \in Programs
  /\ pc \in [Procs -> Nat] /\ \A p \in Procs : pc[p] \in 1 .. Len(P(p).ops) + 1
  /\ DOMAIN mem = Procs
  /\ failed \subseteq Procs
  /\ verdict \subseteq {"pass", "fail"}

Held == UNION {{mem[p][b] : b \in DOMAIN mem[p]} : p \in Procs}

\* Every buffer that is still to be read holds a node of the reference
\* network: no stage has been given the map of another node, of another
\* shape, in another order, or a buffer that a later step has overwritten
\* (the .tpp files, the step lists of the run continuations).
NothingMiswired == \A v \in Held : v.id # "?"

\* What a process is about to send fits the connection, or channel_check_len
\* stops the runtime.
MessagesFit ==
  \A c \in prog.conns : Now(c.src).do = "send" /\ Now(c.src).port = c.sp
                    => Bytes(mem[c.src][Now(c.src).buf]) <= c.bytes

\* Apart from the known sites, every kernel computes every pixel of its
\* layer: no tap is taken from a wrong pixel, by any copy of the packing
\* code, and no value reaches a summary without having been computed.
OtherKernelsExact == \A v \in Held : v.bad \subseteq KnownSites

\* What the scripts of tools/yolo compute layer by layer is what the sinks get.
SinksExact == \A p \in Procs : P(p).keeps => \A b \in DOMAIN mem[p] : mem[p][b].bad = {}

\* Every point that a Detect reads is one that its C2f has computed.
DetectReadsComputed ==
  \A v \in Held : v.bad \cap {"P3 Detect", "P4 Detect", "P5 Detect"} = {}

\* The stages that have run so far have kept inside the blocks of the arena.
Spills ==
  UNION {LET flaws == StageFlaws[P(p).stage]
         IN {P(p).stage.steps[i].name : i \in {j \in DOMAIN flaws : flaws[j].overruns}}
           : p \in {q \in Procs : \E j \in 1 .. pc[q] - 1 : P(q).ops[j].do = "run"}}
ScratchFits == Spills \subseteq KnownSpills

\* A reported pass means that the host finds the maps of the heads where the
\* sink has put their addresses (yolov5n_demo_result).
Delivered ==
  "pass" \in verdict =>
    \A r \in Results[prog.name] : r[2] \in DOMAIN mem[r[1]] /\ mem[r[1]][r[2]].id = r[3]

(***************************************************************************)
(* The plan of edge buffers.  A root's storage is in use from the start of *)
(* its producer's run (from the boot, where a source sends what is there)  *)
(* until its last consumer, behind forwarders too, has last read it.       *)
(***************************************************************************)
FirstWrite(proc) == IF RunAt(proc) = {} THEN 1 ELSE Min(RunAt(proc))
LastRead(proc, port) ==
  LET buf == proc.ops[CHOOSE i \in RecvAt(proc) : proc.ops[i].port = port].buf
  IN IF proc.keeps THEN Len(proc.ops) + 1
     ELSE Max({i \in DOMAIN proc.ops : Uses(proc.ops[i], buf)})

Lifetime(g, r) ==
  [producer |-> r[1],
   from     |-> FirstWrite(g.proc[r[1]]),
   until    |-> {<<c.dst, LastRead(g.proc[c.dst], c.dp)>> : c \in Members(g)[r]}]

Overlaps ==
  [g \in Programs |->
     {<<Lifetime(g, rs[1]), Lifetime(g, rs[2])>> :
        rs \in SharedPairs(g, "up") \cup SharedPairs(g, "down")}]

InUse(life) == /\ pc[life.producer] >= life.from
               /\ \E u \in life.until : pc[u[1]] <= u[2]

\* Two roots that the planner has put in the same bytes are never in use at
\* once, in whatever order the processes run (edge_plan.py).
StorageKept == \A pair \in Overlaps[prog] : ~(InUse(pair[1]) /\ InUse(pair[2]))

(***************************************************************************)
(* The order behind it, for every well-built program.                      *)
(***************************************************************************)
HasAll(p)        == \A i \in RecvAt(P(p)) : pc[p] > i
HasSent(p, port) == \E j \in SendAt(P(p)) : pc[p] > j /\ P(p).ops[j].port = port

\* What has been received has been sent.
SentFirst ==
  \A c \in prog.conns : \A i \in RecvAt(P(c.dst)) :
    P(c.dst).ops[i].port = c.dp /\ pc[c.dst] > i => HasSent(c.src, c.sp)

\* A process that has all its inputs comes after a send of each process that
\* it is reachable from.
InOrder ==
  \A p \in Procs : \A q \in Reachability(prog)[p] :
    HasAll(q) => \E j \in SendAt(P(p)) : pc[p] > j

IInv == TypeOK /\ SentFirst /\ InOrder

(***************************************************************************)
(* Why no circle of waits closes.                                          *)
(***************************************************************************)
\* The operations of process p on connection c, at its one end or the other.
OpsOn(g, p, c) ==
  {i \in SendAt(g.proc[p]) : c.src = p /\ g.proc[p].ops[i].port = c.sp} \cup
  {i \in RecvAt(g.proc[p]) : c.dst = p /\ g.proc[p].ops[i].port = c.dp}

\* The connections, with an edge from each to those that a process at one of
\* its ends comes to later.
Later(g) ==
  [kind  |-> [c \in g.conns |-> "connection"],
   conns |-> {[src |-> e[1], dst |-> e[2]] :
                e \in {d \in g.conns \X g.conns :
                        \E p \in {d[1].src, d[1].dst} :
                          \E i \in OpsOn(g, p, d[1]), j \in OpsOn(g, p, d[2]) : i < j}}]

\* Every receive is an end of one connection, and every connection has one
\* receive and one send.
Paired(g) ==
  /\ \A p \in DOMAIN g.proc : \A i \in RecvAt(g.proc[p]) :
       /\ \E c \in g.conns : i \in OpsOn(g, p, c)
       /\ \A j \in RecvAt(g.proc[p]) : g.proc[p].ops[i].port = g.proc[p].ops[j].port => i = j
  /\ \A c, d \in g.conns : c.src = d.src /\ c.sp = d.sp => c = d

\* One order of the connections suits every process.
OneOrder(g) == Paired(g) /\ \A c \in g.conns : c \notin Reachability(Later(g))[c]

Ordered == [g \in Programs |-> OneOrder(g)]

\* The processes of each program come to their connections in one order: the
\* copies of a fork, the inputs of a neck and the maps of the sink (.tpp files,
\* the continuations that receive and send).
InOneOrder == Ordered[prog]

Passed(p, c) == \E i \in OpsOn(prog, p, c) : pc[p] > i
GoesOn       == \/ \E c \in prog.conns : Ready(c)
                \/ \E p \in Procs : Now(p).do \in {"run", "check"}

\* A network comes to a halt before its end only when a stage has given up,
\* and that has been reported, but for the quiet ones (yolov5n_forks.c,
\* yolov5n_p0.c): where p0 to p3 err the host waits in vain, and nowhere else.
NeverStuck ==
  \/ GoesOn
  \/ \A p \in Procs : Stopped(p)
  \/ "fail" \in verdict
  \/ \E p \in failed : P(p).quiet

\* Whoever has passed a send whose receiver has not has given up.
SentMeets ==
  \A c \in prog.conns : Passed(c.src, c) /\ ~Passed(c.dst, c)
                        => c.src \in failed /\ (P(c.src).quiet \/ "fail" \in verdict)

(***************************************************************************)
(* What a pass stands for.                                                 *)
(***************************************************************************)
\* The operations behind which a pass can be reported.
Announces(proc, i) == proc.ops[i].do = "check" \/ (proc.ops[i].do = "run" /\ proc.passes)

\* Process p gets something of what q makes, through whatever stages.
IsBehind(p, q) == p \in Reachability(prog)[q]

\* A pass has been reported by a process that has not given up, nor has any
\* stage that it is behind: with a sink no stage at all, and without one p10's
\* pass says nothing of p6 and p8 (yolov5n_p10.c, yolov5n_demo_sink.c).
PassEarned ==
  "pass" \in verdict =>
    \E p \in Procs \ failed :
      /\ \E i \in DOMAIN P(p).ops : Announces(P(p), i) /\ pc[p] > i
      /\ \A q \in failed : ~IsBehind(p, q)

\* Every program without tensor errors comes to its end: no process waits for
\* one that waits for it, through forks and necks, no stage gives up, and the
\* test passes.
Completes ==
  prog.errors = 0 => <>[]((\A p \in Procs : Stopped(p)) /\ verdict = {"pass"})
===============================================================================
