---------------------------- MODULE NetworkProofs ----------------------------
(***************************************************************************)
(* Proofs about network programs: two messages that the planner has put in *)
(* the same bytes are never in use at once, in every well-built program    *)
(* and whatever the order in which its processes go on.                    *)
(***************************************************************************)
EXTENDS Dataflow, EdgePlanProofs

-----------------------------------------------------------------------------
(* Processes.                                                              *)

\* The phases of a process, as places in its operations.
LEMMA Phases ==
  ASSUME NEW proc, InPhases(proc)
  PROVE  /\ Len(proc.ops) \in Nat /\ DOMAIN proc.ops = 1 .. Len(proc.ops)
         /\ RecvAt(proc) \subseteq 1 .. Len(proc.ops) /\ SendAt(proc) \subseteq 1 .. Len(proc.ops)
         /\ RunAt(proc) \subseteq 1 .. Len(proc.ops)
         /\ \A i \in RecvAt(proc), j \in 1 .. Len(proc.ops) : j \notin RecvAt(proc) => i < j
         /\ \A i \in SendAt(proc), j \in 1 .. Len(proc.ops) : j \notin SendAt(proc) => j < i
         /\ RecvAt(proc) \cap SendAt(proc) = {} /\ RecvAt(proc) \cap RunAt(proc) = {}
<1> DEFINE ops == proc.ops
<1>1. ops \in Seq({ops[i] : i \in DOMAIN ops})
  BY DEF InPhases
<1>2. Len(ops) \in Nat /\ DOMAIN ops = 1 .. Len(ops)
  BY <1>1
<1>3. \A i, j \in DOMAIN ops : i < j => Phase(ops[i]) <= Phase(ops[j])
  BY DEF InPhases
<1>4. \A i \in DOMAIN ops : /\ i \in RecvAt(proc) => Phase(ops[i]) = 1
                            /\ i \in SendAt(proc) => Phase(ops[i]) = 3
                            /\ i \notin RecvAt(proc) \cup SendAt(proc) => Phase(ops[i]) = 2
  BY DEF InPhases, Phase, RecvAt, SendAt
<1>5. /\ RecvAt(proc) \subseteq DOMAIN ops /\ SendAt(proc) \subseteq DOMAIN ops
      /\ RunAt(proc) \subseteq DOMAIN ops
  BY DEF RecvAt, SendAt, RunAt
<1>6. RecvAt(proc) \cap SendAt(proc) = {} /\ RecvAt(proc) \cap RunAt(proc) = {}
  BY DEF RecvAt, SendAt, RunAt
<1>7. ASSUME NEW i \in RecvAt(proc), NEW j \in 1 .. Len(ops), j \notin RecvAt(proc) PROVE i < j
  <2>1. i \in DOMAIN ops /\ j \in DOMAIN ops /\ i # j /\ ~(j < i)
    BY <1>2, <1>3, <1>4, <1>5, <1>7
  <2>2. QED
    BY <1>2, <2>1
<1>8. ASSUME NEW i \in SendAt(proc), NEW j \in 1 .. Len(ops), j \notin SendAt(proc) PROVE j < i
  <2>1. i \in DOMAIN ops /\ j \in DOMAIN ops /\ i # j /\ ~(i < j)
    BY <1>2, <1>3, <1>4, <1>5, <1>8
  <2>2. QED
    BY <1>2, <2>1
<1>9. QED
  BY <1>2, <1>5, <1>6, <1>7, <1>8

\* A process sends once on each port, has one run, and ends with its check.
LEMMA Once ==
  ASSUME NEW proc, InPhases(proc)
  PROVE  /\ \A i, j \in SendAt(proc) : proc.ops[i].port = proc.ops[j].port => i = j
         /\ \A i, j \in RunAt(proc) : i = j
         /\ \A i \in DOMAIN proc.ops : proc.ops[i].do = "check" => i = Len(proc.ops)
BY DEF InPhases

\* The program that runs is built well, and every process is at a place in it.
LEMMA Running ==
  ASSUME TypeOK
  PROVE  /\ WellBuilt(prog) /\ WellFormed(prog) /\ DOMAIN prog.kind = Procs
         /\ \A p \in Procs : InPhases(P(p)) /\ pc[p] \in 1 .. Len(P(p).ops) + 1
         /\ \A c \in prog.conns : c.src \in Procs /\ c.dst \in Procs /\ c.src # c.dst
<1>1. WellBuilt(prog) /\ WellFormed(prog) /\ DOMAIN prog.kind = Procs
  BY ProgramsAssumption DEF TypeOK, WellBuilt, Procs
<1>2. \A p \in Procs : InPhases(P(p)) /\ pc[p] \in 1 .. Len(P(p).ops) + 1
  BY <1>1 DEF TypeOK, WellBuilt, Procs, P
<1>3. ASSUME NEW c \in prog.conns PROVE c.src \in Procs /\ c.dst \in Procs /\ c.src # c.dst
  <2>1. c.src \in DOMAIN prog.kind /\ c.dst \in DOMAIN prog.kind
    BY <1>1 DEF WellFormed
  <2>2. c.dst \in Reachability(prog)[c.src]
    BY <1>1, <2>1, ReachClosed DEF WellFormed
  <2>3. QED
    BY <1>1, <2>1, <2>2 DEF WellFormed
<1>4. QED
  BY <1>1, <1>2, <1>3

-----------------------------------------------------------------------------
(* Steps.                                                                  *)

\* A process moves on from a receive together with the sender on that
\* connection, or from another operation towards its end.
Moves(p) ==
  \/ /\ pc[p] \in RecvAt(P(p)) /\ pc'[p] = pc[p] + 1
     /\ \E c \in prog.conns :
          /\ c.dst = p /\ P(p).ops[pc[p]].port = c.dp
          /\ pc[c.src] \in SendAt(P(c.src)) /\ P(c.src).ops[pc[c.src]].port = c.sp
          /\ pc'[c.src] = pc[c.src] + 1
  \/ /\ pc[p] \in DOMAIN P(p).ops \ RecvAt(P(p))
     /\ pc'[p] \in pc[p] + 1 .. Len(P(p).ops) + 1

\* Where a process is that has not stopped.
LEMMA AtOp ==
  ASSUME TypeOK, NEW p \in Procs, Now(p).do # "stopped"
  PROVE  pc[p] \in DOMAIN P(p).ops /\ Now(p) = P(p).ops[pc[p]] /\ pc[p] \in 1 .. Len(P(p).ops)
<1>1. /\ pc[p] \in 1 .. Len(P(p).ops) + 1 /\ Len(P(p).ops) \in Nat
      /\ DOMAIN P(p).ops = 1 .. Len(P(p).ops)
  BY Running, Phases
<1>2. ~Stopped(p)
  BY DEF Now, Op
<1>3. QED
  BY <1>1, <1>2 DEF Now, Stopped

\* A message passes: both of its processes move on, and no other.
LEMMA MeetMoves ==
  ASSUME TypeOK, NEW c \in prog.conns, Meet(c)
  PROVE  /\ prog' = prog /\ pc' \in [Procs -> Nat] /\ DOMAIN mem' = Procs
         /\ verdict' = verdict /\ failed' = failed
         /\ \A p \in Procs : pc'[p] = pc[p] \/ Moves(p)
<1>1. c.src \in Procs /\ c.dst \in Procs /\ c.src # c.dst
  BY Running
<1>2. /\ Now(c.src).do = "send" /\ Now(c.src).port = c.sp
      /\ Now(c.dst).do = "recv" /\ Now(c.dst).port = c.dp
  BY DEF Meet, Ready
<1>3. /\ pc[c.src] \in DOMAIN P(c.src).ops /\ Now(c.src) = P(c.src).ops[pc[c.src]]
      /\ pc[c.dst] \in DOMAIN P(c.dst).ops /\ Now(c.dst) = P(c.dst).ops[pc[c.dst]]
      /\ pc[c.src] \in 1 .. Len(P(c.src).ops)
  BY <1>1, <1>2, AtOp
<1>4. pc[c.src] \in SendAt(P(c.src)) /\ pc[c.dst] \in RecvAt(P(c.dst))
  BY <1>2, <1>3 DEF SendAt, RecvAt
<1>5. /\ pc' = [pc EXCEPT ![c.src] = @ + 1, ![c.dst] = @ + 1]
      /\ prog' = prog /\ verdict' = verdict /\ failed' = failed
  BY DEF Meet
<1>6. DOMAIN mem' = Procs
  BY DEF Meet, TypeOK
<1>7. pc \in [Procs -> Nat]
  BY DEF TypeOK
<1>8. pc'[c.src] = pc[c.src] + 1 /\ pc'[c.dst] = pc[c.dst] + 1 /\ pc' \in [Procs -> Nat]
  BY <1>1, <1>5, <1>7
<1>9. Moves(c.dst)
  BY <1>2, <1>3, <1>4, <1>8 DEF Moves
<1>10. Moves(c.src)
  <2>1. pc[c.src] \notin RecvAt(P(c.src)) /\ Len(P(c.src).ops) \in Nat
    BY <1>1, <1>4, Running, Phases
  <2>2. pc'[c.src] \in pc[c.src] + 1 .. Len(P(c.src).ops) + 1
    BY <1>3, <1>8, <2>1
  <2>3. QED
    BY <1>3, <2>1, <2>2 DEF Moves
<1>11. \A p \in Procs : p # c.src /\ p # c.dst => pc'[p] = pc[p]
  BY <1>5, <1>7
<1>12. QED
  BY <1>5, <1>6, <1>8, <1>9, <1>10, <1>11

\* The continuations that compute: a run that is completed, a run that quits,
\* or a check.
Calls(q) == RunStage(q) \/ TensorError(q) \/ CheckAll(q)

Completed(q) ==
  /\ Now(q).do = "run" /\ ~StageStops(P(q), pc[q], mem[q])
  /\ Computes(q) /\ failed' = failed

Quits(q) ==
  /\ Now(q).do = "run"
  /\ StageStops(P(q), pc[q], mem[q]) \/ Cardinality(failed) < prog.errors
  /\ pc' = [pc EXCEPT ![q] = Len(P(q).ops) + 1] /\ mem' = mem /\ failed' = failed \cup {q}
  /\ verdict \subseteq verdict' /\ verdict' \subseteq verdict \cup {"fail"}
  /\ P(q).quiet \/ "fail" \in verdict'

LEMMA CallKinds ==
  ASSUME NEW q, Calls(q)
  PROVE  prog' = prog /\ (Completed(q) \/ Quits(q) \/ CheckAll(q))
<1>1. CASE RunStage(q) /\ StageStops(P(q), pc[q], mem[q])
  <2>1. /\ Now(q).do = "run" /\ prog' = prog
        /\ GiveUp(q, P(q).quiet /\ Received(P(q), pc[q], mem[q]) = P(q).stage.lens)
    BY <1>1 DEF RunStage
  <2>2. QED
    BY <1>1, <2>1 DEF GiveUp, Stop, Quits
<1>2. CASE RunStage(q) /\ ~StageStops(P(q), pc[q], mem[q])
  BY <1>2 DEF RunStage, Completed
<1>3. CASE TensorError(q)
  BY <1>3 DEF TensorError, MayErr, GiveUp, Stop, Quits
<1>4. CASE CheckAll(q)
  BY <1>4 DEF CheckAll
<1>5. QED
  BY <1>1, <1>2, <1>3, <1>4 DEF Calls

\* Where the processes are behind such a continuation.
LEMMA CallMoves ==
  ASSUME NEW q, Calls(q)
  PROVE  /\ Now(q).do \in {"run", "check"}
         /\ pc' = [pc EXCEPT ![q] = pc[q] + 1] \/ pc' = [pc EXCEPT ![q] = Len(P(q).ops) + 1]
BY CallKinds DEF Completed, Computes, Quits, CheckAll, Stop

\* A continuation that computes moves its own process on, and no other.
LEMMA ComputeMoves ==
  ASSUME TypeOK, NEW q \in Procs, Calls(q)
  PROVE  /\ prog' = prog /\ pc' \in [Procs -> Nat] /\ DOMAIN mem' = Procs
         /\ failed \subseteq failed' /\ failed' \subseteq Procs
         /\ verdict' \subseteq {"pass", "fail"}
         /\ \A p \in Procs : pc'[p] = pc[p] \/ Moves(p)
<1>1. Now(q).do \in {"run", "check"} /\ prog' = prog
  BY CallKinds, CallMoves
<1>2. /\ pc[q] \in DOMAIN P(q).ops /\ Now(q) = P(q).ops[pc[q]] /\ pc[q] \in 1 .. Len(P(q).ops)
      /\ Len(P(q).ops) \in Nat
  BY <1>1, AtOp, Running, Phases
<1>3. pc[q] \notin RecvAt(P(q))
  BY <1>1, <1>2 DEF RecvAt
<1>4. pc' = [pc EXCEPT ![q] = pc[q] + 1] \/ pc' = [pc EXCEPT ![q] = Len(P(q).ops) + 1]
  BY CallMoves
<1>5. pc \in [Procs -> Nat]
  BY DEF TypeOK
<1>6. /\ pc'[q] \in pc[q] + 1 .. Len(P(q).ops) + 1 /\ pc' \in [Procs -> Nat]
      /\ \A p \in Procs : p # q => pc'[p] = pc[p]
  BY <1>2, <1>4, <1>5
<1>7. Moves(q)
  BY <1>2, <1>3, <1>6 DEF Moves
<1>8. DOMAIN mem' = Procs
  BY CallKinds DEF Completed, Computes, Quits, CheckAll, TypeOK
<1>9. verdict' \subseteq {"pass", "fail"} /\ failed \subseteq failed' /\ failed' \subseteq Procs
  BY CallKinds DEF Completed, Computes, Quits, CheckAll, TypeOK
<1>10. QED
  BY <1>1, <1>6, <1>7, <1>8, <1>9

\* Every step of a network.
LEMMA StepMoves ==
  ASSUME TypeOK, [Next]_vars
  PROVE  /\ prog' = prog /\ pc' \in [Procs -> Nat] /\ DOMAIN mem' = Procs
         /\ failed \subseteq failed' /\ failed' \subseteq Procs
         /\ verdict' \subseteq {"pass", "fail"}
         /\ \A p \in Procs : pc'[p] = pc[p] \/ Moves(p)
<1>1. CASE \E c \in prog.conns : Meet(c)
  BY <1>1, MeetMoves DEF TypeOK
<1>2. CASE \E p \in Procs : Calls(p)
  BY <1>2, ComputeMoves
<1>3. CASE UNCHANGED vars
  BY <1>3 DEF vars, TypeOK
<1>4. QED
  BY <1>1, <1>2, <1>3 DEF Next, Done, Calls

-----------------------------------------------------------------------------
(* The invariant.                                                          *)

\* At the start nothing has been received and nothing sent.
LEMMA InitIInv == Init => IInv
<1> SUFFICES ASSUME Init PROVE IInv
  OBVIOUS
<1>1. WellBuilt(prog) /\ WellFormed(prog) /\ DOMAIN prog.kind = Procs
  BY ProgramsAssumption DEF Init, WellBuilt, Procs
<1>2. \A p \in Procs : /\ Len(P(p).ops) \in Nat /\ pc[p] = 1
                       /\ \A i \in RecvAt(P(p)) \cup SendAt(P(p)) : i \in Nat /\ ~(1 > i)
  BY <1>1, Phases DEF Init, WellBuilt, Procs, P
<1>3. \A c \in prog.conns : c.src \in Procs /\ c.dst \in Procs
  BY <1>1 DEF WellFormed
<1>4. TypeOK
  BY <1>2 DEF Init, TypeOK
<1>5. SentFirst
  BY <1>2, <1>3 DEF SentFirst
<1>6. InOrder
  <2> SUFFICES ASSUME NEW p \in Procs, NEW q \in Reachability(prog)[p], HasAll(q) PROVE FALSE
    BY DEF InOrder
  <2>1. PICK c \in prog.conns : c.dst = q
    BY <1>1, ReachLastEdge
  <2>2. PICK k \in RecvAt(P(q)) : TRUE
    BY <1>1, <2>1 DEF WellBuilt, Plugged, P
  <2>3. QED
    BY <1>2, <1>3, <2>1, <2>2 DEF HasAll
<1>7. QED
  BY <1>4, <1>5, <1>6 DEF IInv

\* A step keeps each process within its operations.
LEMMA TypeStep == ASSUME TypeOK, [Next]_vars PROVE TypeOK'
<1>1. /\ prog' = prog /\ pc' \in [Procs -> Nat] /\ DOMAIN mem' = Procs
      /\ failed' \subseteq Procs /\ verdict' \subseteq {"pass", "fail"}
      /\ \A p \in Procs : pc'[p] = pc[p] \/ Moves(p)
  BY StepMoves
<1>2. ASSUME NEW p \in Procs PROVE pc'[p] \in 1 .. Len(P(p).ops) + 1
  <2>1. /\ pc[p] \in 1 .. Len(P(p).ops) + 1 /\ Len(P(p).ops) \in Nat
        /\ RecvAt(P(p)) \subseteq 1 .. Len(P(p).ops)
    BY Running, Phases
  <2>2. QED
    BY <1>1, <2>1 DEF Moves
<1>3. QED
  BY <1>1, <1>2 DEF TypeOK, Procs, P

\* What has been sent stays sent.
LEMMA SendsStay ==
  ASSUME TypeOK, [Next]_vars, NEW p \in Procs, NEW j \in SendAt(P(p)), pc[p] > j
  PROVE  pc'[p] > j
<1>1. /\ pc[p] \in 1 .. Len(P(p).ops) + 1 /\ Len(P(p).ops) \in Nat
      /\ SendAt(P(p)) \subseteq 1 .. Len(P(p).ops)
  BY Running, Phases
<1>2. pc'[p] = pc[p] \/ Moves(p)
  BY StepMoves
<1>3. QED
  BY <1>1, <1>2 DEF Moves

\* A process passes a receive in a step with the sender at the other end.
LEMMA SentFirstStep == ASSUME TypeOK, SentFirst, [Next]_vars PROVE SentFirst'
<1>1. prog' = prog /\ \A p \in Procs : pc'[p] = pc[p] \/ Moves(p)
  BY StepMoves
<1> SUFFICES ASSUME NEW c \in prog.conns, NEW i \in RecvAt(P(c.dst)),
                    P(c.dst).ops[i].port = c.dp, pc'[c.dst] > i
             PROVE  \E j \in SendAt(P(c.src)) : pc'[c.src] > j /\ P(c.src).ops[j].port = c.sp
  BY <1>1 DEF SentFirst, HasSent, P
<1>2. c.src \in Procs /\ c.dst \in Procs
  BY Running
<1>3. /\ Len(P(c.dst).ops) \in Nat /\ pc[c.dst] \in 1 .. Len(P(c.dst).ops) + 1
      /\ RecvAt(P(c.dst)) \subseteq 1 .. Len(P(c.dst).ops)
      /\ DOMAIN P(c.dst).ops = 1 .. Len(P(c.dst).ops)
      /\ \A k \in 1 .. Len(P(c.dst).ops) : k \notin RecvAt(P(c.dst)) => i < k
  BY <1>2, Running, Phases
<1>4. CASE pc[c.dst] > i
  <2>1. PICK j \in SendAt(P(c.src)) : pc[c.src] > j /\ P(c.src).ops[j].port = c.sp
    BY <1>4 DEF SentFirst, HasSent
  <2>2. QED
    BY <1>2, <2>1, SendsStay
<1>5. CASE ~(pc[c.dst] > i)
  <2>1. pc[c.dst] \in RecvAt(P(c.dst)) /\ pc[c.dst] = i /\ Moves(c.dst)
    BY <1>1, <1>2, <1>3, <1>5 DEF Moves
  <2>2. PICK d \in prog.conns :
          /\ d.dst = c.dst /\ P(c.dst).ops[i].port = d.dp
          /\ pc[d.src] \in SendAt(P(d.src)) /\ P(d.src).ops[pc[d.src]].port = d.sp
          /\ pc'[d.src] = pc[d.src] + 1
    BY <2>1, <1>3 DEF Moves
  <2>3. d = c
    BY <2>2, Running DEF WellBuilt, Plugged
  <2>4. pc[c.src] \in Nat
    BY <1>2 DEF TypeOK
  <2>5. QED
    BY <2>2, <2>3, <2>4
<1>6. QED
  BY <1>4, <1>5

\* Who gets its last input gets it from a process that already had all of its
\* own, and has just sent.
LEMMA InOrderStep == ASSUME IInv, [Next]_vars PROVE InOrder'
<1>1. TypeOK /\ SentFirst /\ InOrder
  BY DEF IInv
<1>2. prog' = prog /\ \A p \in Procs : pc'[p] = pc[p] \/ Moves(p)
  BY <1>1, StepMoves
<1>3. SentFirst'
  BY <1>1, SentFirstStep
<1> SUFFICES ASSUME NEW p \in Procs, NEW q \in Reachability(prog)[p],
                    \A i \in RecvAt(P(q)) : pc'[q] > i
             PROVE  \E j \in SendAt(P(p)) : pc'[p] > j
  BY <1>2 DEF InOrder, HasAll, Procs, P
<1>4. PICK c \in prog.conns : c.dst = q /\ (c.src = p \/ c.src \in Reachability(prog)[p])
  BY <1>1, Running, ReachLastEdge
<1>5. PICK i \in RecvAt(P(q)) : P(q).ops[i].port = c.dp
  BY <1>1, <1>4, Running DEF WellBuilt, Plugged, P
<1>6. PICK j \in SendAt(P(c.src)) : pc'[c.src] > j
  BY <1>2, <1>3, <1>4, <1>5 DEF SentFirst, HasSent, P
<1>7. CASE c.src \in Reachability(prog)[p]
  <2>1. c.src \in Procs
    BY <1>1, Running
  <2>2. ASSUME NEW k \in RecvAt(P(c.src)) PROVE pc[c.src] > k
    <3>1. /\ Len(P(c.src).ops) \in Nat /\ pc[c.src] \in 1 .. Len(P(c.src).ops) + 1
          /\ k \in 1 .. Len(P(c.src).ops) /\ j \in 1 .. Len(P(c.src).ops)
          /\ DOMAIN P(c.src).ops = 1 .. Len(P(c.src).ops)
          /\ \A l \in 1 .. Len(P(c.src).ops) : l \notin RecvAt(P(c.src)) => k < l
          /\ j \notin RecvAt(P(c.src))
      BY <1>1, <2>1, Running, Phases
    <3>2. QED
      BY <1>2, <1>6, <2>1, <3>1 DEF Moves
  <2>3. PICK l \in SendAt(P(p)) : pc[p] > l
    BY <1>1, <1>7, <2>2 DEF InOrder, HasAll
  <2>4. QED
    BY <1>1, <2>3, SendsStay
<1>8. QED
  BY <1>4, <1>6, <1>7

\* The order of sends and receives in every network.
THEOREM Inductive == Spec => []IInv
<1>1. IInv /\ [Next]_vars => IInv'
  BY TypeStep, SentFirstStep, InOrderStep DEF IInv
<1>2. QED
  BY <1>1, InitIInv, PTL DEF Spec

\* No process goes past its last operation, and only these verdicts are given.
THEOREM TypeCorrect == Spec => []TypeOK
<1>1. IInv => TypeOK
  BY DEF IInv
<1>2. QED
  BY <1>1, Inductive, PTL

-----------------------------------------------------------------------------
(* The storage of the messages.                                            *)

\* The producer of an object that has begun to write has all its inputs.
LEMMA WritesAfterInputs ==
  ASSUME IInv, NEW r \in DOMAIN Members(prog), pc[r[1]] >= FirstWrite(P(r[1]))
  PROVE  r[1] \in Procs /\ HasAll(r[1])
<1>1. TypeOK
  BY DEF IInv
<1>2. r \in Sources(prog) /\ ~Forwards(prog, r)
  BY <1>1, Running, RootIsSource DEF Members
<1>3. PICK c \in prog.conns : r = <<c.src, c.sp>>
  BY <1>2 DEF Sources
<1>4. PICK j \in SendAt(P(c.src)) : P(c.src).ops[j].port = c.sp
  BY <1>1, Running DEF WellBuilt, Plugged, P
<1> DEFINE proc == P(c.src)
<1>5. c.src \in Procs
  BY <1>1, Running
<1>6. /\ Len(proc.ops) \in Nat /\ pc[c.src] \in 1 .. Len(proc.ops) + 1
      /\ RecvAt(proc) \subseteq 1 .. Len(proc.ops) /\ RunAt(proc) \in SUBSET (1 .. Len(proc.ops))
      /\ \A i \in RecvAt(proc), k \in 1 .. Len(proc.ops) : k \notin RecvAt(proc) => i < k
      /\ RecvAt(proc) \cap RunAt(proc) = {}
  BY <1>1, <1>5, Running, Phases
<1>7. CASE RunAt(proc) = {}
  <2>1. RecvAt(proc) = {}
    BY <1>1, <1>2, <1>3, <1>4, <1>5, <1>7, Running DEF WellBuilt, OnlyForwards, Procs, P
  <2>2. QED
    BY <1>3, <1>5, <2>1 DEF HasAll
<1>8. CASE RunAt(proc) # {}
  <2>1. IsFiniteSet(RunAt(proc)) /\ RunAt(proc) \in SUBSET Int
    <3>1. IsFiniteSet(1 .. Len(proc.ops))
      BY <1>6, FS_Interval
    <3>2. IsFiniteSet(RunAt(proc))
      BY <1>6, <3>1, FS_Subset
    <3>3. QED
      BY <1>6, <3>2
  <2>2. Min(RunAt(proc)) \in RunAt(proc)
    BY <1>8, <2>1, MinMax
  <2>3. pc[c.src] >= Min(RunAt(proc))
    BY <1>3, <1>8 DEF FirstWrite
  <2>4. \A i \in RecvAt(proc) : pc[c.src] > i
    BY <1>6, <2>2, <2>3
  <2>5. QED
    BY <1>3, <1>5, <2>4 DEF HasAll
<1>9. QED
  BY <1>7, <1>8

\* When every consumer of an object has begun to send, none will read it again.
LEMMA NotReadAgain ==
  ASSUME IInv, NEW r \in DOMAIN Members(prog), NEW c \in Members(prog)[r],
         \A d \in Members(prog)[r] : \E j \in SendAt(P(d.dst)) : pc[d.dst] > j
  PROVE  ~(pc[c.dst] <= LastRead(P(c.dst), c.dp))
<1>1. TypeOK /\ SentFirst
  BY DEF IInv
<1>2. Members(prog)[r] \subseteq prog.conns
  BY DEF Members
<1>3. PICK q \in Procs : q = c.dst
  BY <1>1, <1>2, Running
<1>4. PICK proc : proc = P(q)
  OBVIOUS
<1>5. /\ Len(proc.ops) \in Nat /\ pc[q] \in 1 .. Len(proc.ops) + 1
      /\ DOMAIN proc.ops = 1 .. Len(proc.ops) /\ SendAt(proc) \subseteq 1 .. Len(proc.ops)
      /\ \A i \in SendAt(proc), k \in 1 .. Len(proc.ops) : k \notin SendAt(proc) => k < i
      /\ \A i, j \in SendAt(proc) : proc.ops[i].port = proc.ops[j].port => i = j
      /\ UsesInputs(proc) /\ OnlyForwards(prog, q)
  <2>1. /\ InPhases(proc) /\ UsesInputs(proc) /\ OnlyForwards(prog, q)
        /\ pc[q] \in 1 .. Len(proc.ops) + 1
    BY <1>1, <1>3, <1>4, Running DEF WellBuilt, Procs, P
  <2>2. \A i, j \in SendAt(proc) : proc.ops[i].port = proc.ops[j].port => i = j
    BY <2>1 DEF InPhases
  <2>3. QED
    BY <2>1, <2>2, Phases
<1>6. PICK j \in SendAt(proc) : pc[q] > j
  BY <1>3, <1>4
<1>7. ~proc.keeps
  BY <1>5, <1>6 DEF UsesInputs
<1>8. PICK k \in RecvAt(proc) : k = CHOOSE i \in RecvAt(proc) : proc.ops[i].port = c.dp
  BY <1>1, <1>2, <1>3, <1>4, Running DEF WellBuilt, Plugged, P
<1> DEFINE uses == {i \in DOMAIN proc.ops : Uses(proc.ops[i], proc.ops[k].buf)}
<1>9. uses # {} /\ uses \in SUBSET Int /\ IsFiniteSet(uses)
  <2>1. uses # {}
    BY <1>5, <1>7, <1>8 DEF UsesInputs
  <2>2. uses \in SUBSET (1 .. Len(proc.ops))
    BY <1>5
  <2> HIDE DEF uses
  <2>3. IsFiniteSet(1 .. Len(proc.ops))
    BY <1>5, FS_Interval
  <2>4. IsFiniteSet(uses)
    BY <2>2, <2>3, FS_Subset
  <2>5. QED
    BY <1>5, <2>1, <2>2, <2>4
<1>10. PICK l \in uses : l = LastRead(proc, c.dp)
  <2>1. LastRead(proc, c.dp) = Max(uses)
    BY <1>7, <1>8 DEF LastRead
  <2> HIDE DEF uses
  <2>2. QED
    BY <1>9, <2>1, MinMax
<1>11. l \in 1 .. Len(proc.ops) /\ Uses(proc.ops[l], proc.ops[k].buf)
  BY <1>5, <1>10
<1>12. CASE l \notin SendAt(proc)
  BY <1>3, <1>4, <1>5, <1>6, <1>10, <1>11, <1>12
<1>13. CASE l \in SendAt(proc)
  <2>1. proc.ops[l].do = "send"
    BY <1>13 DEF SendAt
  <2>2. proc.ops[l].buf = proc.ops[k].buf
    BY <1>11, <2>1 DEF Uses
  <2>3. PICK d \in prog.conns : d.src = q /\ d.sp = proc.ops[l].port
    BY <1>1, <1>3, <1>4, <1>13, Running DEF WellBuilt, Plugged, Procs, P
  <2>4. Forwards(prog, <<q, proc.ops[l].port>>)
    BY <1>4, <1>5, <1>13, <2>2 DEF OnlyForwards, P
  <2>5. d \in Members(prog)[r]
    BY <1>1, <1>3, <2>3, <2>4, Running, ForwardedMember
  <2>6. PICK i \in RecvAt(P(d.dst)) : P(d.dst).ops[i].port = d.dp
    BY <1>1, Running DEF WellBuilt, Plugged, P
  <2>7. PICK m \in SendAt(P(d.dst)) : pc[d.dst] > m
    BY <2>5
  <2>8. pc[d.dst] > i
    <3>1. d.dst \in Procs
      BY <1>1, Running
    <3>2. /\ Len(P(d.dst).ops) \in Nat /\ pc[d.dst] \in 1 .. Len(P(d.dst).ops) + 1
          /\ i \in 1 .. Len(P(d.dst).ops) /\ m \in 1 .. Len(P(d.dst).ops)
          /\ m \notin RecvAt(P(d.dst)) /\ (m \notin RecvAt(P(d.dst)) => i < m)
      BY <1>1, <3>1, Running, Phases
    <3>3. QED
      BY <2>7, <3>2
  <2>9. PICK n \in SendAt(proc) : pc[q] > n /\ proc.ops[n].port = d.sp
    BY <1>1, <1>4, <2>3, <2>6, <2>8 DEF SentFirst, HasSent
  <2>10. n = l
    BY <1>5, <1>13, <2>3, <2>9
  <2>11. QED
    BY <1>3, <1>4, <1>5, <1>10, <1>11, <2>9, <2>10
<1>14. QED
  BY <1>12, <1>13

\* An object whose producer comes after every consumer of another is not in
\* use together with that one.
LEMMA NotTogether ==
  ASSUME IInv, NEW r \in DOMAIN Members(prog), NEW s \in DOMAIN Members(prog),
         \A d \in Members(prog)[s] : r[1] \in Reachability(prog)[d.dst],
         InUse(Lifetime(prog, r)), InUse(Lifetime(prog, s))
  PROVE  FALSE
<1>1. TypeOK /\ InOrder
  BY DEF IInv
<1>2. pc[r[1]] >= FirstWrite(P(r[1]))
  BY DEF InUse, Lifetime, P
<1>3. r[1] \in Procs /\ HasAll(r[1])
  BY <1>2, WritesAfterInputs
<1>4. ASSUME NEW d \in Members(prog)[s] PROVE \E j \in SendAt(P(d.dst)) : pc[d.dst] > j
  <2>1. d.dst \in Procs
    BY <1>1, Running DEF Members
  <2>2. QED
    BY <1>1, <1>3, <2>1 DEF InOrder
<1>5. PICK c \in Members(prog)[s] : pc[c.dst] <= LastRead(P(c.dst), c.dp)
  BY DEF InUse, Lifetime, P
<1>6. ~(pc[c.dst] <= LastRead(P(c.dst), c.dp))
  BY <1>4, NotReadAgain
<1>7. QED
  BY <1>5, <1>6

\* Whatever the program, and however its processes interleave, two messages
\* that first fit has put in the same bytes are never in use at once.
THEOREM StorageKeptHolds == Spec => []StorageKept
<1>1. IInv => StorageKept
  <2> SUFFICES ASSUME IInv, NEW pair \in Overlaps[prog], InUse(pair[1]), InUse(pair[2]) PROVE FALSE
    BY DEF StorageKept
  <2>1. TypeOK /\ prog \in Programs
    BY DEF IInv, TypeOK
  <2>2. PICK rs \in SharedPairs(prog, "up") \cup SharedPairs(prog, "down") :
          pair = <<Lifetime(prog, rs[1]), Lifetime(prog, rs[2])>>
    BY <2>1 DEF Overlaps
  <2>3. Disjoint(Reachability(prog), EdgeObjects(prog)[rs[1]], EdgeObjects(prog)[rs[2]])
    BY <2>1, <2>2, Running, PlanSound
  <2>4. rs[1] \in DOMAIN Members(prog) /\ rs[2] \in DOMAIN Members(prog)
    BY <2>2 DEF SharedPairs, EdgeObjects
  <2>5. \A r \in DOMAIN Members(prog) : /\ EdgeObjects(prog)[r].producer = r[1]
                                        /\ \A d \in Members(prog)[r] :
                                             d.dst \in EdgeObjects(prog)[r].consumers
    BY DEF EdgeObjects
  <2>6. \/ \A d \in Members(prog)[rs[2]] : rs[1][1] \in Reachability(prog)[d.dst]
        \/ \A d \in Members(prog)[rs[1]] : rs[2][1] \in Reachability(prog)[d.dst]
    BY <2>3, <2>4, <2>5 DEF Disjoint
  <2>7. InUse(Lifetime(prog, rs[1])) /\ InUse(Lifetime(prog, rs[2]))
    BY <2>2
  <2>8. QED
    BY <2>4, <2>6, <2>7, NotTogether
<1>2. QED
  BY <1>1, Inductive, PTL

-----------------------------------------------------------------------------
(* No circle of waits.                                                     *)

\* An operation on a connection is a send at its source or a receive at its
\* destination, and there is one at each end.
LEMMA BothEnds ==
  ASSUME TypeOK, Paired(prog), NEW c \in prog.conns
  PROVE  /\ \E i \in SendAt(P(c.src)) : OpsOn(prog, c.src, c) = {i} /\ P(c.src).ops[i].port = c.sp
         /\ \E i \in RecvAt(P(c.dst)) : OpsOn(prog, c.dst, c) = {i} /\ P(c.dst).ops[i].port = c.dp
<1>1. c.src \in Procs /\ c.dst \in Procs /\ c.src # c.dst
  BY Running
<1>2. /\ OpsOn(prog, c.src, c) = {i \in SendAt(P(c.src)) : P(c.src).ops[i].port = c.sp}
      /\ OpsOn(prog, c.dst, c) = {i \in RecvAt(P(c.dst)) : P(c.dst).ops[i].port = c.dp}
  BY <1>1 DEF OpsOn, P
<1>3. PICK i \in SendAt(P(c.src)) : P(c.src).ops[i].port = c.sp
  BY Running DEF WellBuilt, Plugged, P
<1>4. PICK j \in RecvAt(P(c.dst)) : P(c.dst).ops[j].port = c.dp
  BY Running DEF WellBuilt, Plugged, P
<1>5. \A k \in SendAt(P(c.src)) : P(c.src).ops[k].port = c.sp => k = i
  BY <1>1, <1>3, Running, Once
<1>6. \A k \in RecvAt(P(c.dst)) : P(c.dst).ops[k].port = c.dp => k = j
  BY <1>1, <1>4 DEF Paired, Procs, P
<1>7. OpsOn(prog, c.src, c) = {i} /\ OpsOn(prog, c.dst, c) = {j}
  BY <1>2, <1>3, <1>4, <1>5, <1>6
<1>8. QED
  BY <1>3, <1>4, <1>7

\* A process that waits is at an operation on a connection of its own.
LEMMA AtConnection ==
  ASSUME TypeOK, Paired(prog), NEW p \in Procs, ~Stopped(p), Now(p).do \notin {"run", "check"}
  PROVE  \E c \in prog.conns : p \in {c.src, c.dst} /\ pc[p] \in OpsOn(prog, p, c)
<1>1. InPhases(P(p)) /\ pc[p] \in DOMAIN P(p).ops /\ Now(p) = P(p).ops[pc[p]]
  <2>1. /\ InPhases(P(p)) /\ pc[p] \in 1 .. Len(P(p).ops) + 1 /\ Len(P(p).ops) \in Nat
        /\ DOMAIN P(p).ops = 1 .. Len(P(p).ops)
    BY Running, Phases
  <2>2. QED
    BY <2>1 DEF Stopped, Now
<1>2. pc[p] \in RecvAt(P(p)) \/ pc[p] \in SendAt(P(p))
  BY <1>1 DEF InPhases, RecvAt, SendAt
<1>3. CASE pc[p] \in RecvAt(P(p))
  <2>1. PICK c \in prog.conns : pc[p] \in OpsOn(prog, p, c)
    BY <1>3 DEF Paired, Procs, P
  <2>2. QED
    BY <2>1 DEF OpsOn
<1>4. CASE pc[p] \in SendAt(P(p))
  <2>1. PICK c \in prog.conns : c.src = p /\ c.sp = P(p).ops[pc[p]].port
    BY <1>4, Running DEF WellBuilt, Plugged, Procs, P
  <2>2. QED
    BY <1>4, <2>1 DEF OpsOn, P
<1>5. QED
  BY <1>2, <1>3, <1>4

\* Where a network waits in one order, no send or receive is possible, and
\* each connection has been passed at both ends or at none, all have stopped.
LEMMA NoCircle ==
  ASSUME TypeOK, OneOrder(prog), ~GoesOn,
         \A c \in prog.conns : Passed(c.src, c) <=> Passed(c.dst, c)
  PROVE  \A p \in Procs : Stopped(p)
<1> DEFINE later == Later(prog)
           after == Reachability(later)
           Waits(p, c) == p \in {c.src, c.dst} /\ pc[p] \in OpsOn(prog, p, c)
           C == {c \in prog.conns : \E p \in Procs : Waits(p, c)}
           R == {e \in C \X C : e[2] \in after[e[1]]}
<1>1. Paired(prog) /\ WellBuilt(prog) /\ IsFiniteSet(prog.conns)
  BY Running DEF OneOrder, WellFormed
<1>2. DOMAIN later.kind = prog.conns
  BY DEF Later
<1>3. \A e \in later.conns : {e.src, e.dst} \subseteq prog.conns
  BY DEF Later
<1>4. \A c \in prog.conns : c \notin after[c]
  BY DEF OneOrder
<1>5. \A c, d \in prog.conns : \A p \in {c.src, c.dst} :
        \A i \in OpsOn(prog, p, c), j \in OpsOn(prog, p, d) : i < j => d \in after[c]
  <2> TAKE c, d \in prog.conns
  <2> TAKE p \in {c.src, c.dst}
  <2> SUFFICES ASSUME NEW i \in OpsOn(prog, p, c), NEW j \in OpsOn(prog, p, d), i < j
               PROVE  d \in after[c]
    OBVIOUS
  <2>1. [src |-> c, dst |-> d] \in later.conns
    <3> DEFINE e == <<c, d>>
    <3>1. e \in prog.conns \X prog.conns /\ e[1] = c /\ e[2] = d
      OBVIOUS
    <3>2. \E q \in {e[1].src, e[1].dst} :
            \E k \in OpsOn(prog, q, e[1]), l \in OpsOn(prog, q, e[2]) : k < l
      BY <3>1
    <3> HIDE DEF e
    <3>3. [src |-> e[1], dst |-> e[2]] \in later.conns
      BY <3>1, <3>2 DEF Later
    <3>4. QED
      BY <3>1, <3>3
  <2> HIDE DEF later
  <2>2. QED
    BY <1>1, <1>2, <1>3, <2>1, ReachClosed
<1>6. \A c, d, e \in prog.conns : d \in after[c] /\ e \in after[d] => e \in after[c]
  <2> HIDE DEF later
  <2>1. QED
    BY <1>1, <1>2, <1>3, ReachTransitive
<1> HIDE DEF later, after
<1> SUFFICES ASSUME C # {} PROVE FALSE
  BY <1>1, AtConnection DEF GoesOn
<1>7. IsFiniteSet(C) /\ C \subseteq prog.conns
  BY <1>1, FS_Subset
<1>8. PICK m \in C : \A d \in C : <<d, m>> \notin R
  <2>1. \A c \in C : <<c, c>> \notin R
    BY <1>4, <1>7
  <2>2. \A c, d, e \in C : <<c, d>> \in R /\ <<d, e>> \in R => <<c, e>> \in R
    BY <1>6, <1>7
  <2> HIDE DEF C, R
  <2>3. QED
    BY <1>7, <2>1, <2>2, Minimal
<1>9. PICK p \in Procs : Waits(p, m)
  OBVIOUS
<1>10. PICK i \in SendAt(P(m.src)) : OpsOn(prog, m.src, m) = {i} /\ P(m.src).ops[i].port = m.sp
  BY <1>1, BothEnds
<1>11. PICK j \in RecvAt(P(m.dst)) : OpsOn(prog, m.dst, m) = {j} /\ P(m.dst).ops[j].port = m.dp
  BY <1>1, BothEnds
<1>12. /\ m.src \in Procs /\ m.dst \in Procs
       /\ pc[m.src] \in 1 .. Len(P(m.src).ops) + 1 /\ pc[m.dst] \in 1 .. Len(P(m.dst).ops) + 1
       /\ i \in 1 .. Len(P(m.src).ops) /\ j \in 1 .. Len(P(m.dst).ops)
       /\ Len(P(m.src).ops) \in Nat /\ Len(P(m.dst).ops) \in Nat
  BY Running, Phases
<1>13. pc[m.src] <= i /\ pc[m.dst] <= j
  <2>1. Passed(m.src, m) <=> pc[m.src] > i
    BY <1>10 DEF Passed
  <2>2. Passed(m.dst, m) <=> pc[m.dst] > j
    BY <1>11 DEF Passed
  <2>3. pc[m.src] = i \/ pc[m.dst] = j
    BY <1>9, <1>10, <1>11
  <2>4. QED
    BY <1>12, <2>1, <2>2, <2>3
<1>14. ~(pc[m.src] = i /\ pc[m.dst] = j)
  <2> SUFFICES ASSUME pc[m.src] = i, pc[m.dst] = j PROVE Ready(m)
    BY DEF GoesOn
  <2>1. Now(m.src) = P(m.src).ops[i] /\ Now(m.dst) = P(m.dst).ops[j]
    <3>1. ~(i > Len(P(m.src).ops)) /\ ~(j > Len(P(m.dst).ops))
      BY <1>12
    <3>2. ~Stopped(m.src) /\ ~Stopped(m.dst)
      BY <3>1 DEF Stopped
    <3>3. QED
      BY <3>2 DEF Now
  <2>2. QED
    BY <1>10, <1>11, <2>1 DEF Ready, SendAt, RecvAt
<1>15. ASSUME NEW q \in {m.src, m.dst}, NEW k \in OpsOn(prog, q, m), pc[q] < k PROVE FALSE
  <2>1. q \in Procs /\ ~Stopped(q)
    BY <1>10, <1>11, <1>12, <1>15 DEF Stopped
  <2>2. PICK d \in prog.conns : q \in {d.src, d.dst} /\ pc[q] \in OpsOn(prog, q, d)
    BY <1>1, <2>1, AtConnection DEF GoesOn
  <2>3. d \in C
    BY <2>1, <2>2
  <2>4. m \in after[d]
    BY <1>5, <1>15, <2>2
  <2>5. QED
    BY <1>8, <2>3, <2>4
<1>16. pc[m.src] < i \/ pc[m.dst] < j
  BY <1>12, <1>13, <1>14
<1>17. QED
  BY <1>10, <1>11, <1>15, <1>16

\* Who passes a send passes it together with the receiver, or gives up.
LEMMA PassSend ==
  ASSUME TypeOK, [Next]_vars, Paired(prog), NEW c \in prog.conns,
         NEW i \in OpsOn(prog, c.src, c), ~(pc[c.src] > i), pc'[c.src] > i
  PROVE  \/ \E j \in OpsOn(prog, c.dst, c) : pc'[c.dst] > j
         \/ c.src \in failed' /\ (P(c.src).quiet \/ "fail" \in verdict')
<1>1. /\ c.src \in Procs /\ c.dst \in Procs /\ c.src # c.dst
      /\ \A d \in prog.conns : d.src \in Procs /\ d.dst \in Procs /\ d.src # d.dst
  BY Running
<1>2. pc \in [Procs -> Nat]
  BY DEF TypeOK
<1>3. i \in SendAt(P(c.src)) /\ P(c.src).ops[i].port = c.sp /\ P(c.src).ops[i].do = "send"
  BY <1>1 DEF OpsOn, P, SendAt
<1>4. i \in 1 .. Len(P(c.src).ops) /\ Len(P(c.src).ops) \in Nat
  BY <1>1, <1>3, Running, Phases
<1>5. CASE \E d \in prog.conns : Meet(d)
  <2>1. PICK d \in prog.conns : Meet(d)
    BY <1>5
  <2>2. /\ Now(d.src).do = "send" /\ Now(d.src).port = d.sp
        /\ Now(d.dst).do = "recv" /\ Now(d.dst).port = d.dp
    BY <2>1 DEF Meet, Ready
  <2>3. /\ pc[d.src] \in DOMAIN P(d.src).ops /\ Now(d.src) = P(d.src).ops[pc[d.src]]
        /\ pc[d.dst] \in DOMAIN P(d.dst).ops /\ Now(d.dst) = P(d.dst).ops[pc[d.dst]]
    BY <1>1, <2>2, AtOp
  <2>4. /\ pc'[d.src] = pc[d.src] + 1 /\ pc'[d.dst] = pc[d.dst] + 1
        /\ \A p \in Procs : p # d.src /\ p # d.dst => pc'[p] = pc[p]
    BY <1>1, <1>2, <2>1 DEF Meet
  <2>5. pc[c.src] = i /\ c.src \in {d.src, d.dst}
    BY <1>1, <1>2, <1>4, <2>4
  <2>6. c.src = d.src
    BY <1>3, <2>2, <2>3, <2>5
  <2>7. c = d
    BY <1>3, <2>2, <2>3, <2>5, <2>6 DEF Paired
  <2>8. pc[c.dst] \in OpsOn(prog, c.dst, c)
    BY <2>2, <2>3, <2>7 DEF OpsOn, RecvAt, P
  <2>9. pc'[c.dst] > pc[c.dst]
    <3>1. pc[c.dst] \in Nat
      BY <1>1, <1>2
    <3>2. QED
      BY <2>4, <2>7, <3>1
  <2>10. QED
    BY <2>8, <2>9
<1>6. CASE \E q \in Procs : Calls(q)
  <2>1. PICK q \in Procs : Calls(q)
    BY <1>6
  <2>2. /\ Now(q).do \in {"run", "check"}
        /\ pc' = [pc EXCEPT ![q] = pc[q] + 1] \/ pc' = [pc EXCEPT ![q] = Len(P(q).ops) + 1]
    BY <2>1, CallMoves
  <2>3. pc[q] \in DOMAIN P(q).ops /\ Now(q) = P(q).ops[pc[q]]
    BY <2>2, AtOp
  <2>4. q = c.src /\ pc[q] # i
    <3>1. q = c.src
      BY <1>1, <1>2, <2>2
    <3>2. QED
      BY <1>3, <2>2, <2>3, <3>1
  <2>5. pc'[q] # pc[q] + 1
    BY <1>1, <1>2, <1>4, <2>4
  <2>6. CASE Completed(q)
    BY <1>2, <2>5, <2>6 DEF Completed, Computes
  <2>7. CASE Quits(q)
    BY <2>4, <2>7 DEF Quits
  <2>8. CASE CheckAll(q)
    <3>1. pc' = [pc EXCEPT ![q] = Len(P(q).ops) + 1] /\ Now(q).do = "check"
      BY <2>8 DEF CheckAll, Stop
    <3>2. pc[q] = Len(P(q).ops)
      BY <1>1, <2>3, <2>4, <3>1, Running, Once
    <3>3. QED
      BY <1>2, <2>5, <3>1, <3>2
  <2>9. QED
    BY <2>1, <2>6, <2>7, <2>8, CallKinds
<1>7. CASE UNCHANGED vars
  BY <1>7 DEF vars
<1>8. QED
  BY <1>5, <1>6, <1>7 DEF Next, Done, Calls

\* What has been reported stays reported, and who has given up has done so.
LEMMA ReportsStay == [Next]_vars => verdict \subseteq verdict' /\ failed \subseteq failed'
<1> SUFFICES ASSUME [Next]_vars PROVE verdict \subseteq verdict' /\ failed \subseteq failed'
  OBVIOUS
<1>1. CASE \E c \in prog.conns : Meet(c)
  BY <1>1 DEF Meet
<1>2. CASE \E q \in Procs : Calls(q)
  BY <1>2, CallKinds DEF Completed, Computes, Quits, CheckAll
<1>3. CASE UNCHANGED vars
  BY <1>3 DEF vars
<1>4. QED
  BY <1>1, <1>2, <1>3 DEF Next, Done, Calls

\* SentMeets is kept in a network of one order.
LEMMA SentMeetsStep ==
  ASSUME TypeOK, SentMeets, Paired(prog), [Next]_vars
  PROVE  SentMeets'
<1>1. prog' = prog /\ \A p \in Procs : pc'[p] = pc[p] \/ Moves(p)
  BY StepMoves
<1> SUFFICES ASSUME NEW c \in prog.conns,
                    NEW i \in OpsOn(prog, c.src, c), pc'[c.src] > i,
                    \A j \in OpsOn(prog, c.dst, c) : ~(pc'[c.dst] > j)
             PROVE  c.src \in failed' /\ (P(c.src).quiet \/ "fail" \in verdict')
  BY <1>1 DEF SentMeets, Passed, P
<1>2. c.src \in Procs /\ c.dst \in Procs
  BY Running
<1>3. CASE ~(pc[c.src] > i)
  BY <1>3, PassSend
<1>4. CASE pc[c.src] > i
  <2>1. ~Passed(c.dst, c)
    <3>1. PICK j \in RecvAt(P(c.dst)) : OpsOn(prog, c.dst, c) = {j}
      BY BothEnds
    <3>2. /\ pc[c.dst] \in 1 .. Len(P(c.dst).ops) + 1 /\ Len(P(c.dst).ops) \in Nat
          /\ j \in 1 .. Len(P(c.dst).ops) /\ RecvAt(P(c.dst)) \subseteq 1 .. Len(P(c.dst).ops)
      BY <1>2, Running, Phases
    <3>3. QED
      BY <1>1, <1>2, <3>1, <3>2 DEF Moves, Passed
  <2>2. c.src \in failed /\ (P(c.src).quiet \/ "fail" \in verdict)
    BY <1>4, <2>1 DEF SentMeets, Passed
  <2>3. QED
    BY <2>2, ReportsStay
<1>5. QED
  BY <1>3, <1>4

\* A network whose connections can be put in one order that suits all its
\* processes never waits in a circle: when nothing can happen any more, all
\* have come to their end, or a stage has given up and, if it is not a quiet
\* one, has reported it.
THEOREM NeverStuckHolds == Spec => [](InOneOrder => NeverStuck)
<1> DEFINE Inv == IInv /\ (InOneOrder => SentMeets)
<1>1. ASSUME TypeOK PROVE InOneOrder <=> OneOrder(prog)
  BY <1>1 DEF InOneOrder, Ordered, TypeOK
<1>2. Init => Inv
  <2> SUFFICES ASSUME Init, OneOrder(prog) PROVE SentMeets
    BY <1>1, InitIInv DEF IInv
  <2>1. TypeOK /\ Paired(prog)
    BY InitIInv DEF IInv, OneOrder
  <2>2. ASSUME NEW c \in prog.conns PROVE ~Passed(c.src, c)
    <3>1. PICK i \in SendAt(P(c.src)) : OpsOn(prog, c.src, c) = {i}
      BY <2>1, BothEnds
    <3>2. c.src \in Procs /\ i \in 1 .. Len(P(c.src).ops) /\ Len(P(c.src).ops) \in Nat
      BY <2>1, Running, Phases
    <3>3. pc[c.src] = 1
      BY <3>2 DEF Init
    <3>4. QED
      BY <3>1, <3>2, <3>3 DEF Passed
  <2>3. QED
    BY <2>2 DEF SentMeets
<1>3. Inv /\ [Next]_vars => Inv'
  <2> SUFFICES ASSUME Inv, [Next]_vars PROVE Inv'
    OBVIOUS
  <2>1. TypeOK /\ IInv' /\ TypeOK'
    BY TypeStep, SentFirstStep, InOrderStep DEF IInv
  <2>2. InOneOrder' <=> InOneOrder
    BY <2>1, StepMoves DEF InOneOrder, Ordered
  <2>3. InOneOrder => Paired(prog)
    BY <1>1, <2>1 DEF OneOrder
  <2>4. QED
    BY <2>1, <2>2, <2>3, SentMeetsStep
<1>4. Inv => (InOneOrder => NeverStuck)
  <2> SUFFICES ASSUME Inv, InOneOrder, ~GoesOn, "fail" \notin verdict,
                      \A p \in failed : ~P(p).quiet
               PROVE  \A p \in Procs : Stopped(p)
    BY DEF NeverStuck
  <2>1. TypeOK /\ SentFirst /\ SentMeets /\ OneOrder(prog)
    BY <1>1 DEF IInv
  <2>2. ASSUME NEW c \in prog.conns, Passed(c.src, c) PROVE Passed(c.dst, c)
    BY <2>1, <2>2 DEF SentMeets
  <2>3. ASSUME NEW c \in prog.conns, Passed(c.dst, c) PROVE Passed(c.src, c)
    <3>1. PICK j \in RecvAt(P(c.dst)) : OpsOn(prog, c.dst, c) = {j} /\ P(c.dst).ops[j].port = c.dp
      BY <2>1, BothEnds DEF OneOrder
    <3>2. HasSent(c.src, c.sp)
      BY <2>1, <2>3, <3>1 DEF SentFirst, Passed
    <3>3. QED
      BY <3>2 DEF HasSent, Passed, OpsOn, P
  <2>4. QED
    BY <2>1, <2>2, <2>3, NoCircle
<1>5. QED
  BY <1>2, <1>3, <1>4, PTL DEF Spec

-----------------------------------------------------------------------------
(* The equations of a program.                                             *)

\* A connection carries what its one send sends.
LEMMA OnlySend ==
  ASSUME TypeOK, NEW c \in prog.conns,
         NEW i \in SendAt(P(c.src)), P(c.src).ops[i].port = c.sp
  PROVE  SendOn(prog, c) = i
<1>1. c.src \in Procs
  BY Running
<1>2. \A k \in SendAt(P(c.src)) : P(c.src).ops[k].port = c.sp => k = i
  BY <1>1, Running, Once
<1>3. QED
  BY <1>2 DEF SendOn, Ops, P

\* The equation of each operation of a process.
LEMMA Equations ==
  ASSUME TypeOK, NEW held, Solves(prog, held), NEW p \in Procs, NEW i \in DOMAIN P(p).ops
  PROVE  /\ P(p).ops[i].do = "send" => held[p][i + 1] = Kept(P(p), i, held[p][i])
         /\ P(p).ops[i].do = "check" =>
              held[p][i + 1] = IF P(p).keeps THEN held[p][i] ELSE Kept(P(p), i, held[p][i])
         /\ P(p).ops[i].do = "run" =>
              \A after \in RunSteps(prog.net, P(p).stage, StageFlaws[P(p).stage], held[p][i]) :
                held[p][i + 1] = Kept(P(p), i, after)
         /\ P(p).ops[i].do = "recv" =>
              \A c \in prog.conns : c.dst = p /\ c.dp = P(p).ops[i].port =>
                held[p][i + 1] = (P(p).ops[i].buf :> Carried(prog, held, c)) @@ held[p][i]
BY DEF Solves, Ops, P, Procs

\* A process goes on to what the equations say, or it gives up.
GoesTo(held, p) ==
  /\ ~Stopped(p) /\ mem'[p] = held[p][pc[p] + 1]
  /\ pc'[p] = pc[p] + 1 \/ pc'[p] = Len(P(p).ops) + 1

GivesUpNow(p) ==
  /\ ~Stopped(p) /\ Now(p).do = "run" /\ p \in failed'
  /\ mem'[p] = mem[p] /\ pc'[p] = Len(P(p).ops) + 1

\* A message that passes is the one that the equations say.
LEMMA MeetFollows ==
  ASSUME TypeOK, NEW held, Solves(prog, held), Follows(held), NEW c \in prog.conns, Meet(c)
  PROVE  \A p \in Procs : \/ pc'[p] = pc[p] /\ mem'[p] = mem[p]
                          \/ /\ GoesTo(held, p) /\ pc'[p] = pc[p] + 1
                             /\ pc[p] \in SendAt(P(p)) \cup RecvAt(P(p))
<1>1. c.src \in Procs /\ c.dst \in Procs /\ c.src # c.dst
  BY Running
<1>2. /\ Now(c.src).do = "send" /\ Now(c.src).port = c.sp
      /\ Now(c.dst).do = "recv" /\ Now(c.dst).port = c.dp
  BY DEF Meet, Ready
<1> DEFINE i == pc[c.src]
           j == pc[c.dst]
<1>3. /\ i \in DOMAIN P(c.src).ops /\ Now(c.src) = P(c.src).ops[i]
      /\ j \in DOMAIN P(c.dst).ops /\ Now(c.dst) = P(c.dst).ops[j]
  BY <1>1, <1>2, AtOp
<1>4. i \in SendAt(P(c.src)) /\ j \in RecvAt(P(c.dst))
  BY <1>2, <1>3 DEF SendAt, RecvAt
<1>5. ~Stopped(c.src) /\ ~Stopped(c.dst)
  BY <1>2 DEF Now, Op
<1>6. mem[c.src] = held[c.src][i] /\ mem[c.dst] = held[c.dst][j]
  BY <1>1, <1>5 DEF Follows
<1>7. /\ pc' = [pc EXCEPT ![c.src] = @ + 1, ![c.dst] = @ + 1]
      /\ mem' = [mem EXCEPT ![c.src] = Kept(P(c.src), i, @),
                            ![c.dst] = (Now(c.dst).buf :> mem[c.src][Now(c.src).buf]) @@ @]
  BY DEF Meet
<1>8. pc \in [Procs -> Nat] /\ DOMAIN mem = Procs
  BY DEF TypeOK
<1>9. GoesTo(held, c.src) /\ pc'[c.src] = i + 1
  <2>1. mem'[c.src] = Kept(P(c.src), i, held[c.src][i])
    BY <1>1, <1>6, <1>7, <1>8
  <2>2. mem'[c.src] = held[c.src][i + 1]
    BY <1>1, <1>2, <1>3, <2>1, Equations
  <2>3. pc'[c.src] = i + 1
    BY <1>1, <1>7, <1>8
  <2>4. QED
    BY <1>5, <2>2, <2>3 DEF GoesTo
<1>10. GoesTo(held, c.dst) /\ pc'[c.dst] = j + 1
  <2>1. SendOn(prog, c) = i
    BY <1>2, <1>3, <1>4, OnlySend
  <2>2. Carried(prog, held, c) = mem[c.src][Now(c.src).buf]
    BY <1>3, <1>6, <2>1 DEF Carried, Ops, P
  <2>3. mem'[c.dst] = (P(c.dst).ops[j].buf :> Carried(prog, held, c)) @@ held[c.dst][j]
    BY <1>1, <1>3, <1>6, <1>7, <1>8, <2>2
  <2>4. mem'[c.dst] = held[c.dst][j + 1]
    BY <1>1, <1>2, <1>3, <2>3, Equations
  <2>5. pc'[c.dst] = j + 1
    BY <1>1, <1>7, <1>8
  <2>6. QED
    BY <1>5, <2>4, <2>5 DEF GoesTo
<1>11. \A p \in Procs : p # c.src /\ p # c.dst => pc'[p] = pc[p] /\ mem'[p] = mem[p]
  BY <1>7, <1>8
<1>12. QED
  BY <1>4, <1>9, <1>10, <1>11

\* What a stage or a check leaves behind is what the equations say.
LEMMA ComputeFollows ==
  ASSUME TypeOK, NEW held, Solves(prog, held), Follows(held),
         NEW q \in Procs, Calls(q)
  PROVE  /\ \A p \in Procs : p # q => pc'[p] = pc[p] /\ mem'[p] = mem[p]
         /\ Completed(q) \/ CheckAll(q) => GoesTo(held, q)
         /\ Quits(q) => GivesUpNow(q)
<1>1. Now(q).do \in {"run", "check"}
  BY CallMoves
<1>2. pc[q] \in DOMAIN P(q).ops /\ Now(q) = P(q).ops[pc[q]] /\ ~Stopped(q)
  BY <1>1, AtOp DEF Now, Op
<1>3. mem[q] = held[q][pc[q]]
  BY <1>2 DEF Follows
<1>4. pc \in [Procs -> Nat] /\ DOMAIN mem = Procs
  BY DEF TypeOK
<1>5. ASSUME Quits(q) PROVE GivesUpNow(q)
  BY <1>2, <1>4, <1>5 DEF GivesUpNow, Quits
<1>6. ASSUME Completed(q) PROVE GoesTo(held, q)
  <2>1. /\ pc' = [pc EXCEPT ![q] = @ + 1] /\ Now(q).do = "run"
        /\ \E after \in RunSteps(prog.net, P(q).stage, StageFlaws[P(q).stage], mem[q]) :
             mem' = [mem EXCEPT ![q] = Kept(P(q), pc[q], after)]
    BY <1>6 DEF Completed, Computes
  <2>2. PICK after \in RunSteps(prog.net, P(q).stage, StageFlaws[P(q).stage], mem[q]) :
          mem' = [mem EXCEPT ![q] = Kept(P(q), pc[q], after)]
    BY <2>1
  <2>3. Kept(P(q), pc[q], after) = held[q][pc[q] + 1]
    BY <1>2, <1>3, <2>1, <2>2, Equations
  <2>4. QED
    BY <1>2, <1>4, <2>1, <2>2, <2>3 DEF GoesTo
<1>7. ASSUME CheckAll(q) PROVE GoesTo(held, q)
  <2>1. /\ pc' = [pc EXCEPT ![q] = Len(P(q).ops) + 1] /\ Now(q).do = "check"
        /\ mem' = [mem EXCEPT ![q] = IF P(q).keeps THEN @ ELSE Kept(P(q), pc[q], @)]
    BY <1>7 DEF CheckAll, Stop
  <2>2. mem'[q] = IF P(q).keeps THEN mem[q] ELSE Kept(P(q), pc[q], mem[q])
    BY <1>4, <2>1
  <2>3. mem'[q] = held[q][pc[q] + 1]
    BY <1>2, <1>3, <2>1, <2>2, Equations
  <2>4. QED
    BY <1>2, <1>4, <2>1, <2>3 DEF GoesTo
<1>8. \A p \in Procs : p # q => pc'[p] = pc[p] /\ mem'[p] = mem[p]
  BY <1>4, CallKinds DEF Completed, Computes, Quits, CheckAll, Stop
<1>9. QED
  BY <1>5, <1>6, <1>7, <1>8

\* Every step of every process.
LEMMA StepFollows ==
  ASSUME TypeOK, NEW held, Solves(prog, held), Follows(held), [Next]_vars
  PROVE  \A p \in Procs : \/ pc'[p] = pc[p] /\ mem'[p] = mem[p]
                          \/ GoesTo(held, p) \/ GivesUpNow(p)
<1>1. CASE \E c \in prog.conns : Meet(c)
  BY <1>1, MeetFollows
<1>2. CASE \E q \in Procs : Calls(q)
  BY <1>2, ComputeFollows, CallKinds
<1>3. CASE UNCHANGED vars
  BY <1>3 DEF vars
<1>4. QED
  BY <1>1, <1>2, <1>3 DEF Next, Done, Calls

\* A step keeps to the equations.
LEMMA FollowsStep ==
  ASSUME TypeOK, NEW held, Solves(prog, held), Follows(held), [Next]_vars
  PROVE  Follows(held)'
<1>1. prog' = prog
  BY StepMoves
<1> SUFFICES ASSUME NEW p \in Procs
             PROVE  /\ ~(pc'[p] > Len(P(p).ops)) => mem'[p] = held[p][pc'[p]]
                    /\ \E i \in 1 .. Len(P(p).ops) + 1 : mem'[p] = held[p][i]
  BY <1>1 DEF Follows, Procs, P, Stopped
<1>2. pc[p] \in 1 .. Len(P(p).ops) + 1 /\ Len(P(p).ops) \in Nat
  BY Running, Phases
<1>3. /\ ~(pc[p] > Len(P(p).ops)) => mem[p] = held[p][pc[p]]
      /\ \E i \in 1 .. Len(P(p).ops) + 1 : mem[p] = held[p][i]
  BY DEF Follows, Stopped
<1>4. CASE pc'[p] = pc[p] /\ mem'[p] = mem[p]
  BY <1>3, <1>4
<1>5. CASE GoesTo(held, p)
  <2>1. pc[p] + 1 \in 1 .. Len(P(p).ops) + 1 /\ ~(Len(P(p).ops) + 1 <= Len(P(p).ops))
    BY <1>2, <1>5 DEF GoesTo, Stopped
  <2>2. QED
    BY <1>2, <1>5, <2>1 DEF GoesTo
<1>6. CASE GivesUpNow(p)
  BY <1>2, <1>3, <1>6 DEF GivesUpNow
<1>7. QED
  BY <1>4, <1>5, <1>6, StepFollows

\* Where a solution of the program that runs is followed.
FollowsFlow == \A g \in Programs : prog = g /\ Solves(g, Flow[g]) => Follows(Flow[g])

\* At the start every process holds what it has from the boot.
LEMMA InitFollows == ASSUME Init, NEW held, Solves(prog, held) PROVE Follows(held)
<1> SUFFICES ASSUME NEW p \in Procs
             PROVE  pc[p] = 1 /\ mem[p] = held[p][1] /\ 1 \in 1 .. Len(P(p).ops) + 1
  BY DEF Follows
<1>1. TypeOK
  BY InitIInv DEF IInv
<1>2. Len(P(p).ops) \in Nat
  BY <1>1, Running, Phases
<1>3. QED
  BY <1>2 DEF Init, Solves, Procs, P

\* What holds at the start and is kept by every step holds always.
LEMMA FollowsAlways == Spec => [](IInv /\ FollowsFlow)
<1>1. Init => IInv /\ FollowsFlow
  BY InitIInv, InitFollows DEF FollowsFlow
<1>2. IInv /\ FollowsFlow /\ [Next]_vars => IInv' /\ FollowsFlow'
  <2> SUFFICES ASSUME IInv, FollowsFlow, [Next]_vars PROVE IInv' /\ FollowsFlow'
    OBVIOUS
  <2>1. TypeOK /\ IInv' /\ prog' = prog
    BY TypeStep, SentFirstStep, InOrderStep, StepMoves DEF IInv
  <2>2. ASSUME NEW g \in Programs, prog = g, Solves(g, Flow[g]) PROVE Follows(Flow[g])'
    BY <2>1, <2>2, FollowsStep DEF FollowsFlow
  <2>3. QED
    BY <2>1, <2>2 DEF FollowsFlow
<1>3. QED
  BY <1>1, <1>2, PTL DEF Spec

\* The buffers of every process are a function of where it is: in every
\* program whose equations have a solution no interleaving can change what a
\* stage reads, what a message carries or what a check sees.
THEOREM DeterminateHolds == Spec => [](Solves(prog, Flow[prog]) => Determinate)
<1>1. IInv /\ FollowsFlow => (Solves(prog, Flow[prog]) => Determinate)
  BY DEF IInv, TypeOK, FollowsFlow, Determinate
<1>2. QED
  BY <1>1, FollowsAlways, PTL

\* The facts of a right solution that is followed.
LEMMA RightHere ==
  ASSUME IInv, FollowsFlow, FlowRight
  PROVE  Right(prog, Flow[prog]) /\ Follows(Flow[prog])
BY DEF IInv, TypeOK, FollowsFlow, FlowRight, RightFlow, Right

\* What a process holds is somewhere in the solution.
LEMMA HeldRight ==
  ASSUME IInv, FollowsFlow, FlowRight
  PROVE  \A v \in Held : v.id # "?" /\ v.bad \subseteq KnownSites
<1> DEFINE held == Flow[prog]
<1>1. RightValues(prog, held) /\ Follows(held)
  BY RightHere DEF Right
<1> HIDE DEF held
<1> SUFFICES ASSUME NEW p \in Procs, NEW b \in DOMAIN mem[p]
             PROVE  mem[p][b].id # "?" /\ mem[p][b].bad \subseteq KnownSites
  BY DEF Held
<1>2. PICK i \in 1 .. Len(P(p).ops) + 1 : mem[p] = held[p][i]
  BY <1>1 DEF Follows
<1>3. QED
  BY <1>1, <1>2 DEF RightValues, Procs, P, Ops

\* No stage is ever given the map of another node, or one of another shape:
\* one evaluation of the equations decides it for all interleavings.
THEOREM NothingMiswiredHolds == Spec => [](FlowRight => NothingMiswired)
<1>1. IInv /\ FollowsFlow => (FlowRight => NothingMiswired)
  BY HeldRight DEF NothingMiswired
<1>2. QED
  BY <1>1, FollowsAlways, PTL

\* Whatever a process holds at any time is spoilt at known sites only.
THEOREM OtherKernelsExactHolds == Spec => [](FlowRight => OtherKernelsExact)
<1>1. IInv /\ FollowsFlow => (FlowRight => OtherKernelsExact)
  BY HeldRight DEF OtherKernelsExact
<1>2. QED
  BY <1>1, FollowsAlways, PTL

\* channel_check_len stops the runtime in no interleaving.
THEOREM MessagesFitHolds == Spec => [](FlowRight => MessagesFit)
<1>1. IInv /\ FollowsFlow => (FlowRight => MessagesFit)
  <2> DEFINE held == Flow[prog]
  <2> SUFFICES ASSUME IInv, FollowsFlow, FlowRight, NEW c \in prog.conns,
                      Now(c.src).do = "send", Now(c.src).port = c.sp
               PROVE  Bytes(mem[c.src][Now(c.src).buf]) <= c.bytes
    BY DEF MessagesFit
  <2>1. TypeOK /\ RightMessages(prog, held) /\ Follows(held)
    BY RightHere DEF Right, IInv
  <2> HIDE DEF held
  <2>2. c.src \in Procs
    BY <2>1, Running
  <2>3. /\ pc[c.src] \in DOMAIN P(c.src).ops /\ Now(c.src) = P(c.src).ops[pc[c.src]]
        /\ ~Stopped(c.src)
    BY <2>1, <2>2, AtOp DEF Now, Op
  <2>4. SendOn(prog, c) = pc[c.src]
    BY <2>1, <2>3, OnlySend DEF SendAt
  <2>5. mem[c.src][Now(c.src).buf] = Carried(prog, held, c)
    BY <2>1, <2>2, <2>3, <2>4 DEF Carried, Ops, P, Follows
  <2>6. QED
    BY <2>1, <2>5 DEF RightMessages
<1>2. QED
  BY <1>1, FollowsAlways, PTL

-----------------------------------------------------------------------------
(* What is reported.                                                       *)

\* A pass is reported by an operation that announces it, and a failure by a
\* stage that gives up or a check that is not satisfied.
LEMMA VerdictStep ==
  ASSUME TypeOK, NEW held, Solves(prog, held), Follows(held), [Next]_vars
  PROVE  /\ "pass" \in verdict' => \/ "pass" \in verdict
                                   \/ \E q \in Procs : /\ pc[q] \in DOMAIN P(q).ops
                                                       /\ Announces(P(q), pc[q])
                                                       /\ GoesTo(held, q)
         /\ "fail" \in verdict' => \/ "fail" \in verdict \/ ~RightSteps(prog, held)
                                   \/ Cardinality(failed) < prog.errors
<1>1. ASSUME NEW q \in Procs, Calls(q)
      PROVE  /\ pc[q] \in DOMAIN P(q).ops /\ Now(q) = P(q).ops[pc[q]]
             /\ mem[q] = held[q][pc[q]]
  <2>1. Now(q).do \in {"run", "check"}
    BY <1>1, CallMoves
  <2>2. ~Stopped(q)
    BY <2>1 DEF Now, Op
  <2>3. QED
    BY <2>1, <2>2, AtOp DEF Follows
<1>2. ASSUME NEW q \in Procs, Calls(q), Quits(q)
      PROVE  /\ ~RightSteps(prog, held) \/ Cardinality(failed) < prog.errors
             /\ verdict' \subseteq verdict \cup {"fail"}
  BY <1>1, <1>2 DEF Quits, RightSteps, Ops, P, Procs
<1>3. ASSUME NEW q \in Procs, Calls(q), Completed(q)
      PROVE  /\ verdict' = verdict \cup (IF P(q).passes THEN {"pass"} ELSE {})
             /\ P(q).passes => Announces(P(q), pc[q])
             /\ GoesTo(held, q)
  BY <1>1, <1>3, ComputeFollows DEF Announces, Completed, Computes
<1>4. ASSUME NEW q \in Procs, CheckAll(q)
      PROVE  /\ verdict' = verdict \cup {IF Satisfied(P(q), mem[q]) THEN "pass" ELSE "fail"}
             /\ Announces(P(q), pc[q])
             /\ GoesTo(held, q)
             /\ ~Satisfied(P(q), mem[q]) => ~RightSteps(prog, held)
  <2>1. /\ Now(q).do = "check" /\ Calls(q)
        /\ verdict' = verdict \cup {IF Satisfied(P(q), mem[q]) THEN "pass" ELSE "fail"}
    BY <1>4 DEF CheckAll, Calls
  <2>2. /\ pc[q] \in DOMAIN P(q).ops /\ P(q).ops[pc[q]].do = "check"
        /\ mem[q] = held[q][pc[q]]
    BY <1>1, <1>4, <2>1
  <2>3. ~Satisfied(P(q), mem[q]) => ~RightSteps(prog, held)
    BY <2>2 DEF RightSteps, Ops, P, Procs
  <2>4. GoesTo(held, q)
    BY <1>4, <2>1, ComputeFollows
  <2>5. QED
    BY <2>1, <2>2, <2>3, <2>4 DEF Announces
<1>5. CASE \E c \in prog.conns : Meet(c)
  BY <1>5 DEF Meet
<1>6. CASE \E q \in Procs : Calls(q)
  BY <1>1, <1>2, <1>3, <1>4, <1>6, CallKinds
<1>7. CASE UNCHANGED vars
  BY <1>7 DEF vars
<1>8. QED
  BY <1>5, <1>6, <1>7 DEF Next, Done, Calls

\* Whoever goes past an operation that announces a pass, and has not given up,
\* reports it.
LEMMA AnnounceStep ==
  ASSUME TypeOK, NEW held, Solves(prog, held), Follows(held), RightSteps(prog, held), [Next]_vars,
         failed' = {},
         NEW p \in Procs, NEW i \in DOMAIN P(p).ops, Announces(P(p), i),
         ~(pc[p] > i), pc'[p] > i
  PROVE  "pass" \in verdict'
<1>1. /\ pc \in [Procs -> Nat] /\ i \in 1 .. Len(P(p).ops) /\ Len(P(p).ops) \in Nat
  BY Running, Phases DEF TypeOK
<1>2. CASE \E c \in prog.conns : Meet(c)
  <2>1. pc'[p] = pc[p] + 1 /\ pc[p] \in SendAt(P(p)) \cup RecvAt(P(p))
    BY <1>1, <1>2, MeetFollows
  <2>2. pc[p] = i
    BY <1>1, <2>1
  <2>3. QED
    BY <2>1, <2>2 DEF Announces, SendAt, RecvAt
<1>3. CASE \E q \in Procs : Calls(q)
  <2>1. PICK q \in Procs : Calls(q)
    BY <1>3
  <2>2. p = q
    BY <1>1, <2>1, ComputeFollows
  <2>3. Now(p).do \in {"run", "check"}
    BY <2>1, <2>2, CallMoves
  <2>4. ~Stopped(p)
    BY <2>3 DEF Now, Op
  <2>5. pc[p] \in DOMAIN P(p).ops /\ Now(p) = P(p).ops[pc[p]] /\ mem[p] = held[p][pc[p]]
    BY <2>3, <2>4, AtOp DEF Follows
  <2>6. CASE CheckAll(p)
    <3>1. Satisfied(P(p), mem[p])
      BY <2>5, <2>6 DEF CheckAll, RightSteps, Ops, P, Procs
    <3>2. QED
      BY <2>6, <3>1 DEF CheckAll
  <2>7. CASE Completed(p)
    <3>1. /\ pc' = [pc EXCEPT ![p] = @ + 1] /\ P(p).ops[pc[p]].do = "run"
          /\ verdict' = verdict \cup (IF P(p).passes THEN {"pass"} ELSE {})
      BY <2>5, <2>7 DEF Completed, Computes
    <3>2. pc[p] = i
      BY <1>1, <3>1
    <3>3. QED
      BY <3>1, <3>2 DEF Announces
  <2>8. ~Quits(p)
    BY DEF Quits
  <2>9. QED
    BY <2>1, <2>2, <2>6, <2>7, <2>8, CallKinds
<1>4. CASE UNCHANGED vars
  BY <1>4 DEF vars
<1>5. QED
  BY <1>2, <1>3, <1>4 DEF Next, Done, Calls

\* Who has reported a pass has kept what the equations say from then on.
Reported(held) ==
  "pass" \in verdict =>
    \E p \in Procs : \E i \in DOMAIN P(p).ops :
      /\ Announces(P(p), i) /\ pc[p] > i
      /\ \E k \in i + 1 .. Len(P(p).ops) + 1 : mem[p] = held[p][k]

\* Only the operation that announces it adds a pass, and pc never goes back.
LEMMA ReportedStep ==
  ASSUME TypeOK, NEW held, Solves(prog, held), Follows(held), Reported(held), [Next]_vars
  PROVE  Reported(held)'
<1>1. prog' = prog
  BY StepMoves
<1> SUFFICES ASSUME "pass" \in verdict'
             PROVE  \E p \in Procs : \E i \in DOMAIN P(p).ops :
                      /\ Announces(P(p), i) /\ pc'[p] > i
                      /\ \E k \in i + 1 .. Len(P(p).ops) + 1 : mem'[p] = held[p][k]
  BY <1>1 DEF Reported, Procs, P
<1>2. ASSUME NEW p \in Procs, NEW i \in DOMAIN P(p).ops, ~(pc[p] < i), GoesTo(held, p)
      PROVE  pc'[p] > i /\ pc[p] + 1 \in i + 1 .. Len(P(p).ops) + 1
  <2>1. /\ pc[p] \in 1 .. Len(P(p).ops) + 1 /\ Len(P(p).ops) \in Nat
        /\ DOMAIN P(p).ops = 1 .. Len(P(p).ops)
    BY Running, Phases
  <2>2. QED
    BY <1>2, <2>1 DEF GoesTo, Stopped
<1>3. CASE "pass" \in verdict
  <2>1. PICK p \in Procs : \E i \in DOMAIN P(p).ops :
          /\ Announces(P(p), i) /\ pc[p] > i
          /\ \E k \in i + 1 .. Len(P(p).ops) + 1 : mem[p] = held[p][k]
    BY <1>3 DEF Reported
  <2> PICK i \in DOMAIN P(p).ops :
          /\ Announces(P(p), i) /\ pc[p] > i
          /\ \E k \in i + 1 .. Len(P(p).ops) + 1 : mem[p] = held[p][k]
    BY <2>1
  <2>2. /\ pc[p] \in 1 .. Len(P(p).ops) + 1 /\ Len(P(p).ops) \in Nat
        /\ i \in 1 .. Len(P(p).ops)
    BY Running, Phases
  <2>3. CASE GoesTo(held, p)
    <3>1. ~(pc[p] < i)
      BY <2>1, <2>2
    <3>2. pc'[p] > i /\ pc[p] + 1 \in i + 1 .. Len(P(p).ops) + 1
      BY <1>2, <2>3, <3>1
    <3>3. QED
      BY <2>1, <2>3, <3>2 DEF GoesTo
  <2>4. CASE GivesUpNow(p)
    <3>1. pc'[p] > i /\ mem'[p] = mem[p]
      BY <2>2, <2>4 DEF GivesUpNow
    <3>2. QED
      BY <2>1, <3>1
  <2>5. CASE pc'[p] = pc[p] /\ mem'[p] = mem[p]
    BY <2>1, <2>5
  <2>6. QED
    BY <2>3, <2>4, <2>5, StepFollows
<1>4. CASE "pass" \notin verdict
  <2>1. PICK q \in Procs : /\ pc[q] \in DOMAIN P(q).ops /\ Announces(P(q), pc[q])
                           /\ GoesTo(held, q)
    BY <1>4, VerdictStep
  <2>2. ~(pc[q] < pc[q])
    BY Running DEF TypeOK
  <2>3. pc'[q] > pc[q] /\ pc[q] + 1 \in pc[q] + 1 .. Len(P(q).ops) + 1
    BY <1>2, <2>1, <2>2
  <2>4. QED
    BY <2>1, <2>3 DEF GoesTo
<1>5. QED
  BY <1>3, <1>4

\* The same along the solution of the program that runs.
ReportedFlow == \A g \in Programs : prog = g /\ Solves(g, Flow[g]) => Reported(Flow[g])

\* A reported pass means that the host finds the results where it looks for
\* them, however far the other processes have come.
THEOREM DeliveredHolds == Spec => [](FlowRight => Delivered)
<1>1. Init => ReportedFlow
  BY DEF Init, ReportedFlow, Reported
<1>2. IInv /\ FollowsFlow /\ ReportedFlow /\ [Next]_vars => ReportedFlow'
  <2> SUFFICES ASSUME IInv, FollowsFlow, ReportedFlow, [Next]_vars PROVE ReportedFlow'
    OBVIOUS
  <2>1. TypeOK /\ prog' = prog
    BY StepMoves DEF IInv
  <2>2. ASSUME NEW g \in Programs, prog = g, Solves(g, Flow[g]) PROVE Reported(Flow[g])'
    BY <2>1, <2>2, ReportedStep DEF FollowsFlow, ReportedFlow
  <2>3. QED
    BY <2>1, <2>2 DEF ReportedFlow
<1>3. IInv /\ FollowsFlow /\ ReportedFlow => (FlowRight => Delivered)
  <2> DEFINE held == Flow[prog]
  <2> SUFFICES ASSUME IInv, FollowsFlow, ReportedFlow, FlowRight, "pass" \in verdict,
                      NEW r \in Results[prog.name]
               PROVE  r[2] \in DOMAIN mem[r[1]] /\ mem[r[1]][r[2]].id = r[3]
    BY DEF Delivered
  <2>1. Right(prog, held)
    BY RightHere
  <2>2. Reported(held)
    BY <2>1 DEF ReportedFlow, Right, IInv, TypeOK
  <2> HIDE DEF held
  <2>3. PICK p \in Procs : \E i \in DOMAIN P(p).ops :
               /\ Announces(P(p), i)
               /\ \E k \in i + 1 .. Len(P(p).ops) + 1 : mem[p] = held[p][k]
    BY <2>2 DEF Reported
  <2>4. QED
    BY <2>1, <2>3 DEF Right, RightResults, Ops, P, Procs
<1>4. QED
  BY <1>1, <1>2, <1>3, FollowsAlways, PTL DEF Spec

\* Nobody has given up, nothing but a pass has been reported, and whoever has
\* come past the place for it has reported one.
Smooth ==
  /\ failed = {}
  /\ \A c \in prog.conns : Passed(c.src, c) => Passed(c.dst, c)
  /\ "fail" \notin verdict
  /\ \A p \in Procs : \A i \in DOMAIN P(p).ops :
       Announces(P(p), i) /\ pc[p] > i => "pass" \in verdict

\* At the start nobody has passed anything.
LEMMA SmoothStart == ASSUME Init, Paired(prog) PROVE Smooth
<1>1. TypeOK
  BY InitIInv DEF IInv
<1>2. ASSUME NEW p \in Procs, NEW i \in DOMAIN P(p).ops PROVE ~(pc[p] > i)
  <2>1. i \in 1 .. Len(P(p).ops) /\ Len(P(p).ops) \in Nat
    BY <1>1, Running, Phases
  <2>2. QED
    BY <2>1 DEF Init
<1>3. ASSUME NEW c \in prog.conns PROVE ~Passed(c.src, c)
  <2>1. c.src \in Procs
    BY <1>1, Running
  <2>2. OpsOn(prog, c.src, c) \subseteq DOMAIN P(c.src).ops
    BY DEF OpsOn, SendAt, RecvAt, P
  <2>3. QED
    BY <1>2, <2>1, <2>2 DEF Passed
<1>4. QED
  BY <1>2, <1>3 DEF Smooth, Init

\* A right solution lets no stage give up by itself.
LEMMA NoneFails ==
  ASSUME TypeOK, NEW held, Follows(held), RightSteps(prog, held), failed = {}, prog.errors = 0,
         [Next]_vars
  PROVE  failed' = {} /\ ~(Cardinality(failed) < prog.errors)
<1>1. Cardinality(failed) = 0
  BY FS_EmptySet
<1>2. CASE \E c \in prog.conns : Meet(c)
  BY <1>1, <1>2 DEF Meet
<1>3. CASE \E q \in Procs : Calls(q)
  <2>1. PICK q \in Procs : Calls(q)
    BY <1>3
  <2>2. CASE Quits(q)
    <3>1. Now(q).do = "run" /\ StageStops(P(q), pc[q], mem[q])
      BY <1>1, <2>2 DEF Quits
    <3>2. ~Stopped(q)
      BY <3>1 DEF Now, Op
    <3>3. /\ pc[q] \in DOMAIN P(q).ops /\ P(q).ops[pc[q]].do = "run"
          /\ mem[q] = held[q][pc[q]]
      BY <3>1, <3>2, AtOp DEF Follows
    <3>4. QED
      BY <3>1, <3>3 DEF RightSteps, Ops, P, Procs
  <2>3. CASE Completed(q) \/ CheckAll(q)
    BY <1>1, <2>3 DEF Completed, CheckAll
  <2>4. QED
    BY <2>1, <2>2, <2>3, CallKinds
<1>4. CASE UNCHANGED vars
  BY <1>1, <1>4 DEF vars
<1>5. QED
  BY <1>2, <1>3, <1>4 DEF Next, Done, Calls

\* Nor does it let a check fail, so every step keeps it so.
LEMMA SmoothStep ==
  ASSUME TypeOK, NEW held, Solves(prog, held), Follows(held), RightSteps(prog, held),
         Paired(prog), Smooth, prog.errors = 0, [Next]_vars
  PROVE  Smooth'
<1>1. prog' = prog /\ \A p \in Procs : pc'[p] = pc[p] \/ Moves(p)
  BY StepMoves
<1>2. failed' = {} /\ "fail" \notin verdict'
  BY VerdictStep, NoneFails DEF Smooth
<1>3. ASSUME NEW p \in Procs, NEW i \in DOMAIN P(p).ops, Announces(P(p), i), pc'[p] > i
      PROVE  "pass" \in verdict'
  <2>1. CASE pc[p] > i
    BY <1>3, <2>1, ReportsStay DEF Smooth
  <2>2. CASE ~(pc[p] > i)
    BY <1>2, <1>3, <2>2, AnnounceStep
  <2>3. QED
    BY <2>1, <2>2
<1>4. ASSUME NEW c \in prog.conns, NEW i \in OpsOn(prog, c.src, c), pc'[c.src] > i
      PROVE  \E j \in OpsOn(prog, c.dst, c) : pc'[c.dst] > j
  <2>1. c.src \in Procs /\ c.dst \in Procs
    BY Running
  <2>2. CASE pc[c.src] > i
    <3>1. PICK j \in OpsOn(prog, c.dst, c) : pc[c.dst] > j
      BY <2>2 DEF Smooth, Passed
    <3>2. j \in DOMAIN P(c.dst).ops
      BY DEF OpsOn, SendAt, RecvAt, P
    <3>3. /\ pc[c.dst] \in 1 .. Len(P(c.dst).ops) + 1 /\ Len(P(c.dst).ops) \in Nat
          /\ j \in 1 .. Len(P(c.dst).ops) /\ RecvAt(P(c.dst)) \subseteq 1 .. Len(P(c.dst).ops)
      BY <2>1, <3>2, Running, Phases
    <3>4. pc'[c.dst] > j
      BY <1>1, <2>1, <3>1, <3>3 DEF Moves
    <3>5. QED
      BY <3>4
  <2>3. CASE ~(pc[c.src] > i)
    BY <1>2, <1>4, <2>3, PassSend
  <2>4. QED
    BY <2>2, <2>3
<1>5. QED
  BY <1>1, <1>2, <1>3, <1>4 DEF Smooth, Passed, Procs, P

\* A program whose equations have a right solution, and whose processes come
\* to their connections in one order, can only come to rest at its end, with
\* a pass reported and no failure, where no tensor error comes.
THEOREM EndsWellHolds ==
  Spec => [](prog.errors = 0 /\ FlowRight /\ InOneOrder => EndsWell)
<1> DEFINE Inv == prog.errors = 0 /\ FlowRight /\ InOneOrder => Smooth
<1>1. ASSUME TypeOK, InOneOrder PROVE OneOrder(prog) /\ Paired(prog)
  BY <1>1 DEF InOneOrder, Ordered, TypeOK, OneOrder
<1>2. Init => Inv
  BY <1>1, InitIInv, SmoothStart DEF IInv
<1>3. IInv /\ FollowsFlow /\ Inv /\ [Next]_vars => Inv'
  <2> SUFFICES ASSUME IInv, FollowsFlow, Inv, [Next]_vars, prog'.errors = 0, FlowRight',
                      InOneOrder'
               PROVE  Smooth'
    OBVIOUS
  <2>1. TypeOK /\ prog' = prog
    BY StepMoves DEF IInv
  <2>2. prog.errors = 0 /\ FlowRight /\ InOneOrder
    BY <2>1 DEF FlowRight, InOneOrder
  <2>3. PICK g \in Programs : prog = g
    BY <2>1 DEF TypeOK
  <2>4. Right(g, Flow[g]) /\ Follows(Flow[g]) /\ Paired(prog)
    BY <1>1, <2>1, <2>2, <2>3, RightHere
  <2>5. QED
    BY <2>1, <2>2, <2>3, <2>4, SmoothStep DEF Right
<1>4. IInv /\ FollowsFlow /\ Inv => (prog.errors = 0 /\ FlowRight /\ InOneOrder => EndsWell)
  <2> SUFFICES ASSUME IInv, FollowsFlow, Inv, prog.errors = 0, FlowRight, InOneOrder, ~GoesOn
               PROVE  (\A p \in Procs : Stopped(p)) /\ verdict = {"pass"}
    BY DEF EndsWell
  <2>1. TypeOK /\ SentFirst /\ Smooth /\ OneOrder(prog) /\ Paired(prog)
    BY <1>1 DEF IInv
  <2>2. ASSUME NEW c \in prog.conns, Passed(c.dst, c) PROVE Passed(c.src, c)
    <3>1. PICK j \in RecvAt(P(c.dst)) : OpsOn(prog, c.dst, c) = {j} /\ P(c.dst).ops[j].port = c.dp
      BY <2>1, BothEnds
    <3>2. HasSent(c.src, c.sp)
      BY <2>1, <2>2, <3>1 DEF SentFirst, Passed
    <3>3. QED
      BY <3>2 DEF HasSent, Passed, OpsOn, P
  <2>3. \A p \in Procs : Stopped(p)
    BY <2>1, <2>2, NoCircle DEF Smooth
  <2>4. PICK p \in Procs : \E i \in DOMAIN P(p).ops : Announces(P(p), i)
    BY RightHere DEF Right, RightResults, Ops, P, Procs
  <2>5. "pass" \in verdict
    <3>1. PICK i \in DOMAIN P(p).ops : Announces(P(p), i)
      BY <2>4
    <3>2. i \in 1 .. Len(P(p).ops) /\ Len(P(p).ops) \in Nat /\ pc[p] \in Nat
      BY <2>1, Running, Phases DEF TypeOK
    <3>3. pc[p] > i
      BY <2>3, <3>2 DEF Stopped
    <3>4. QED
      BY <2>1, <3>1, <3>3 DEF Smooth
  <2>6. QED
    BY <2>1, <2>3, <2>5 DEF TypeOK, Smooth
<1>5. QED
  BY <1>2, <1>3, <1>4, FollowsAlways, PTL DEF Spec

-----------------------------------------------------------------------------
(* The kernels, at every pixel.                                            *)

\* Division by b of what is b times a number and a rest.
LEMMA DivMod ==
  ASSUME NEW b \in Nat \ {0}, NEW y \in Nat, NEW x \in 0 .. b - 1
  PROVE  (y * b + x) \div b = y /\ (y * b + x) % b = x
<1> DEFINE a == y * b + x
           q == a \div b
           m == a % b
<1>1. y * b \in Nat /\ a \in Nat /\ b \in Int /\ b > 0
  OBVIOUS
<1> HIDE DEF a
<1>2. q \in Int /\ m \in 0 .. b - 1 /\ a = b * q + m
  BY <1>1
<1> HIDE DEF q, m
<1>3. a = b * y + x
  BY <1>1 DEF a
<1>4. b * (q - y) = x - m
  BY <1>1, <1>2, <1>3
<1>5. ~(q - y >= 1) /\ ~(q - y <= -1)
  <2>1. ASSUME q - y >= 1 PROVE b * (q - y) >= b
    BY <1>1, <1>2, <2>1
  <2>2. ASSUME q - y <= -1 PROVE b * (q - y) <= -b
    BY <1>1, <1>2, <2>2
  <2>3. QED
    BY <1>1, <1>2, <1>4, <2>1, <2>2
<1>6. q = y
  BY <1>2, <1>5
<1>7. m = x
  BY <1>1, <1>2, <1>3, <1>6
<1>8. QED
  BY <1>6, <1>7 DEF q, m, a

\* A copy of whole words of a layer whose channels fill them stays in its slot.
LEMMA SpanIsSlot ==
  ASSUME NEW c \in Nat, c % 8 = 0
  PROVE  CopySpan(c) = c
BY DEF CopySpan, RoundUp, CeilDiv

\* The row of a packed block is packed for the pixel it stands for: always
\* where every index is divided, and where a row is a whole number of blocks
\* if only the first is.
LEMMA PackedForPixel ==
  ASSUME NEW walk, NEW out \in Nat \ {0}, walk = "flat" \/ out % 16 = 0,
         NEW y \in Nat, NEW x \in 0 .. out - 1
  PROVE  PackedPos(walk, y * out + x, out) = <<y, x>>
<1> DEFINE pix == y * out + x
<1>1. pix \div out = y /\ pix % out = x
  BY DivMod
<1>2. CASE walk = "flat"
  BY <1>1, <1>2 DEF PackedPos
<1>3. CASE walk # "flat"
  <2> DEFINE k == out \div 16
             q == x \div 16
             r == x % 16
  <2>1. out % 16 = 0 /\ out \in Int /\ x \in Int /\ x >= 0 /\ x < out
    BY <1>3
  <2>2. k \in Nat /\ out = 16 * k /\ q \in Nat /\ r \in 0 .. 15 /\ x = 16 * q + r
    BY <2>1
  <2>3. pix = (y * k + q) * 16 + r
    <3> HIDE DEF k, q, r
    <3>1. y * out = y * k * 16
      BY <2>2
    <3>2. QED
      BY <2>2, <3>1
  <2>4. y * k + q \in Nat
    BY <2>2
  <2>5. pix % 16 = r
    <3> HIDE DEF k, q, r, pix
    <3>1. ((y * k + q) * 16 + r) % 16 = r
      BY <2>2, <2>4, DivMod
    <3>2. QED
      BY <2>3, <3>1
  <2>6. pix - (pix % 16) = y * out + 16 * q /\ 16 * q \in 0 .. out - 1
    <3> HIDE DEF k, q, r
    <3>1. y * out \in Nat
      BY <2>1
    <3>2. QED
      BY <2>1, <2>2, <2>5, <3>1
  <2>7. (pix - (pix % 16)) \div out = y /\ (pix - (pix % 16)) % out = 16 * q
    <3> HIDE DEF k, q, r
    <3>1. (y * out + 16 * q) \div out = y /\ (y * out + 16 * q) % out = 16 * q
      BY <2>6, DivMod
    <3>2. QED
      BY <2>6, <3>1
  <2>8. QED
    BY <1>3, <2>2, <2>5, <2>7 DEF PackedPos, PIX_BLOCK
<1>4. QED
  BY <1>2, <1>3

\* Where the channels of a layer fill whole words, a slot holds its own tap.
LEMMA SlotIsOwn ==
  ASSUME NEW l, l.c \in Nat, l.c % 8 = 0, NEW side, NEW pos, NEW t \in Nat
  PROVE  PackedTap(l, side, pos, t) = TapSource(l, side, pos, t)
<1>1. CopySpan(l.c) = l.c
  BY SpanIsSlot
<1>2. ASSUME NEW u \in 0 .. t - 1 PROVE ~(u * l.c + l.c > t * l.c)
  <2>1. PICK d \in Nat : t = u + 1 + d
    <3>1. t = u + 1 + (t - 1 - u) /\ t - 1 - u \in Nat
      OBVIOUS
    <3>2. QED
      BY <3>1
  <2>2. t * l.c = u * l.c + l.c + d * l.c /\ d * l.c >= 0
    BY <2>1
  <2>3. QED
    BY <2>2
<1>3. QED
  BY <1>1, <1>2 DEF PackedTap

\* The packed convolution of a layer reads, for every pixel of every row, what
\* a padded convolution reads, if the channels of the layer fill whole words
\* and either every index is divided or rows are whole blocks: the rows that
\* the runs look at stand for all of them.
THEOREM PackedExact ==
  ASSUME NEW l, l.c \in Nat, l.c % 8 = 0, NEW side,
         NEW walk, NEW out \in Nat \ {0}, walk = "flat" \/ out % 16 = 0,
         NEW y \in Nat, NEW x \in 0 .. out - 1, NEW t \in Nat
  PROVE  PackedTap(l, side, PackedPos(walk, y * out + x, out), t) = TapSource(l, side, <<y, x>>, t)
BY PackedForPixel, SlotIsOwn

\* A concatenation in place that does not overwrite what it has still to read
\* at the first pixels does not do so at any.
LEMMA ConcatEverywhere ==
  ASSUME NEW partC \in Nat, NEW wholeC \in Nat, NEW pixels \in Nat,
         ConcatRight(TRUE, partC, wholeC, pixels),
         NEW i \in 1 .. pixels - 1, NEW j \in 0 .. i - 1
  PROVE  (j + 1) * wholeC <= i * partC
<1>1. wholeC <= partC
  <2>1. \A k \in 0 .. 0 : (k + 1) * wholeC <= 1 * partC
    BY DEF ConcatRight
  <2>2. QED
    BY <2>1
<1>2. PICK d \in Nat : i = j + 1 + d
  <2>1. i = j + 1 + (i - 1 - j) /\ i - 1 - j \in Nat
    OBVIOUS
  <2>2. QED
    BY <2>1
<1>3. (j + 1) * wholeC <= (j + 1) * partC
  <2>1. PICK e \in Nat : partC = wholeC + e
    <3>1. partC = wholeC + (partC - wholeC) /\ partC - wholeC \in Nat
      BY <1>1
    <3>2. QED
      BY <3>1
  <2>2. (j + 1) * partC = (j + 1) * wholeC + (j + 1) * e /\ (j + 1) * e \in Nat
    BY <2>1
  <2>3. (j + 1) * wholeC \in Nat
    OBVIOUS
  <2>4. QED
    BY <2>2, <2>3
<1>4. i * partC = (j + 1) * partC + d * partC /\ d * partC \in Nat /\ (j + 1) * partC \in Nat
  BY <1>2
<1>5. (j + 1) * wholeC \in Nat
  OBVIOUS
<1>6. QED
  BY <1>3, <1>4, <1>5

\* Where only the first index of a block is divided and rows are no whole
\* blocks, the first pixel of the second row is packed for one that follows
\* the first row instead: the condition of PackedExact is needed.
LEMMA RowWalkRunsOn ==
  ASSUME NEW out \in Nat, out % 16 # 0
  PROVE  PackedPos("row", 1 * out + 0, out) = <<0, out>>
<1> DEFINE r == out % 16
           first == out - r
<1>1. r \in 1 .. 15 /\ first \in Nat /\ out \in Nat \ {0} /\ first < out /\ first + r = out
  OBVIOUS
<1>2. first \div out = 0 /\ first % out = first
  <2> HIDE DEF first, r
  <2>1. (0 * out + first) \div out = 0 /\ (0 * out + first) % out = first
    BY <1>1, DivMod
  <2>2. QED
    BY <1>1, <2>1
<1>3. 1 * out + 0 = out
  OBVIOUS
<1>4. PackedPos("row", out, out) = <<first \div out, (first % out) + r>>
  BY DEF PackedPos, PIX_BLOCK
<1>5. QED
  BY <1>1, <1>2, <1>3, <1>4

\* A packed row is not shorter than what is packed into it.
LEMMA PaddedCovers ==
  ASSUME NEW l, l.k \in Nat, l.c \in Nat
  PROVE  KPadded(l) \in Nat /\ KPadded(l) >= KInner(l) /\ KInner(l) \in Nat
<1>1. KInner(l) \in Nat
  BY DEF KInner
<1>2. \A a \in Nat : RoundUp(a, 64) \in Nat /\ RoundUp(a, 64) >= a
  BY DEF RoundUp, CeilDiv
<1>3. QED
  BY <1>1, <1>2 DEF KPadded, K_BLOCK

\* The guards of yolov5n_common.c: a kernel that does not return -1 packs
\* inside the scratch block it has been given, whatever the layer and the
\* block. The neck files have no such guard (finding on L42).
THEOREM CommonStaysInside ==
  ASSUME NEW l, l.k \in Nat, l.c \in Nat, NEW srcC \in Nat, NEW room \in Nat,
         NEW kind \in {"1x1", "packed"}, Guard("common", kind, l, srcC, room)
  PROVE  PackingBytes("common", kind, l, srcC) <= room
<1>1. KPadded(l) \in Nat /\ KPadded(l) >= KInner(l)
  BY PaddedCovers
<1>2. CASE kind = "packed"
  BY <1>1, <1>2 DEF Guard, CommonPackedGuard, PackingBytes, PIX_BLOCK
<1>3. CASE kind = "1x1"
  <2>1. Common1x1Guard(l, srcC, room)
    BY <1>3 DEF Guard
  <2>2. KInner(l) = srcC
    BY <2>1 DEF Common1x1Guard, KInner
  <2>3. KPadded(l) # srcC => room >= 16 * KPadded(l)
    BY <1>1, <2>1, <2>2 DEF Common1x1Guard, PIX_BLOCK
  <2>4. QED
    BY <1>1, <1>3, <2>3 DEF PackingBytes, PIX_BLOCK
<1>4. QED
  BY <1>2, <1>3

\* The two clipped passes of the pooling read, for every pixel of a map of
\* every size, what lies inside the 5 by 5 window round it.
THEOREM MaxPoolExact == \A side \in Nat : MaxPoolRight(side)
<1> SUFFICES ASSUME NEW side \in Nat, NEW y \in 0 .. side - 1, NEW x \in 0 .. side - 1
             PROVE  UNION {{<<yy, q[2]>> : q \in {<<y, xx>> : xx \in Window(x, side)}} :
                             yy \in Window(y, side)}
                      = {q \in (0 .. side - 1) \X (0 .. side - 1) :
                           q[1] \in y - 2 .. y + 2 /\ q[2] \in x - 2 .. x + 2}
  BY DEF MaxPoolRight
<1>1. \A z \in 0 .. side - 1 : Window(z, side) = {w \in 0 .. side - 1 : w \in z - 2 .. z + 2}
  BY DEF Window
<1>2. UNION {{<<yy, q[2]>> : q \in {<<y, xx>> : xx \in Window(x, side)}} :
               yy \in Window(y, side)} = Window(y, side) \X Window(x, side)
  <2> DEFINE cols     == {<<y, xx>> : xx \in Window(x, side)}
             line(yy) == {<<yy, q[2]>> : q \in cols}
  <2>1. ASSUME NEW yy PROVE line(yy) = {<<yy, xx>> : xx \in Window(x, side)}
    <3>1. ASSUME NEW xx \in Window(x, side) PROVE <<yy, xx>> \in line(yy)
      <4>1. <<y, xx>> \in cols /\ <<y, xx>>[2] = xx
        OBVIOUS
      <4>2. QED
        BY <4>1
    <3>2. ASSUME NEW q \in cols PROVE \E xx \in Window(x, side) : <<yy, q[2]>> = <<yy, xx>>
      OBVIOUS
    <3>3. QED
      BY <3>1, <3>2
  <2> HIDE DEF line
  <2>2. UNION {line(yy) : yy \in Window(y, side)} = Window(y, side) \X Window(x, side)
    BY <2>1
  <2>3. QED
    BY <2>2 DEF line
<1>3. QED
  BY <1>1, <1>2

-----------------------------------------------------------------------------
(* What a pass stands for.                                                 *)

\* Who has given up has stopped, and nothing has come through from there: not
\* from its own sends, nor from those of the processes behind it.
Cut ==
  \A q \in failed :
    /\ Stopped(q)
    /\ \A c \in prog.conns : c.src = q \/ IsBehind(c.src, q) =>
         \A i \in RecvAt(P(c.dst)) : P(c.dst).ops[i].port = c.dp => ~(pc[c.dst] > i)

\* A pass has been reported by a process that had all its inputs.
Announced ==
  "pass" \in verdict =>
    \E p \in Procs \ failed :
      HasAll(p) /\ \E i \in DOMAIN P(p).ops : Announces(P(p), i) /\ pc[p] > i

\* Who is behind one that has given up lacks an input.
LEMMA BehindLacks ==
  ASSUME TypeOK, Cut, NEW q \in failed, NEW p \in Procs, IsBehind(p, q)
  PROVE  ~HasAll(p)
<1>1. q \in Procs
  BY DEF TypeOK
<1>2. PICK c \in prog.conns : c.dst = p /\ (c.src = q \/ c.src \in Reachability(prog)[q])
  BY <1>1, Running, ReachLastEdge DEF IsBehind
<1>3. PICK i \in RecvAt(P(p)) : P(p).ops[i].port = c.dp
  BY <1>2, Running DEF WellBuilt, Plugged, P
<1>4. ~(pc[p] > i)
  BY <1>2, <1>3 DEF Cut, IsBehind
<1>5. QED
  BY <1>3, <1>4 DEF HasAll

\* Who is past its receives has all its inputs.
LEMMA PastReceives ==
  ASSUME TypeOK, NEW p \in Procs, pc[p] \in DOMAIN P(p).ops, pc[p] \notin RecvAt(P(p))
  PROVE  HasAll(p)
<1>1. /\ DOMAIN P(p).ops = 1 .. Len(P(p).ops) /\ Len(P(p).ops) \in Nat
      /\ RecvAt(P(p)) \subseteq 1 .. Len(P(p).ops)
      /\ \A i \in RecvAt(P(p)), j \in 1 .. Len(P(p).ops) : j \notin RecvAt(P(p)) => i < j
  BY Running, Phases
<1>2. QED
  BY <1>1 DEF HasAll

\* A receive is passed together with the sender on its connection, which has
\* then all its inputs and has not stopped.
LEMMA PassReceive ==
  ASSUME TypeOK, [Next]_vars, NEW c \in prog.conns,
         NEW i \in RecvAt(P(c.dst)), P(c.dst).ops[i].port = c.dp,
         ~(pc[c.dst] > i), pc'[c.dst] > i
  PROVE  c.src \in Procs /\ ~Stopped(c.src) /\ HasAll(c.src)
<1>1. c.src \in Procs /\ c.dst \in Procs
  BY Running
<1>2. /\ Len(P(c.dst).ops) \in Nat /\ pc[c.dst] \in 1 .. Len(P(c.dst).ops) + 1
      /\ RecvAt(P(c.dst)) \subseteq 1 .. Len(P(c.dst).ops)
      /\ DOMAIN P(c.dst).ops = 1 .. Len(P(c.dst).ops)
      /\ \A k \in 1 .. Len(P(c.dst).ops) : k \notin RecvAt(P(c.dst)) => i < k
  BY <1>1, Running, Phases
<1>3. pc[c.dst] \in RecvAt(P(c.dst)) /\ pc[c.dst] = i /\ Moves(c.dst)
  BY <1>1, <1>2, StepMoves DEF Moves
<1>4. PICK d \in prog.conns :
        /\ d.dst = c.dst /\ P(c.dst).ops[i].port = d.dp
        /\ pc[d.src] \in SendAt(P(d.src))
  BY <1>2, <1>3 DEF Moves
<1>5. d = c
  BY <1>4, Running DEF WellBuilt, Plugged
<1>6. /\ DOMAIN P(c.src).ops = 1 .. Len(P(c.src).ops) /\ Len(P(c.src).ops) \in Nat
      /\ SendAt(P(c.src)) \subseteq 1 .. Len(P(c.src).ops)
      /\ RecvAt(P(c.src)) \cap SendAt(P(c.src)) = {}
  BY <1>1, Running, Phases
<1>7. HasAll(c.src)
  BY <1>1, <1>4, <1>5, <1>6, PastReceives
<1>8. QED
  BY <1>1, <1>4, <1>5, <1>6, <1>7 DEF Stopped

\* A stage that gives up is at its run: it has sent nothing, so nobody behind
\* it has all its inputs.
LEMMA NothingThrough ==
  ASSUME IInv, NEW q \in Procs, Now(q).do = "run",
         NEW c \in prog.conns, c.src = q \/ IsBehind(c.src, q),
         NEW i \in RecvAt(P(c.dst)), P(c.dst).ops[i].port = c.dp, pc[c.dst] > i
  PROVE  FALSE
<1>1. TypeOK /\ SentFirst /\ InOrder
  BY DEF IInv
<1>2. c.src \in Procs
  BY <1>1, Running
<1>3. PICK j \in SendAt(P(c.src)) : pc[c.src] > j
  BY <1>1 DEF SentFirst, HasSent
<1>4. \A k \in SendAt(P(q)) : ~(pc[q] > k)
  <2>1. pc[q] \in 1 .. Len(P(q).ops) /\ P(q).ops[pc[q]].do = "run"
    BY <1>1, AtOp
  <2>2. pc[q] \notin SendAt(P(q))
    BY <2>1 DEF SendAt
  <2>3. /\ Len(P(q).ops) \in Nat /\ SendAt(P(q)) \subseteq 1 .. Len(P(q).ops)
        /\ \A k \in SendAt(P(q)), l \in 1 .. Len(P(q).ops) : l \notin SendAt(P(q)) => l < k
    BY <1>1, Running, Phases
  <2>4. QED
    BY <2>1, <2>2, <2>3
<1>5. CASE c.src = q
  BY <1>3, <1>4, <1>5
<1>6. CASE IsBehind(c.src, q)
  <2>1. HasAll(c.src)
    <3>1. /\ Len(P(c.src).ops) \in Nat /\ pc[c.src] \in 1 .. Len(P(c.src).ops) + 1
          /\ RecvAt(P(c.src)) \subseteq 1 .. Len(P(c.src).ops)
          /\ j \in 1 .. Len(P(c.src).ops) /\ j \notin RecvAt(P(c.src))
          /\ \A k \in RecvAt(P(c.src)), l \in 1 .. Len(P(c.src).ops) :
               l \notin RecvAt(P(c.src)) => k < l
      BY <1>1, <1>2, Running, Phases
    <3>2. QED
      BY <1>3, <3>1 DEF HasAll
  <2>2. \E k \in SendAt(P(q)) : pc[q] > k
    BY <1>1, <1>6, <2>1 DEF InOrder, IsBehind
  <2>3. QED
    BY <1>4, <2>2
<1>7. QED
  BY <1>5, <1>6

\* Who gives up in a step was at its run and stops in it.
LEMMA FailsAtRun ==
  ASSUME TypeOK, [Next]_vars, NEW q \in failed', q \notin failed
  PROVE  /\ q \in Procs /\ Now(q).do = "run" /\ Stopped(q)'
         /\ \A p \in Procs : p # q => pc'[p] = pc[p]
         /\ verdict' \subseteq verdict \cup {"fail"}
<1>1. CASE \E c \in prog.conns : Meet(c)
  BY <1>1 DEF Meet
<1>2. CASE \E p \in Procs : Calls(p)
  <2>1. PICK p \in Procs : Calls(p)
    BY <1>2
  <2>2. Quits(p) /\ p = q /\ prog' = prog
    BY <2>1, CallKinds DEF Completed, CheckAll, Quits
  <2>3. pc[q] \in 1 .. Len(P(q).ops) /\ Len(P(q).ops) \in Nat
    BY <2>1, <2>2, AtOp, Running, Phases DEF Quits
  <2>4. pc'[q] = Len(P(q).ops) + 1
    BY <2>1, <2>2 DEF Quits, TypeOK
  <2>5. \A r \in Procs : r # q => pc'[r] = pc[r]
    BY <2>2 DEF Quits, TypeOK
  <2>6. Stopped(q)'
    BY <2>2, <2>3, <2>4 DEF Stopped, P
  <2>7. QED
    BY <2>1, <2>2, <2>5, <2>6 DEF Quits
<1>3. CASE UNCHANGED vars
  BY <1>3 DEF vars
<1>4. QED
  BY <1>1, <1>2, <1>3 DEF Next, Done, Calls

\* Nothing comes through from one that has given up.
LEMMA CutStep == ASSUME IInv, Cut, [Next]_vars PROVE Cut'
<1>1. TypeOK
  BY DEF IInv
<1>2. prog' = prog /\ \A p \in Procs : pc'[p] = pc[p] \/ Moves(p)
  BY <1>1, StepMoves
<1> SUFFICES ASSUME NEW q \in failed'
             PROVE  /\ pc'[q] > Len(P(q).ops)
                    /\ \A c \in prog.conns : c.src = q \/ IsBehind(c.src, q) =>
                         \A i \in RecvAt(P(c.dst)) : P(c.dst).ops[i].port = c.dp
                                                    => ~(pc'[c.dst] > i)
  BY <1>2 DEF Cut, Stopped, IsBehind, P
<1>3. q \in Procs
  BY <1>1, StepMoves
<1>4. CASE q \notin failed
  <2>1. /\ Now(q).do = "run" /\ Stopped(q)'
        /\ \A p \in Procs : p # q => pc'[p] = pc[p]
    BY <1>1, <1>4, FailsAtRun
  <2>2. HasAll(q)
    <3>1. pc[q] \in DOMAIN P(q).ops /\ P(q).ops[pc[q]].do = "run"
      BY <1>1, <1>3, <2>1, AtOp
    <3>2. QED
      BY <1>1, <1>3, <3>1, PastReceives DEF RecvAt
  <2>3. ASSUME NEW c \in prog.conns, c.src = q \/ IsBehind(c.src, q),
               NEW i \in RecvAt(P(c.dst)), P(c.dst).ops[i].port = c.dp, pc'[c.dst] > i
        PROVE  FALSE
    <3>1. c.dst \in Procs
      BY <1>1, Running
    <3>2. pc[c.dst] > i
      BY <2>1, <2>2, <2>3, <3>1 DEF HasAll
    <3>3. QED
      BY <1>3, <2>1, <2>3, <3>2, NothingThrough
  <2>4. pc'[q] > Len(P(q).ops)
    BY <1>2, <2>1 DEF Stopped, P
  <2>5. QED
    BY <2>3, <2>4
<1>5. CASE q \in failed
  <2>1. Stopped(q)
    BY <1>5 DEF Cut
  <2>2. pc'[q] > Len(P(q).ops)
    <3>1. /\ Len(P(q).ops) \in Nat /\ DOMAIN P(q).ops = 1 .. Len(P(q).ops)
          /\ RecvAt(P(q)) \subseteq 1 .. Len(P(q).ops)
      BY <1>1, <1>3, Running, Phases
    <3>2. QED
      BY <1>2, <1>3, <2>1, <3>1 DEF Moves, Stopped
  <2>3. ASSUME NEW c \in prog.conns, c.src = q \/ IsBehind(c.src, q),
               NEW i \in RecvAt(P(c.dst)), P(c.dst).ops[i].port = c.dp, pc'[c.dst] > i
        PROVE  FALSE
    <3>1. ~(pc[c.dst] > i)
      BY <1>5, <2>3 DEF Cut
    <3>2. c.src \in Procs /\ ~Stopped(c.src) /\ HasAll(c.src)
      BY <1>1, <2>3, <3>1, PassReceive
    <3>3. QED
      BY <1>1, <1>5, <2>1, <2>3, <3>2, BehindLacks
  <2>4. QED
    BY <2>2, <2>3
<1>6. QED
  BY <1>4, <1>5

\* Who reports a pass has all its inputs then, and cannot give up any more: its
\* run is behind it.
LEMMA AnnouncedStep == ASSUME TypeOK, Cut, Announced, [Next]_vars PROVE Announced'
<1>1. prog' = prog /\ \A p \in Procs : pc'[p] = pc[p] \/ Moves(p)
  BY StepMoves
<1> SUFFICES ASSUME "pass" \in verdict'
             PROVE  \E p \in Procs \ failed' :
                      /\ \A i \in RecvAt(P(p)) : pc'[p] > i
                      /\ \E i \in DOMAIN P(p).ops : Announces(P(p), i) /\ pc'[p] > i
  BY <1>1 DEF Announced, HasAll, Procs, P
<1>2. ASSUME NEW p \in Procs, NEW i \in DOMAIN P(p).ops, pc[p] > i PROVE pc'[p] > i
  <2>1. /\ pc[p] \in 1 .. Len(P(p).ops) + 1 /\ Len(P(p).ops) \in Nat
        /\ i \in 1 .. Len(P(p).ops) /\ RecvAt(P(p)) \subseteq 1 .. Len(P(p).ops)
    BY Running, Phases
  <2>2. QED
    BY <1>1, <1>2, <2>1 DEF Moves
<1>3. \A p \in Procs : RecvAt(P(p)) \subseteq DOMAIN P(p).ops
  BY DEF RecvAt
<1>4. CASE "pass" \in verdict
  <2>1. PICK p \in Procs \ failed :
          HasAll(p) /\ \E i \in DOMAIN P(p).ops : Announces(P(p), i) /\ pc[p] > i
    BY <1>4 DEF Announced
  <2>2. PICK i \in DOMAIN P(p).ops : Announces(P(p), i) /\ pc[p] > i
    BY <2>1
  <2>3. p \notin failed'
    <3> SUFFICES ASSUME p \in failed' PROVE FALSE
      OBVIOUS
    <3>1. Now(p).do = "run"
      BY <2>1, FailsAtRun
    <3>2. /\ pc[p] \in DOMAIN P(p).ops /\ Now(p) = P(p).ops[pc[p]]
          /\ pc[p] \in 1 .. Len(P(p).ops) /\ Len(P(p).ops) \in Nat
          /\ DOMAIN P(p).ops = 1 .. Len(P(p).ops)
      BY <2>1, <3>1, AtOp, Running, Phases
    <3>3. P(p).ops[i].do # "run"
      BY <2>1, <2>2, <3>1, <3>2, Running, Once DEF RunAt
    <3>4. i = Len(P(p).ops)
      BY <2>1, <2>2, <3>3, Running, Once DEF Announces
    <3>5. QED
      BY <2>2, <3>2, <3>4
  <2>4. QED
    BY <1>2, <1>3, <2>1, <2>2, <2>3 DEF HasAll
<1>5. CASE "pass" \notin verdict
  <2>1. CASE \E c \in prog.conns : Meet(c)
    BY <1>5, <2>1 DEF Meet
  <2>2. CASE \E p \in Procs : Calls(p)
    <3>1. PICK p \in Procs : Calls(p)
      BY <2>2
    <3>2. ~Quits(p)
      BY <1>5 DEF Quits
    <3>3. /\ Completed(p) \/ CheckAll(p)
          /\ failed' = failed /\ Now(p).do \in {"run", "check"}
      BY <3>1, <3>2, CallKinds DEF Completed, CheckAll
    <3>4. /\ pc[p] \in DOMAIN P(p).ops /\ Now(p) = P(p).ops[pc[p]] /\ ~Stopped(p)
          /\ pc[p] \in 1 .. Len(P(p).ops) /\ Len(P(p).ops) \in Nat
      BY <3>3, AtOp, Running, Phases DEF Now, Op
    <3>5. HasAll(p) /\ p \notin failed'
      BY <3>3, <3>4, PastReceives DEF RecvAt, Cut
    <3>6. pc'[p] > pc[p]
      BY <3>1, <3>4, CallMoves DEF TypeOK
    <3>7. Announces(P(p), pc[p])
      BY <1>5, <3>3, <3>4 DEF Completed, Computes, CheckAll, Announces
    <3>8. \A i \in RecvAt(P(p)) : pc'[p] > i
      BY <1>2, <1>3, <3>5 DEF HasAll
    <3>9. QED
      BY <3>4, <3>5, <3>6, <3>7, <3>8
  <2>3. CASE UNCHANGED vars
    BY <1>5, <2>3 DEF vars
  <2>4. QED
    BY <2>1, <2>2, <2>3 DEF Next, Done, Calls
<1>6. QED
  BY <1>4, <1>5

\* In every set of well-built programs, whatever the stages compute and however
\* many tensor errors come: a pass is worth what its reporter is behind.
THEOREM PassEarnedHolds == Spec => []PassEarned
<1>1. Init => Cut /\ Announced
  BY DEF Init, Cut, Announced
<1>2. IInv /\ Cut /\ Announced /\ [Next]_vars => IInv' /\ Cut' /\ Announced'
  BY TypeStep, SentFirstStep, InOrderStep, CutStep, AnnouncedStep DEF IInv
<1>3. IInv /\ Cut /\ Announced => PassEarned
  <2> SUFFICES ASSUME IInv, Cut, Announced, "pass" \in verdict
               PROVE  \E p \in Procs \ failed :
                        /\ \E i \in DOMAIN P(p).ops : Announces(P(p), i) /\ pc[p] > i
                        /\ \A q \in failed : ~IsBehind(p, q)
    BY DEF PassEarned
  <2>1. PICK p \in Procs \ failed :
          HasAll(p) /\ \E i \in DOMAIN P(p).ops : Announces(P(p), i) /\ pc[p] > i
    BY DEF Announced
  <2>2. QED
    BY <2>1, BehindLacks DEF IInv
<1>4. QED
  BY <1>1, <1>2, <1>3, InitIInv, PTL DEF Spec
=============================================================================
