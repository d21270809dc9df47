------------------------------- MODULE Dataflow -------------------------------
(***************************************************************************)
(* What a network program computes, from its processes and connections     *)
(* alone.  Each process is a fixed list of operations and each connection  *)
(* carries one message, so what a process holds at each of its operations  *)
(* is determined by what its senders hold at theirs: a set of equations,   *)
(* whose solution every execution must follow, whatever its interleaving.  *)
(***************************************************************************)
EXTENDS Network

Ops(g, p) == g.proc[p].ops

\* The send of what connection c carries, and the buffer it is in.
SendOn(g, c)   == CHOOSE i \in SendAt(g.proc[c.src]) : Ops(g, c.src)[i].port = c.sp
Carried(g, held, c) == LET i == SendOn(g, c) IN held[c.src][i][Ops(g, c.src)[i].buf]

\* held[p][i] is what process p holds before its operation i: the equations.
Solves(g, held) ==
  /\ \A p \in DOMAIN g.proc : held[p][1] = g.proc[p].init
  /\ \A p \in DOMAIN g.proc : \A i \in DOMAIN Ops(g, p) :
       LET proc == g.proc[p]
           now  == held[p][i]
           next == held[p][i + 1]
       IN CASE proc.ops[i].do = "recv"  -> \A c \in g.conns :
                 c.dst = p /\ c.dp = proc.ops[i].port
                   => next = (proc.ops[i].buf :> Carried(g, held, c)) @@ now
            [] proc.ops[i].do = "run"   ->
                 \A after \in RunSteps(g.net, proc.stage, StageFlaws[proc.stage], now) :
                   next = Kept(proc, i, after)
            [] proc.ops[i].do = "check" -> next = IF proc.keeps THEN now ELSE Kept(proc, i, now)
            [] proc.ops[i].do = "send"  -> next = Kept(proc, i, now)

-----------------------------------------------------------------------------
(***************************************************************************)
(* The solution: the processes go on in rounds, each by one operation      *)
(* where it can.                                                           *)
(***************************************************************************)
\* What process p holds behind its next operation, given what is known.
NextHeld(g, known, p) ==
  LET proc == g.proc[p]
      i    == Len(known[p])
      now  == known[p][i]
      op   == proc.ops[i]
      from == {c \in g.conns : c.dst = p /\ c.dp = op.port}
  IN IF i > Len(proc.ops) THEN {}
     ELSE CASE op.do = "recv"  -> {(op.buf :> Carried(g, known, c)) @@ now :
                                     c \in {d \in from : SendOn(g, d) <= Len(known[d.src])}}
            [] op.do = "run"   -> {Kept(proc, i, after) : after \in
                                     RunSteps(g.net, proc.stage, StageFlaws[proc.stage], now)}
            [] op.do = "check" -> {IF proc.keeps THEN now ELSE Kept(proc, i, now)}
            [] op.do = "send"  -> {Kept(proc, i, now)}

Round(g, known) ==
  [p \in DOMAIN g.proc |-> LET more == NextHeld(g, known, p) IN
     IF more = {} THEN known[p] ELSE Append(known[p], CHOOSE m \in more : TRUE)]

\* The solution, as the only element of a set: a set is evaluated round by round.
Known(g) ==
  LET last  == SumFunction([p \in DOMAIN g.proc |-> Len(Ops(g, p))])
      start == [p \in DOMAIN g.proc |-> <<g.proc[p].init>>]
  IN FoldLeft(LAMBDA knowns, n : {Round(g, known) : known \in knowns}, {start},
              [n \in 1 .. last |-> n])

Flow == [g \in Programs |-> CHOOSE known \in Known(g) : TRUE]

-----------------------------------------------------------------------------
(***************************************************************************)
(* Properties.                                                             *)
(***************************************************************************)
\* Every execution of the program that runs follows these equations: what a
\* process holds at an operation does not depend on how the processes have
\* interleaved, nor on which of several waiting ones the scheduler took first.
Follows(held) ==
  \A p \in Procs : /\ ~Stopped(p) => mem[p] = held[p][pc[p]]
                   /\ \E i \in 1 .. Len(P(p).ops) + 1 : mem[p] = held[p][i]

Determinate == Follows(Flow[prog])

\* What the solution says is right: every buffer holds a node of the
\* reference network, spoilt at known sites only; a message fits its
\* connection, no stage gives up and every check is satisfied; and whoever
\* can report a pass has the results from then on.
RightValues(g, held) ==
  \A p \in DOMAIN g.proc : \A i \in 1 .. Len(Ops(g, p)) + 1 : \A b \in DOMAIN held[p][i] :
    held[p][i][b].id # "?" /\ held[p][i][b].bad \subseteq KnownSites

RightMessages(g, held) == \A c \in g.conns : Bytes(Carried(g, held, c)) <= c.bytes

RightSteps(g, held) ==
  \A p \in DOMAIN g.proc : \A i \in DOMAIN Ops(g, p) :
    /\ Ops(g, p)[i].do = "run"   => ~StageStops(g.proc[p], i, held[p][i])
    /\ Ops(g, p)[i].do = "check" => Satisfied(g.proc[p], held[p][i])

RightResults(g, held) ==
  /\ \A p \in DOMAIN g.proc : \A i \in DOMAIN Ops(g, p) :
       Announces(g.proc[p], i) =>
         \A k \in i + 1 .. Len(Ops(g, p)) + 1 : \A r \in Results[g.name] :
           r[1] = p /\ r[2] \in DOMAIN held[p][k] /\ held[p][k][r[2]].id = r[3]
  /\ \E p \in DOMAIN g.proc : \E i \in DOMAIN Ops(g, p) : Announces(g.proc[p], i)

Right(g, held) ==
  /\ Solves(g, held)
  /\ RightValues(g, held) /\ RightMessages(g, held)
  /\ RightSteps(g, held) /\ RightResults(g, held)

RightFlow == [g \in Programs |-> Right(g, Flow[g])]

\* The equations of the program that runs have a solution, which comes to the
\* end of every process and is right (the .tpp files, the stages).
FlowRight == RightFlow[prog]

\* When nothing can happen any more, all processes have come to their end and
\* a pass, and nothing else, has been reported.
EndsWell == ~GoesOn => (\A p \in Procs : Stopped(p)) /\ verdict = {"pass"}
===============================================================================
