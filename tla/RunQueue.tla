------------------------------ MODULE RunQueue ------------------------------
(***************************************************************************)
(* The run queue of one hart as the linked list it is: struct tpa_sched_   *)
(* runq and the nodes of tpa/lib/src/scheduler.c, with everything in       *)
(* tpa/lib/src/tpa_runtime.c that pushes a node or pops one.               *)
(*                                                                         *)
(* The list is intrusive and nothing in it tests whether a node is already *)
(* linked, so it stays a list only as long as nobody schedules a process   *)
(* twice.  Processes of this hart are queued by its boot, by their own     *)
(* yields, and by tpa_reload for a ready bit, whatever state they are in.  *)
(* A process is woken once for each time it blocks, from the moment other  *)
(* harts can see that it will: before tpa_step has stored its state, as in *)
(* tests/tpa_queue/wake.c and in the channels.                             *)
(*                                                                         *)
(* Only the home hart pushes and pops, so the queue's lock is never found  *)
(* taken and each operation under it is one step.  One ready word.         *)
(***************************************************************************)
EXTENDS Integers, Sequences, FiniteSets

CONSTANT Slot       \* process slots of this hart

ASSUME SlotAssumption == Slot \subseteq Nat /\ IsFiniteSet(Slot)

Null == -1          \* a null pointer

VARIABLES
  head, tail,   \* runq[hartid]
  next,         \* node->next of every slot's node
  st,           \* state of the process in each slot
  seen,         \* processes others know to block and have not woken yet
  bits,         \* rx.bits
  phase,        \* where the hart is in its loop
  pending,      \* tpa_reload's copy of the ready word
  cur,          \* the slot tpa_step runs
  fifo          \* history: slots pushed and not popped, in order

listVars == <<head, tail, next, fifo>>
vars     == <<head, tail, next, fifo, st, seen, bits, phase, pending, cur>>

\* "blocking": the continuation has let others know, and will return an
\* operation that blocks.
ProcState == {"unborn", "ready", "run", "blocking", "wait", "dead"}
Phase     == {"boot", "reload", "drain", "pop", "step"}

\* tpa_sched_init and tpa_sched_node_init.
Init ==
  /\ head = Null /\ tail = Null /\ next = [s \in Slot |-> Null] /\ fifo = <<>>
  /\ st = [s \in Slot |-> "unborn"] /\ seen = {} /\ bits = {}
  /\ phase = "boot" /\ pending = {} /\ cur = Null

-----------------------------------------------------------------------------
(* tpa_sched_run and tpa_sched_pop.                                        *)

\* Mutant: the tail pointer is set for the first node only.
MutPush(s) ==
  /\ next' = IF head = Null THEN [next EXCEPT ![s] = Null]
             ELSE [next EXCEPT ![s] = Null, ![tail] = s]
  /\ head' = IF head = Null THEN s ELSE head
  /\ tail' = IF head = Null THEN s ELSE tail
  /\ fifo' = Append(fifo, s)

\* Mutant: a node is linked in at the head.
MutPushFront(s) ==
  /\ next' = [next EXCEPT ![s] = head]
  /\ head' = s
  /\ tail' = IF head = Null THEN s ELSE tail
  /\ fifo' = <<s>> \o fifo

\* runq_push: link the node in behind the tail.
Push(s) ==
  /\ next' = IF head = Null THEN [next EXCEPT ![s] = Null]
             ELSE [next EXCEPT ![s] = Null, ![tail] = s]
  /\ head' = IF head = Null THEN s ELSE head
  /\ tail' = s
  /\ fifo' = Append(fifo, s)

\* The part of tpa_sched_pop for a queue that is not empty.
Unlink ==
  /\ head' = next[head]
  /\ tail' = IF next[head] = Null THEN Null ELSE tail
  /\ next' = [next EXCEPT ![head] = Null]
  /\ fifo' = Tail(fifo)

\* runtime_schedule_local.
Schedule(s) == st' = [st EXCEPT ![s] = "ready"] /\ Push(s)

-----------------------------------------------------------------------------
(* The home hart.                                                          *)

\* tpa_boot_hart: register and schedule the hart's processes, in the order
\* of the boot vector.
Boot(s) ==
  /\ phase = "boot" /\ st[s] = "unborn"
  /\ Schedule(s)
  /\ UNCHANGED <<seen, bits, phase, pending, cur>>

BootDone ==
  /\ phase = "boot" /\ \A s \in Slot : st[s] # "unborn"
  /\ phase' = "reload"
  /\ UNCHANGED <<listVars, st, seen, bits, pending, cur>>

\* Mutant: the ready word is loaded and not exchanged with 0.
MutReload ==
  /\ phase = "reload"
  /\ pending' = bits
  /\ phase' = "drain"
  /\ UNCHANGED <<listVars, st, seen, bits, cur>>

\* tpa_reload: exchange the ready word with 0 ...
Reload ==
  /\ phase = "reload"
  /\ pending' = bits /\ bits' = {}
  /\ phase' = "drain"
  /\ UNCHANGED <<listVars, st, seen, cur>>

\* Mutant: one bit is handled and the others are dropped.
MutDrain(s) ==
  /\ phase = "drain" /\ s \in pending /\ \A t \in pending : s <= t
  /\ pending' = {}
  /\ IF st[s] = "dead" THEN UNCHANGED <<listVars, st>> ELSE Schedule(s)
  /\ UNCHANGED <<seen, bits, phase, cur>>

\* ... and schedule each process whose bit was set, unless it is dead.
Drain(s) ==
  /\ phase = "drain" /\ s \in pending /\ \A t \in pending : s <= t
  /\ pending' = pending \ {s}
  /\ IF st[s] = "dead" THEN UNCHANGED <<listVars, st>> ELSE Schedule(s)
  /\ UNCHANGED <<seen, bits, phase, cur>>

DrainDone ==
  /\ phase = "drain" /\ pending = {}
  /\ phase' = "pop"
  /\ UNCHANGED <<listVars, st, seen, bits, pending, cur>>

\* tpa_runq_pop finds nothing: round again (module Doorbell has the sleep).
PopNone ==
  /\ phase = "pop" /\ head = Null
  /\ phase' = "reload"
  /\ UNCHANGED <<listVars, st, seen, bits, pending, cur>>

\* tpa_runq_pop, and tpa_step begins.
Pop ==
  /\ phase = "pop" /\ head # Null
  /\ Unlink
  /\ cur' = head /\ st' = [st EXCEPT ![head] = "run"]
  /\ phase' = "step"
  /\ UNCHANGED <<seen, bits, pending>>

EndStep == cur' = Null /\ phase' = "reload"

\* The continuation lets another process know that it is about to block.
Announce ==
  /\ phase = "step" /\ st[cur] = "run"
  /\ st' = [st EXCEPT ![cur] = "blocking"] /\ seen' = seen \cup {cur}
  /\ UNCHANGED <<listVars, bits, phase, pending, cur>>

\* TPA_OP_BLOCK.
Block ==
  /\ phase = "step" /\ st[cur] = "blocking"
  /\ st' = [st EXCEPT ![cur] = "wait"]
  /\ EndStep
  /\ UNCHANGED <<listVars, seen, bits, pending>>

\* TPA_OP_YIELD.
Yield ==
  /\ phase = "step" /\ st[cur] = "run"
  /\ Schedule(cur)
  /\ EndStep
  /\ UNCHANGED <<seen, bits, pending>>

\* TPA_OP_STOP.
Stop ==
  /\ phase = "step" /\ st[cur] = "run"
  /\ st' = [st EXCEPT ![cur] = "dead"]
  /\ EndStep
  /\ UNCHANGED <<listVars, seen, bits, pending>>

-----------------------------------------------------------------------------
\* Mutant: the waker does not remember that it has woken the process.
MutWake(s) ==
  /\ s \in seen
  /\ bits' = bits \cup {s}
  /\ UNCHANGED <<listVars, st, seen, phase, pending, cur>>

\* tpa_wake by any process: tpa_sched_set_ready_slot.
Wake(s) ==
  /\ s \in seen
  /\ seen' = seen \ {s} /\ bits' = bits \cup {s}
  /\ UNCHANGED <<listVars, st, phase, pending, cur>>

Hart == \/ \E s \in Slot : Boot(s) \/ Drain(s)
        \/ BootDone \/ Reload \/ DrainDone \/ PopNone \/ Pop
        \/ Announce \/ Block \/ Yield \/ Stop
Next == Hart \/ \E s \in Slot : Wake(s)

\* The hart runs, and continuations return.
Spec == Init /\ [][Next]_vars /\ WF_vars(Hart)

-----------------------------------------------------------------------------
\* Type invariant.
TypeOK ==
  /\ head \in Slot \cup {Null} /\ tail \in Slot \cup {Null}
  /\ next \in [Slot -> Slot \cup {Null}] /\ fifo \in Seq(Slot)
  /\ st \in [Slot -> ProcState] /\ seen \subseteq Slot /\ bits \subseteq Slot
  /\ phase \in Phase /\ pending \subseteq Slot /\ cur \in Slot \cup {Null}

\* The pointers are the queue: head, tail and the chain of next pointers hold
\* what was pushed and not popped, in the order it was pushed, and a node
\* outside the queue points nowhere.
Linked ==
  /\ fifo = <<>> => head = Null /\ tail = Null
  /\ fifo # <<>> => head = fifo[1] /\ tail = fifo[Len(fifo)]
  /\ \A i \in 1 .. Len(fifo) :
       next[fifo[i]] = IF i = Len(fifo) THEN Null ELSE fifo[i + 1]
  /\ \A s \in Slot : (\A i \in 1 .. Len(fifo) : fifo[i] # s) => next[s] = Null

\* No process is in the queue twice, and the queue holds the ready ones: a
\* second push of a linked node would cut off every node behind it.
Once == \A i, j \in 1 .. Len(fifo) : fifo[i] = fifo[j] => i = j
Exact == \A s \in Slot : (\E i \in 1 .. Len(fifo) : fifo[i] = s) <=> st[s] = "ready"
QueueExact == Once /\ Exact

\* A wake meets its process parked, although it may be sent before: a ready
\* bit belongs to a process that waits or is about to, and is taken, between
\* steps, only for one that waits.
WakeMeetsWait ==
  /\ \A s \in seen \cup bits : st[s] \in {"blocking", "wait"}
  /\ \A s \in pending : st[s] = "wait"
  /\ seen \cap bits = {} /\ (seen \cup bits) \cap pending = {}

\* Where the hart is: a step has its process, and only a step has one.
PhaseOK ==
  /\ phase = "step" => cur \in Slot /\ st[cur] \in {"run", "blocking"}
  /\ \A s \in Slot : st[s] \in {"run", "blocking"} => phase = "step" /\ cur = s
  /\ pending # {} => phase = "drain"

\* The inductive invariant behind Linked and QueueExact.
IInv == TypeOK /\ Linked /\ QueueExact /\ WakeMeetsWait /\ PhaseOK

\* Nobody is overtaken (runq_push, tpa_sched_pop): a step leaves a process of
\* the queue in its place, or one nearer to the head, or it was the head and
\* now runs.
InTurn ==
  \A i \in 1 .. Len(fifo) :
    \/ i <= Len(fifo') /\ fifo'[i] = fifo[i]
    \/ i > 1 /\ i - 1 <= Len(fifo') /\ fifo'[i - 1] = fifo[i]
    \/ i = 1 /\ st'[fifo[i]] = "run"
NeverOvertaken == [][InTurn]_vars

\* Every process that is ready, by boot, yield or wake, gets to run, however
\* often the others yield; and a wake, even one sent before its process has
\* blocked, is followed by a run.
ReadyRuns == \A s \in Slot : st[s] = "ready" ~> st[s] = "run"
WokenRuns == \A s \in Slot : s \in bits ~> st[s] = "run"
=============================================================================
