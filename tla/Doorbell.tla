------------------------------ MODULE Doorbell ------------------------------
(***************************************************************************)
(* How one hart goes to sleep and how other harts wake it: the ready bits, *)
(* the armed flag and the bell of tpa/lib/src/scheduler.c, the hardware    *)
(* credit counter behind tpa_hal_wake_hart and tpa_hal_wait_for_wake, and  *)
(* the main loop of tpa-device/runtime/tpa_scheduler.c.                    *)
(*                                                                         *)
(* The hart under study is the home of the processes in Slot.  A Waker is  *)
(* a process of some other hart: it completes rendezvous with processes of *)
(* this hart and wakes them, may call tpa_fail, and may stop.  A wake goes *)
(* to a process that is parked and that nobody else is waking, which is    *)
(* what module Channel establishes for channel operations.                 *)
(*                                                                         *)
(* Every access to memory that two harts share is a step of its own.       *)
(* Global atomics and fences make those accesses sequentially consistent;  *)
(* work on hart-local data is merged into the adjacent step.               *)
(***************************************************************************)
EXTENDS Integers, Sequences, FiniteSets

CONSTANTS
  Slot,         \* process slots homed on this hart
  NrWords,      \* TPA_SCHED_READY_WORDS
  WordOf,       \* slot >> 6: the ready word that holds a slot's bit
  Waker,        \* processes of other harts
  InitCredits,  \* most credits left over from start-up
  CreditMax,    \* the credit counter wraps to 0 beyond this value
  MaxCalls      \* bound: wake and fail calls issued in a behaviour

ASSUME SlotAssumption   == Slot \subseteq Nat /\ IsFiniteSet(Slot)
ASSUME WordAssumption   == NrWords \in Nat \ {0} /\ WordOf \in [Slot -> 0 .. NrWords - 1]
ASSUME WakerAssumption  == IsFiniteSet(Waker)
\* Fewer calls than the counter holds (65,535 on ET-SoC-1): it never wraps.
ASSUME CreditAssumption ==
  /\ InitCredits \in Nat /\ CreditMax \in Nat /\ MaxCalls \in Nat
  /\ InitCredits + MaxCalls < CreditMax

NoSlot == -1      \* no current process, no target

VARIABLES
  bits,     \* rx.bits: slots whose ready bit is set
  armed,    \* rx.armed
  bell,     \* rx.bell
  credit,   \* the hart's fast credit counter 0
  live,     \* live_procs
  failed,   \* the global failed flag
  st,       \* state of the process in each slot
  runq,     \* the hart's run queue
  hpc,      \* where the hart is in tpa_scheduler_main
  word,     \* loop index of tpa_reload
  pending,  \* tpa_reload's local copy of the ready word it drains
  cur,      \* current_proc: the slot tpa_step runs
  wpc,      \* where each waker is in runtime_wake_slot or tpa_fail
  wslot,    \* the slot each waker is waking
  calls     \* wake and fail calls issued so far

bellVars == <<bits, armed, bell, credit>>
overVars == <<live, failed>>
loopVars == <<hpc, word, pending, cur>>
wakeVars == <<wpc, wslot>>
vars     == <<bits, armed, bell, credit, live, failed, st, runq,
              hpc, word, pending, cur, wpc, wslot, calls>>

Over == failed = 1 \/ live = 0              \* tpa_failed() || tpa_done()

\* The counter after one more credit; the hardware wraps on overflow.
Posted(c) == (c + 1) % (CreditMax + 1)

ProcState == {"wait", "waking", "ready", "run", "dead"}

\* Where armed is 1: from set_armed(1) up to the set_armed(0) of either exit.
ArmedPc == {"take2", "drain2", "pop2", "disarmFound", "sleepCheck", "wait", "disarm"}
HartPc  == ArmedPc \cup {"check", "take1", "drain1", "pop1", "step", "tail", "arm",
                         "bellFound", "takeBell", "left"}
Posting == {"ring", "bell", "wake", "failWake", "stopWake"}
WakerPc == Posting \cup {"run", "set", "stopped"}

\* Boot queued every process of this hart in boot-vector order.  Credits of
\* the two start-up wake_all calls that tpa_init did not consume are left.
Init ==
  /\ bits = {} /\ armed = 0 /\ bell = 0
  /\ credit \in 0 .. InitCredits
  /\ live = Cardinality(Slot) + Cardinality(Waker)
  /\ failed = 0
  /\ st = [s \in Slot |-> "ready"]
  /\ runq \in {q \in [1 .. Cardinality(Slot) -> Slot] : \A s \in Slot : \E i \in DOMAIN q : q[i] = s}
  /\ hpc = "check" /\ word = 0 /\ pending = {} /\ cur = NoSlot
  /\ wpc = [w \in Waker |-> "run"] /\ wslot = [w \in Waker |-> NoSlot]
  /\ calls = 0

-----------------------------------------------------------------------------
(* The hart: tpa_scheduler_main and the tpa_reload and tpa_step it calls.  *)

\* if (tpa_failed() || tpa_done()) break;
CheckOver ==
  /\ hpc = "check"
  /\ hpc' = IF Over THEN "left" ELSE "take1"
  /\ word' = 0
  /\ UNCHANGED <<bellVars, overVars, st, runq, pending, cur, wakeVars, calls>>

\* Mutant: the ready word is loaded and not exchanged with 0.
MutLoadWord(take, drain) ==
  /\ hpc = take
  /\ pending' = {s \in bits : WordOf[s] = word}
  /\ hpc' = drain
  /\ UNCHANGED <<bellVars, overVars, st, runq, word, cur, wakeVars, calls>>

\* tpa_reload, take_ready_word: exchange one ready word with 0.
TakeWord(take, drain) ==
  /\ hpc = take
  /\ pending' = {s \in bits : WordOf[s] = word}
  /\ bits' = {s \in bits : WordOf[s] # word}
  /\ hpc' = drain
  /\ UNCHANGED <<armed, bell, credit, overVars, st, runq, word, cur, wakeVars, calls>>

\* tpa_reload, while (bits): lowest bit first; a woken process goes to the
\* tail of the run queue, a dead one is skipped.
DrainSlot(drain) ==
  /\ hpc = drain
  /\ \E s \in pending :
       /\ \A t \in pending : s <= t
       /\ pending' = pending \ {s}
       /\ IF st[s] = "dead"
          THEN UNCHANGED <<st, runq>>
          ELSE st' = [st EXCEPT ![s] = "ready"] /\ runq' = Append(runq, s)
  /\ UNCHANGED <<bellVars, overVars, hpc, word, cur, wakeVars, calls>>

\* tpa_reload: next word, or on to tpa_runq_pop.
NextWord(drain, take, pop) ==
  /\ hpc = drain /\ pending = {}
  /\ IF word + 1 < NrWords
     THEN word' = word + 1 /\ hpc' = take
     ELSE word' = 0 /\ hpc' = pop
  /\ UNCHANGED <<bellVars, overVars, st, runq, pending, cur, wakeVars, calls>>

\* Mutant: the head of the run queue is not unlinked.
MutPeek(pop, found, empty) ==
  /\ hpc = pop
  /\ IF runq = <<>>
     THEN hpc' = empty /\ UNCHANGED cur
     ELSE hpc' = found /\ cur' = Head(runq)
  /\ UNCHANGED <<bellVars, overVars, st, runq, word, pending, wakeVars, calls>>

\* tpa_runq_pop; what follows depends on whether it found a process.
Pop(pop, found, empty) ==
  /\ hpc = pop
  /\ IF runq = <<>>
     THEN hpc' = empty /\ UNCHANGED <<runq, cur>>
     ELSE hpc' = found /\ cur' = Head(runq) /\ runq' = Tail(runq)
  /\ UNCHANGED <<bellVars, overVars, st, word, pending, wakeVars, calls>>

\* Mutant: no second reload between arming and sleeping.
MutArmAndSleep(from, on, to) ==
  /\ hpc = from
  /\ armed' = on
  /\ hpc' = IF to = "take2" THEN "sleepCheck" ELSE to
  /\ UNCHANGED <<bits, bell, credit, overVars, st, runq, word, pending, cur, wakeVars, calls>>

\* tpa_sched_set_armed(hartid, on).
SetArmed(from, on, to) ==
  /\ hpc = from
  /\ armed' = on
  /\ hpc' = to
  /\ UNCHANGED <<bits, bell, credit, overVars, st, runq, word, pending, cur, wakeVars, calls>>

\* Mutant: the bell is read and not exchanged with 0.
MutReadBell(from, to) ==
  /\ hpc = from
  /\ hpc' = to
  /\ UNCHANGED <<bellVars, overVars, st, runq, word, pending, cur, wakeVars, calls>>

\* tpa_sched_take_bell(hartid).
TakeBell(from, to) ==
  /\ hpc = from
  /\ bell' = 0
  /\ hpc' = to
  /\ UNCHANGED <<bits, armed, credit, overVars, st, runq, word, pending, cur, wakeVars, calls>>

\* if (!tpa_done() && !tpa_failed()) tpa_hal_wait_for_wake();
SleepCheck ==
  /\ hpc = "sleepCheck"
  /\ hpc' = IF Over THEN "disarm" ELSE "wait"
  /\ UNCHANGED <<bellVars, overVars, st, runq, word, pending, cur, wakeVars, calls>>

\* tpa_hal_wait_for_wake: stalls until there is a credit, then consumes it.
Wait ==
  /\ hpc = "wait" /\ credit > 0
  /\ credit' = credit - 1
  /\ hpc' = "disarm"
  /\ UNCHANGED <<bits, armed, bell, overVars, st, runq, word, pending, cur, wakeVars, calls>>

-----------------------------------------------------------------------------
(* tpa_step: the continuation runs, then its operation is interpreted.     *)

\* p->state = TPA_PROCESS_RUN; op = p->k().
BeginStep ==
  /\ hpc = "step" /\ st[cur] = "ready"
  /\ st' = [st EXCEPT ![cur] = "run"]
  /\ UNCHANGED <<bellVars, overVars, runq, loopVars, wakeVars, calls>>

Running == hpc = "step" /\ st[cur] = "run"

\* TPA_OP_YIELD, or a channel operation whose peer was already waiting.
StepYield ==
  /\ Running
  /\ st' = [st EXCEPT ![cur] = "ready"] /\ runq' = Append(runq, cur)
  /\ hpc' = "tail"
  /\ UNCHANGED <<bellVars, overVars, word, pending, cur, wakeVars, calls>>

\* TPA_OP_BLOCK, or a channel operation that parks the process: from here on
\* a peer may wake it, even before tpa_step has returned.
StepBlock ==
  /\ Running
  /\ st' = [st EXCEPT ![cur] = "wait"]
  /\ hpc' = "tail"
  /\ UNCHANGED <<bellVars, overVars, runq, word, pending, cur, wakeVars, calls>>

\* TPA_OP_STOP: the process that brings live_procs to 0 wakes every hart.
StepStop ==
  /\ Running
  /\ st' = [st EXCEPT ![cur] = "dead"]
  /\ live' = live - 1
  /\ credit' = IF live = 1 THEN Posted(credit) ELSE credit
  /\ hpc' = "tail"
  /\ UNCHANGED <<bits, armed, bell, failed, runq, word, pending, cur, wakeVars, calls>>

\* tpa_fail called by the running continuation.
StepFail ==
  /\ Running /\ calls < MaxCalls
  /\ failed' = 1
  /\ credit' = Posted(credit)
  /\ calls' = calls + 1
  /\ UNCHANGED <<bits, armed, bell, live, st, runq, loopVars, wakeVars>>

\* The running process completes a rendezvous with a parked process of its
\* own hart: runtime_wake_slot on the hart itself.
StepWake(s) ==
  /\ Running /\ calls < MaxCalls
  /\ st[s] = "wait"
  /\ st' = [st EXCEPT ![s] = "waking"]
  /\ bits' = bits \cup {s}
  /\ IF armed = 1 /\ bell = 0
     THEN bell' = 1 /\ credit' = Posted(credit)
     ELSE UNCHANGED <<bell, credit>>
  /\ calls' = calls + 1
  /\ UNCHANGED <<armed, overVars, runq, loopVars, wakeVars>>

\* current_proc[hartid] = 0 and the final flush of tpa_step.
EndStep ==
  /\ hpc = "tail"
  /\ cur' = NoSlot /\ hpc' = "check"
  /\ UNCHANGED <<bellVars, overVars, st, runq, word, pending, wakeVars, calls>>

-----------------------------------------------------------------------------
(* The wakers: runtime_wake_slot, tpa_fail and TPA_OP_STOP on other harts. *)

\* A rendezvous with parked process s completes; the waker will wake s.
BeginWake(w) ==
  /\ wpc[w] = "run" /\ calls < MaxCalls
  /\ \E s \in Slot :
       /\ st[s] = "wait"
       /\ st' = [st EXCEPT ![s] = "waking"]
       /\ wslot' = [wslot EXCEPT ![w] = s]
  /\ wpc' = [wpc EXCEPT ![w] = "set"]
  /\ calls' = calls + 1
  /\ UNCHANGED <<bellVars, overVars, runq, loopVars>>

\* tpa_sched_set_ready_slot.
SetReadySlot(w) ==
  /\ wpc[w] = "set"
  /\ bits' = bits \cup {wslot[w]}
  /\ wpc' = [wpc EXCEPT ![w] = "ring"]
  /\ wslot' = [wslot EXCEPT ![w] = NoSlot]
  /\ UNCHANGED <<armed, bell, credit, overVars, st, runq, loopVars, calls>>

\* tpa_sched_ring_if_armed: nothing to do unless the hart is armed ...
RingIfArmed(w) ==
  /\ wpc[w] = "ring"
  /\ wpc' = [wpc EXCEPT ![w] = IF armed = 1 THEN "bell" ELSE "run"]
  /\ UNCHANGED <<bellVars, overVars, st, runq, loopVars, wslot, calls>>

\* Mutant: the result of the exchange is tested the wrong way round.
MutRingBell(w) ==
  /\ wpc[w] = "bell"
  /\ bell' = 1
  /\ wpc' = [wpc EXCEPT ![w] = IF bell = 0 THEN "run" ELSE "wake"]
  /\ UNCHANGED <<bits, armed, credit, overVars, st, runq, loopVars, wslot, calls>>

\* ... or the bell has been rung already ...
RingBell(w) ==
  /\ wpc[w] = "bell"
  /\ bell' = 1
  /\ wpc' = [wpc EXCEPT ![w] = IF bell = 0 THEN "wake" ELSE "run"]
  /\ UNCHANGED <<bits, armed, credit, overVars, st, runq, loopVars, wslot, calls>>

\* ... and tpa_hal_wake_hart posts one credit.
WakeHart(w) ==
  /\ wpc[w] = "wake"
  /\ credit' = Posted(credit)
  /\ wpc' = [wpc EXCEPT ![w] = "run"]
  /\ UNCHANGED <<bits, armed, bell, overVars, st, runq, loopVars, wslot, calls>>

\* tpa_fail: set the flag, then tpa_hal_wake_all_harts reaches this hart.
Fail(w) ==
  /\ wpc[w] = "run" /\ calls < MaxCalls
  /\ failed' = 1
  /\ wpc' = [wpc EXCEPT ![w] = "failWake"]
  /\ calls' = calls + 1
  /\ UNCHANGED <<bellVars, live, st, runq, loopVars, wslot>>

\* Mutant: the last process to stop wakes nobody.
MutStopSilently(w) ==
  /\ wpc[w] = "run"
  /\ live' = live - 1
  /\ wpc' = [wpc EXCEPT ![w] = "stopped"]
  /\ UNCHANGED <<bellVars, failed, st, runq, loopVars, wslot, calls>>

\* TPA_OP_STOP: only the last process wakes all harts.
Stop(w) ==
  /\ wpc[w] = "run"
  /\ live' = live - 1
  /\ wpc' = [wpc EXCEPT ![w] = IF live = 1 THEN "stopWake" ELSE "stopped"]
  /\ UNCHANGED <<bellVars, failed, st, runq, loopVars, wslot, calls>>

WakeAll(w) ==
  /\ wpc[w] \in {"failWake", "stopWake"}
  /\ credit' = Posted(credit)
  /\ wpc' = [wpc EXCEPT ![w] = IF wpc[w] = "failWake" THEN "run" ELSE "stopped"]
  /\ UNCHANGED <<bits, armed, bell, overVars, st, runq, loopVars, wslot, calls>>

-----------------------------------------------------------------------------
Reload ==
  \/ TakeWord("take1", "drain1") \/ TakeWord("take2", "drain2")
  \/ DrainSlot("drain1") \/ DrainSlot("drain2")
  \/ NextWord("drain1", "take1", "pop1") \/ NextWord("drain2", "take2", "pop2")

Step ==
  \/ BeginStep \/ StepYield \/ StepBlock \/ StepStop \/ StepFail
  \/ \E s \in Slot : StepWake(s)
  \/ EndStep

Hart ==
  \/ CheckOver \/ Reload
  \/ Pop("pop1", "step", "arm") \/ Pop("pop2", "disarmFound", "sleepCheck")
  \/ SetArmed("arm", 1, "take2")
  \/ SetArmed("disarmFound", 0, "bellFound") \/ TakeBell("bellFound", "step")
  \/ SleepCheck \/ Wait
  \/ SetArmed("disarm", 0, "takeBell") \/ TakeBell("takeBell", "check")
  \/ Step

\* What a waker has begun it finishes; BeginWake, Fail and Stop are choices.
Finish(w) == SetReadySlot(w) \/ RingIfArmed(w) \/ RingBell(w) \/ WakeHart(w) \/ WakeAll(w)
WakerStep(w) == BeginWake(w) \/ Fail(w) \/ Stop(w) \/ Finish(w)

Next == Hart \/ \E w \in Waker : WakerStep(w)

\* A hart executes its instructions, so each hart-step that stays possible is
\* taken, on the hart under study and on the wakers' harts alike.
Fairness == WF_vars(Hart) /\ \A w \in Waker : WF_vars(Finish(w))

Spec == Init /\ [][Next]_vars /\ Fairness

-----------------------------------------------------------------------------
(* Properties.                                                             *)

\* Type invariant.
TypeOK ==
  /\ bits \subseteq Slot /\ armed \in {0, 1} /\ bell \in {0, 1}
  /\ credit \in 0 .. CreditMax
  /\ live \in Int /\ failed \in {0, 1}
  /\ st \in [Slot -> ProcState] /\ runq \in Seq(Slot)
  /\ hpc \in HartPc /\ word \in 0 .. NrWords - 1 /\ pending \subseteq Slot
  /\ cur \in Slot \cup {NoSlot}
  /\ wpc \in [Waker -> WakerPc] /\ wslot \in [Waker -> Slot \cup {NoSlot}]
  /\ calls \in 0 .. MaxCalls

\* A step in progress has a process, a bit about to be set has a target.
HasCur == {"step", "disarmFound", "bellFound"}
TargetsOK ==
  /\ hpc \in HasCur => cur \in Slot
  /\ \A w \in Waker : wpc[w] = "set" => wslot[w] \in Slot

\* armed tells where the hart is, and a scan starts at word 0.
ArmedOK == armed = 1 <=> hpc \in ArmedPc
WordOK  == hpc \notin {"take1", "drain1", "take2", "drain2"} => word = 0

\* No lost wakeup: whenever the hart is stalled in tpa_hal_wait_for_wake with
\* no credit left although a ready bit is set, or the run is over, some other
\* hart is on its way to tpa_hal_wake_hart.
NoLostWakeup ==
  hpc = "wait" /\ credit = 0 /\ (bits # {} \/ Over)
    => \E w \in Waker : wpc[w] \in Posting

\* A rung bell is backed: the bell stays set only while the credit it stands
\* for is still to come, is unspent, or has just been consumed by the hart.
\* (ring_if_armed posts nothing when the bell is already set.)
BellBacked ==
  bell = 1 => \/ credit > 0
              \/ \E w \in Waker : wpc[w] = "wake"
              \/ hpc \in {"disarm", "takeBell"}

\* A ready bit is backed: a bit left in a word that the armed hart has already
\* scanned has a bell, a credit or a waker about to ring behind it.
Scanned(s) == \/ hpc \in {"pop2", "sleepCheck", "wait"}
              \/ hpc = "take2" /\ WordOf[s] < word
              \/ hpc = "drain2" /\ WordOf[s] <= word
ReadyBacked ==
  \A s \in bits : Scanned(s) => \/ credit > 0 \/ bell = 1
                                \/ \E w \in Waker : wpc[w] \in {"ring", "bell", "wake"}

\* The end of the run is backed: once the hart sleeps, whoever ends the run
\* still has to post the credit of its wake_all, or has posted it.
OverBacked ==
  hpc = "wait" /\ Over => \/ credit > 0
                          \/ \E w \in Waker : wpc[w] \in {"failWake", "stopWake"}

\* Spurious credits pile up by at most one per call, so with fewer calls than
\* the counter can hold it never wraps; a wrap would lose every pending wake.
FlightPc == Posting \cup {"set"}
InFlight == {w \in Waker : wpc[w] \in FlightPc}
CreditBound ==
  credit + Cardinality(InFlight) <= InitCredits + calls + (IF live <= 0 THEN 1 ELSE 0)

\* The inductive invariant behind NoLostWakeup.
IInv ==
  /\ TypeOK /\ TargetsOK /\ ArmedOK /\ WordOK
  /\ BellBacked /\ ReadyBacked /\ OverBacked /\ CreditBound

\* Each wake of a parked process is in exactly one place: with the waker that
\* has still to set the bit, in the ready bits, or in the word being drained;
\* and nothing is in those places that is not such a wake.
WakeAccounted ==
  \A s \in Slot :
    /\ st[s] = "waking" <=> \/ s \in bits \/ s \in pending
                            \/ \E w \in Waker : wslot[w] = s
    /\ ~ (s \in bits /\ s \in pending)
    /\ \A w \in Waker : wslot[w] = s =>
         s \notin bits \cup pending /\ \A v \in Waker : wslot[v] = s => v = w

\* The run queue holds each runnable process once and nothing else: a slot
\* pushed twice would corrupt the intrusive list of scheduler.c.
QueueExact ==
  /\ \A i, j \in 1 .. Len(runq) : runq[i] = runq[j] => i = j
  /\ \A s \in Slot :
       (\E i \in 1 .. Len(runq) : runq[i] = s)
         <=> st[s] = "ready" /\ ~ (hpc \in HasCur /\ cur = s)

\* The inductive invariant behind these two: what is left in each place when
\* nobody is at work on it, and that a step runs a process taken off the queue.
PlacesOK ==
  /\ hpc \notin {"drain1", "drain2"} => pending = {}
  /\ \A w \in Waker : wpc[w] # "set" => wslot[w] = NoSlot
  /\ hpc \in HasCur => st[cur] = "ready" \/ (hpc = "step" /\ st[cur] = "run")
QInv == TypeOK /\ TargetsOK /\ PlacesOK /\ WakeAccounted /\ QueueExact

\* Every wake of a parked process is eventually followed by a run of it,
\* unless the hart leaves its loop because the run is over.
WakeDelivered ==
  \A s \in Slot : st[s] = "waking" ~> (st[s] = "run" \/ hpc = "left")

\* When the run is over no hart stays asleep: the loop is left.
LeavesWhenOver == Over ~> hpc = "left"
=============================================================================
