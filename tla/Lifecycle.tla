------------------------------ MODULE Lifecycle ------------------------------
(***************************************************************************)
(* A whole run on several harts: the one-time initialisation of tpa_init,  *)
(* the boot of each hart's processes, their steps as far as they count for *)
(* the end of the run, and the verdict of tpa_hart_main                    *)
(* (tpa/lib/src/tpa_runtime.c, tpa-device/runtime/tpa_scheduler.c).        *)
(*                                                                         *)
(* Processes only run, yield, stop and fail here: how they wake each other *)
(* is the subject of module Doorbell, where one hart sleeps and wakes in   *)
(* full.  What a hart waits for here is a credit of wake_all.              *)
(***************************************************************************)
EXTENDS Integers, FiniteSets

CONSTANTS
  Hart,
  Proc,       \* the boot vector's entries
  Home,       \* the hart of each
  MaxFails    \* bound: tpa_fail calls made by processes

ASSUME HartAssumption == IsFiniteSet(Hart) /\ Hart # {}
ASSUME ProcAssumption == IsFiniteSet(Proc) /\ Proc # {} /\ Home \in [Proc -> Hart]
ASSUME FailAssumption == MaxFails \in Nat

VARIABLES
  init,       \* init_state
  live,       \* live_procs
  failed,     \* the global failed flag
  credit,     \* each hart's fast credit counter 0
  pc,         \* where each hart is, from main to the end of tpa_hart_main
  st,         \* state of each process
  reported,   \* tpa_reported
  out,        \* what tpa_hal_test_pass or tpa_hal_test_fail has reported
  fails       \* tpa_fail calls made by processes so far

vars == <<init, live, failed, credit, pc, st, reported, out, fails>>

Over == failed = 1 \/ live = 0

\* Before and in tpa_init, up to its return.
InTpaInit == {"main", "init", "setup", "publish", "check", "initWait"}
LoopPc    == {"loop", "pick", "step", "opWake", "failWake", "bugWake", "arm", "sleep", "hung"}
EndPc     == {"report", "verdict", "left"}
Pc        == InTpaInit \cup {"started", "boot", "bootWake"} \cup LoopPc \cup EndPc

\* The image's memory starts as zeroes: live_procs is 0 before tpa_init.
Init ==
  /\ init = 0 /\ live = 0 /\ failed = 0
  /\ credit = [h \in Hart |-> 0]
  /\ pc = [h \in Hart |-> "main"]
  /\ st = [p \in Proc |-> "unborn"]
  /\ reported = 0 /\ out = "none" /\ fails = 0

Goto(h, from, to) == pc[h] = from /\ pc' = [pc EXCEPT ![h] = to]

\* tpa_hal_wake_all_harts: one credit more for everyone.
WakeAll == credit' = [h \in Hart |-> credit[h] + 1]

-----------------------------------------------------------------------------
(* main and tpa_init.                                                      *)

\* main: tpa_hal_start_all_threads, then tpa_hal_wake_all_harts.
Main(h) ==
  /\ Goto(h, "main", "init")
  /\ WakeAll
  /\ UNCHANGED <<init, live, failed, st, reported, out, fails>>

\* Mutant: the state is read and not exchanged.
MutClaimInit(h) ==
  /\ Goto(h, "init", IF init = 0 THEN "setup" ELSE "check")
  /\ UNCHANGED <<init, live, failed, credit, st, reported, out, fails>>

\* compare_exchange(&init_state, 0, 1): one hart initialises.
ClaimInit(h) ==
  /\ Goto(h, "init", IF init = 0 THEN "setup" ELSE "check")
  /\ init' = IF init = 0 THEN 1 ELSE init
  /\ UNCHANGED <<live, failed, credit, st, reported, out, fails>>

\* Mutant: each hart counts its own boot entries only.
MutSetup(h) ==
  /\ Goto(h, "setup", "publish")
  /\ live' = Cardinality({p \in Proc : Home[p] = h}) /\ failed' = 0
  /\ UNCHANGED <<init, credit, st, reported, out, fails>>

\* The process table, the queues, live_procs and failed.
Setup(h) ==
  /\ Goto(h, "setup", "publish")
  /\ live' = Cardinality(Proc) /\ failed' = 0
  /\ UNCHANGED <<init, credit, st, reported, out, fails>>

Publish(h) ==
  /\ Goto(h, "publish", "started")
  /\ init' = 2
  /\ UNCHANGED <<live, failed, credit, st, reported, out, fails>>

\* Mutant: harts that wait for the initialisation are not woken.
MutWakeStarted(h) ==
  /\ Goto(h, "started", "boot")
  /\ UNCHANGED <<init, live, failed, credit, st, reported, out, fails>>

WakeStarted(h) ==
  /\ Goto(h, "started", "boot")
  /\ WakeAll
  /\ UNCHANGED <<init, live, failed, st, reported, out, fails>>

\* The other harts wait for the state 2.
CheckInit(h) ==
  /\ Goto(h, "check", IF init = 2 THEN "boot" ELSE "initWait")
  /\ UNCHANGED <<init, live, failed, credit, st, reported, out, fails>>

\* tpa_hal_wait_for_wake.
Wait(h, from, to) ==
  /\ credit[h] > 0 /\ Goto(h, from, to)
  /\ credit' = [credit EXCEPT ![h] = @ - 1]
  /\ UNCHANGED <<init, live, failed, st, reported, out, fails>>

-----------------------------------------------------------------------------
(* tpa_boot_hart, and the loop of tpa_scheduler_main.                      *)

Mine(h, s) == {p \in Proc : Home[p] = h /\ st[p] = s}

\* A boot entry is registered and its process queued ...
BootProc(h) ==
  /\ Goto(h, "boot", "boot")
  /\ \E p \in Mine(h, "unborn") : st' = [st EXCEPT ![p] = "ready"]
  /\ UNCHANGED <<init, live, failed, credit, reported, out, fails>>

\* ... or refused, for a slot out of range: tpa_fail.
BootRefused(h) ==
  /\ Goto(h, "boot", "bootWake")
  /\ \E p \in Mine(h, "unborn") : st' = [st EXCEPT ![p] = "refused"]
  /\ failed' = 1
  /\ UNCHANGED <<init, live, credit, reported, out, fails>>

BootDone(h) ==
  /\ Mine(h, "unborn") = {} /\ Goto(h, "boot", "loop")
  /\ UNCHANGED <<init, live, failed, credit, st, reported, out, fails>>

\* if (tpa_failed() || tpa_done()) break;
CheckOver(h) ==
  /\ Goto(h, "loop", IF Over THEN "report" ELSE "pick")
  /\ UNCHANGED <<init, live, failed, credit, st, reported, out, fails>>

Pop(h) ==
  /\ Goto(h, "pick", "step")
  /\ \E p \in Mine(h, "ready") : st' = [st EXCEPT ![p] = "run"]
  /\ UNCHANGED <<init, live, failed, credit, reported, out, fails>>

PopNone(h) ==
  /\ Mine(h, "ready") = {} /\ Goto(h, "pick", "arm")
  /\ UNCHANGED <<init, live, failed, credit, st, reported, out, fails>>

\* if (!tpa_done() && !tpa_failed()) tpa_hal_wait_for_wake();
SleepCheck(h) ==
  /\ Goto(h, "arm", IF Over THEN "loop" ELSE "sleep")
  /\ UNCHANGED <<init, live, failed, credit, st, reported, out, fails>>

-----------------------------------------------------------------------------
(* tpa_step.                                                               *)

Becomes(h, s) == \E p \in Mine(h, "run") : st' = [st EXCEPT ![p] = s]

\* Any operation after which the process is run again.
StepYield(h) ==
  /\ Goto(h, "step", "loop")
  /\ Becomes(h, "ready")
  /\ UNCHANGED <<init, live, failed, credit, reported, out, fails>>

\* Mutant: nobody is woken.
MutStepStop(h) ==
  /\ Goto(h, "step", "loop")
  /\ Becomes(h, "dead")
  /\ live' = live - 1
  /\ UNCHANGED <<init, failed, credit, reported, out, fails>>

\* TPA_OP_STOP: the last one wakes everyone.
StepStop(h) ==
  /\ Goto(h, "step", IF live = 1 THEN "opWake" ELSE "loop")
  /\ Becomes(h, "dead")
  /\ live' = live - 1
  /\ UNCHANGED <<init, failed, credit, reported, out, fails>>

\* The continuation calls tpa_fail: the flag, then wake_all; it goes on, and
\* the operation it returns replaces the state TPA_PROCESS_FAILED.  After
\* channel_bug the hart loops for ever instead.
StepFail(h, to) ==
  /\ fails < MaxFails /\ Goto(h, "step", to)
  /\ failed' = 1 /\ fails' = fails + 1
  /\ UNCHANGED <<init, live, credit, st, reported, out>>

\* An operation that is none of tpa_op_kind: the process stays FAILED.
StepBadOp(h) ==
  /\ fails < MaxFails /\ Goto(h, "step", "opWake")
  /\ Becomes(h, "failed")
  /\ failed' = 1 /\ fails' = fails + 1
  /\ UNCHANGED <<init, live, credit, reported, out>>

\* The wake_all that follows a change to the end of the run.
Woken(h, from, to) ==
  /\ Goto(h, from, to)
  /\ WakeAll
  /\ UNCHANGED <<init, live, failed, st, reported, out, fails>>

-----------------------------------------------------------------------------
(* tpa_hart_main.                                                          *)

\* compare_exchange(&tpa_reported, 0, 1): one hart reports.
Report(h) ==
  /\ Goto(h, "report", IF reported = 0 THEN "verdict" ELSE "left")
  /\ reported' = 1
  /\ UNCHANGED <<init, live, failed, credit, st, out, fails>>

\* Mutant: the verdict goes by whether processes are left.
MutVerdict(h) ==
  /\ Goto(h, "verdict", "left")
  /\ out' = IF live = 0 THEN "pass" ELSE "fail"
  /\ UNCHANGED <<init, live, failed, credit, st, reported, fails>>

\* tpa_failed() decides.
Verdict(h) ==
  /\ Goto(h, "verdict", "left")
  /\ out' = IF failed = 1 THEN "fail" ELSE "pass"
  /\ UNCHANGED <<init, live, failed, credit, st, reported, fails>>

-----------------------------------------------------------------------------
HartStep(h) ==
  \/ Main(h) \/ ClaimInit(h) \/ Setup(h) \/ Publish(h) \/ WakeStarted(h)
  \/ CheckInit(h) \/ Wait(h, "initWait", "check")
  \/ BootProc(h) \/ BootRefused(h) \/ Woken(h, "bootWake", "boot") \/ BootDone(h)
  \/ CheckOver(h) \/ Pop(h) \/ PopNone(h) \/ SleepCheck(h) \/ Wait(h, "sleep", "loop")
  \/ StepYield(h) \/ StepStop(h) \/ Woken(h, "opWake", "loop")
  \/ StepFail(h, "failWake") \/ Woken(h, "failWake", "step")
  \/ StepBadOp(h) \/ StepFail(h, "bugWake") \/ Woken(h, "bugWake", "hung")
  \/ Report(h) \/ Verdict(h)
Next == \E h \in Hart : HartStep(h)

\* Every hart executes its instructions.
Spec == Init /\ [][Next]_vars /\ \A h \in Hart : WF_vars(HartStep(h))

-----------------------------------------------------------------------------
\* Type invariant.
TypeOK ==
  /\ init \in 0 .. 2 /\ live \in 0 .. Cardinality(Proc) /\ failed \in {0, 1}
  /\ credit \in [Hart -> Nat] /\ pc \in [Hart -> Pc]
  /\ st \in [Proc -> {"unborn", "ready", "run", "dead", "failed", "refused"}]
  /\ reported \in {0, 1} /\ out \in {"none", "pass", "fail"} /\ fails \in 0 .. MaxFails

\* Initialisation happens once, before any hart boots a process or looks at
\* live_procs: a second one would clear the tables under running processes,
\* a late one would let a hart see live_procs = 0 and report success.
StartsOnce ==
  /\ \A h \in Hart : pc[h] \notin InTpaInit => init = 2
  /\ init = 2 => \A h \in Hart : pc[h] \notin {"setup", "publish"}
  /\ \A g, h \in Hart : pc[g] \in {"setup", "publish"} /\ pc[h] \in {"setup", "publish"} => g = h

\* live_procs counts the processes that have not stopped, the ones not yet
\* booted and the refused ones included.
LiveExact == init = 2 => live = Cardinality({p \in Proc : st[p] # "dead"})

\* The verdict is true, for good: PASS says that every process has stopped and
\* none has ever called tpa_fail or been refused, FAIL that one has.
VerdictTrue ==
  /\ out = "pass" => failed = 0 /\ fails = 0 /\ \A p \in Proc : st[p] = "dead"
  /\ out = "fail" => failed = 1 /\ (fails > 0 \/ \E p \in Proc : st[p] = "refused")

\* Who initialises, and what is untouched until it is done.
OneStarter ==
  /\ \A h \in Hart : pc[h] \in {"setup", "publish"} => init = 1
  /\ \A g, h \in Hart : pc[g] \in {"setup", "publish"} /\ pc[h] \in {"setup", "publish"} => g = h
  /\ \A h \in Hart : pc[h] \notin InTpaInit => init = 2
Fresh ==
  init # 2 => /\ st = [p \in Proc |-> "unborn"]
              /\ failed = 0 /\ fails = 0 /\ out = "none"

\* live_procs counts from the moment it is set, before it is published.
NotStopped == {p \in Proc : st[p] # "dead"}
Counted    == init = 2 \/ \E h \in Hart : pc[h] = "publish"
LiveCounts == Counted => live = Cardinality(NotStopped)

\* The flag tells of every failure and of nothing else.
FailedExact == failed = 1 <=> fails > 0 \/ \E p \in Proc : st[p] = "refused"

\* A hart at a step has a process to run; a hart out of its loop saw the end.
HasRunning == \A h \in Hart : pc[h] \in {"step", "failWake"} => Mine(h, "run") # {}
SawOver    == \A h \in Hart : pc[h] \in EndPc => Over

\* The inductive invariant behind the four properties above.
IInv == /\ TypeOK /\ OneStarter /\ Fresh /\ LiveCounts /\ FailedExact
        /\ HasRunning /\ SawOver /\ VerdictTrue

\* Every hart gets through tpa_init, however the credits of main and of
\* tpa_init fall.
AllStart == \A h \in Hart : <>(pc[h] \notin InTpaInit)

\* Once all have stopped or one has failed, every hart leaves its loop, but
\* for those that loop in channel_bug, and unless all do a verdict is reported.
Ended == \A h \in Hart : pc[h] \in {"left", "hung"}
AllEnd == init = 2 /\ Over ~> Ended /\ (out # "none" \/ \A h \in Hart : pc[h] = "hung")
=============================================================================
