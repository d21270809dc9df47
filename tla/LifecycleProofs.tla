--------------------------- MODULE LifecycleProofs ---------------------------
(***************************************************************************)
(* Proofs about Lifecycle for every set of harts, every boot vector and    *)
(* every number of failures.                                               *)
(***************************************************************************)
EXTENDS Lifecycle, FiniteSetTheorems, TLAPS

LEMMA InitIInv == Init => IInv
<1> SUFFICES ASSUME Init PROVE IInv
  OBVIOUS
<1>1. Cardinality(Proc) \in Nat
  BY ProcAssumption, FS_CardinalityType
<1>2. TypeOK
  BY <1>1, FailAssumption DEF Init, TypeOK, Pc, InTpaInit
<1>3. OneStarter /\ Fresh
  BY DEF Init, OneStarter, Fresh, InTpaInit
<1>4. LiveCounts /\ FailedExact
  BY FailAssumption DEF Init, LiveCounts, Counted, FailedExact
<1>5. HasRunning /\ SawOver /\ VerdictTrue
  BY DEF Init, HasRunning, SawOver, VerdictTrue, EndPc
<1>6. QED
  BY <1>2, <1>3, <1>4, <1>5 DEF IInv

-----------------------------------------------------------------------------
(* The processes that have not stopped.                                    *)

\* They can be counted, and while one is left the count is not 0.
LEMMA NotStoppedSize ==
  /\ IsFiniteSet(NotStopped)
  /\ Cardinality(NotStopped) \in 0 .. Cardinality(Proc)
  /\ Cardinality(Proc) \in Nat
  /\ Cardinality(NotStopped) = 0 <=> NotStopped = {}
<1>1. NotStopped \in SUBSET Proc
  BY DEF NotStopped
<1>2. IsFiniteSet(NotStopped) /\ Cardinality(NotStopped) <= Cardinality(Proc)
  BY <1>1, ProcAssumption, FS_Subset
<1>3. Cardinality(NotStopped) \in Nat /\ Cardinality(Proc) \in Nat
  BY <1>2, ProcAssumption, FS_CardinalityType
<1>4. QED
  BY <1>2, <1>3, FS_EmptySet

\* A change of state other than to "dead" or from it leaves the count alone.
LEMMA SameNotStopped ==
  ASSUME st \in [Proc -> {"unborn", "ready", "run", "dead", "failed", "refused"}],
         NEW p \in Proc, NEW s, st[p] # "dead", s # "dead", st' = [st EXCEPT ![p] = s]
  PROVE  NotStopped' = NotStopped
  BY DEF NotStopped

\* One that stops takes one off.
LEMMA OneStopped ==
  ASSUME st \in [Proc -> {"unborn", "ready", "run", "dead", "failed", "refused"}],
         NEW p \in Proc, st[p] # "dead", st' = [st EXCEPT ![p] = "dead"]
  PROVE  /\ Cardinality(NotStopped') = Cardinality(NotStopped) - 1
         /\ Cardinality(NotStopped) > 0
<1>1. NotStopped' = NotStopped \ {p} /\ p \in NotStopped
  BY DEF NotStopped
<1>2. QED
  BY <1>1, NotStoppedSize, FS_RemoveElement

-----------------------------------------------------------------------------
(* One lemma per part of the invariant; the cases are the actions, together *)
(* where the argument is the same.                                          *)

\* One hart wins the exchange and publishes; the others wait for it.
LEMMA StarterStep == IInv /\ [Next]_vars => OneStarter'
<1> SUFFICES ASSUME IInv, [Next]_vars PROVE OneStarter'
  OBVIOUS
<1> USE DEF IInv, TypeOK, OneStarter, InTpaInit, Goto
<1>1. ASSUME NEW h \in Hart, Main(h) \/ ClaimInit(h) \/ Setup(h) \/ Publish(h)
      PROVE  OneStarter'
  BY <1>1 DEF Main, ClaimInit, Setup, Publish
<1>2. ASSUME NEW h \in Hart, WakeStarted(h) \/ CheckInit(h) \/ Wait(h, "initWait", "check")
             \/ Wait(h, "sleep", "loop")
      PROVE  OneStarter'
  BY <1>2 DEF WakeStarted, CheckInit, Wait
<1>3. ASSUME NEW h \in Hart, BootProc(h) \/ BootRefused(h) \/ BootDone(h)
      PROVE  OneStarter'
  BY <1>3 DEF BootProc, BootRefused, BootDone
<1>4. ASSUME NEW h \in Hart, CheckOver(h) \/ Pop(h) \/ PopNone(h) \/ SleepCheck(h)
      PROVE  OneStarter'
  BY <1>4 DEF CheckOver, Pop, PopNone, SleepCheck
<1>5. ASSUME NEW h \in Hart, StepYield(h) \/ StepStop(h) \/ StepFail(h, "failWake")
             \/ StepFail(h, "bugWake") \/ StepBadOp(h)
      PROVE  OneStarter'
  BY <1>5 DEF StepYield, StepStop, StepFail, StepBadOp
<1>6. ASSUME NEW h \in Hart, Woken(h, "bootWake", "boot") \/ Woken(h, "opWake", "loop")
             \/ Woken(h, "failWake", "step") \/ Woken(h, "bugWake", "hung")
      PROVE  OneStarter'
  BY <1>6 DEF Woken
<1>7. ASSUME NEW h \in Hart, Report(h) \/ Verdict(h)
      PROVE  OneStarter'
  BY <1>7 DEF Report, Verdict
<1>8. CASE UNCHANGED vars
  BY <1>8 DEF vars
<1>9. QED
  BY <1>1, <1>2, <1>3, <1>4, <1>5, <1>6, <1>7, <1>8 DEF Next, HartStep

\* Nothing of a run happens before the initialisation is published, and the
\* one that initialises is the only one to count.
LEMMA FreshStep == IInv /\ [Next]_vars => Fresh'
<1> SUFFICES ASSUME IInv, [Next]_vars PROVE Fresh'
  OBVIOUS
<1> USE DEF IInv, TypeOK, OneStarter, InTpaInit, Goto, Fresh
<1>1. ASSUME NEW h \in Hart, Main(h) \/ ClaimInit(h) \/ Setup(h) \/ Publish(h)
      PROVE  Fresh'
  BY <1>1 DEF Main, ClaimInit, Setup, Publish
<1>2. ASSUME NEW h \in Hart, WakeStarted(h) \/ CheckInit(h) \/ Wait(h, "initWait", "check")
             \/ Wait(h, "sleep", "loop")
      PROVE  Fresh'
  BY <1>2 DEF WakeStarted, CheckInit, Wait
<1>3. ASSUME NEW h \in Hart, BootProc(h) \/ BootRefused(h) \/ BootDone(h)
      PROVE  Fresh'
  BY <1>3 DEF BootProc, BootRefused, BootDone
<1>4. ASSUME NEW h \in Hart, CheckOver(h) \/ Pop(h) \/ PopNone(h) \/ SleepCheck(h)
      PROVE  Fresh'
  BY <1>4 DEF CheckOver, Pop, PopNone, SleepCheck
<1>5. ASSUME NEW h \in Hart, StepYield(h) \/ StepStop(h) \/ StepFail(h, "failWake")
             \/ StepFail(h, "bugWake") \/ StepBadOp(h)
      PROVE  Fresh'
  BY <1>5 DEF StepYield, StepStop, StepFail, StepBadOp
<1>6. ASSUME NEW h \in Hart, Woken(h, "bootWake", "boot") \/ Woken(h, "opWake", "loop")
             \/ Woken(h, "failWake", "step") \/ Woken(h, "bugWake", "hung")
      PROVE  Fresh'
  BY <1>6 DEF Woken
<1>7. ASSUME NEW h \in Hart, Report(h) \/ Verdict(h)
      PROVE  Fresh'
  BY <1>7 DEF Report, Verdict
<1>8. CASE UNCHANGED vars
  BY <1>8 DEF vars
<1>9. QED
  BY <1>1, <1>2, <1>3, <1>4, <1>5, <1>6, <1>7, <1>8 DEF Next, HartStep

\* live_procs goes with the processes: it is set before any is born and each
\* stop takes one from both.
LEMMA LiveStep == IInv /\ [Next]_vars => LiveCounts'
<1> SUFFICES ASSUME IInv, [Next]_vars PROVE LiveCounts'
  OBVIOUS
<1> USE DEF IInv, TypeOK, OneStarter, InTpaInit, Goto, LiveCounts, Counted
<1>0. ASSUME UNCHANGED <<st, live>>, Counted' => Counted
      PROVE  LiveCounts'
  BY <1>0 DEF NotStopped
<1>1. ASSUME NEW h \in Hart, Main(h) \/ ClaimInit(h) \/ Publish(h)
      PROVE  LiveCounts'
  BY <1>0, <1>1 DEF Main, ClaimInit, Publish
<1>2. ASSUME NEW h \in Hart, Setup(h)
      PROVE  LiveCounts'
  <2>1. init = 1
    BY <1>2 DEF Setup
  <2>2. NotStopped' = Proc
    BY <1>2, <2>1 DEF Setup, NotStopped, Fresh
  <2>3. QED
    BY <1>2, <2>2 DEF Setup
<1>3. ASSUME NEW h \in Hart, WakeStarted(h) \/ CheckInit(h) \/ Wait(h, "initWait", "check")
             \/ Wait(h, "sleep", "loop")
      PROVE  LiveCounts'
  BY <1>0, <1>3 DEF WakeStarted, CheckInit, Wait
<1>4. ASSUME NEW h \in Hart, BootDone(h) \/ CheckOver(h) \/ PopNone(h) \/ SleepCheck(h)
             \/ StepFail(h, "failWake") \/ StepFail(h, "bugWake") \/ Report(h) \/ Verdict(h)
      PROVE  LiveCounts'
  BY <1>0, <1>4 DEF BootDone, CheckOver, PopNone, SleepCheck, StepFail, Report, Verdict
<1>5. ASSUME NEW h \in Hart, Woken(h, "bootWake", "boot") \/ Woken(h, "opWake", "loop")
             \/ Woken(h, "failWake", "step") \/ Woken(h, "bugWake", "hung")
      PROVE  LiveCounts'
  BY <1>0, <1>5 DEF Woken
<1>6. ASSUME NEW h \in Hart, BootProc(h) \/ BootRefused(h) \/ Pop(h) \/ StepYield(h)
             \/ StepBadOp(h)
      PROVE  LiveCounts'
  <2>1. \E p \in Proc, s \in {"ready", "refused", "run", "failed"} :
          st[p] # "dead" /\ st' = [st EXCEPT ![p] = s]
    BY <1>6 DEF BootProc, BootRefused, Pop, StepYield, StepBadOp, Becomes, Mine
  <2>2. NotStopped' = NotStopped
    BY <2>1, SameNotStopped
  <2>3. UNCHANGED live /\ init = 2
    BY <1>6 DEF BootProc, BootRefused, Pop, StepYield, StepBadOp
  <2>4. QED
    BY <2>2, <2>3
<1>7. ASSUME NEW h \in Hart, StepStop(h)
      PROVE  LiveCounts'
  <2>1. \E p \in Proc : st[p] # "dead" /\ st' = [st EXCEPT ![p] = "dead"]
    BY <1>7 DEF StepStop, Becomes, Mine
  <2>2. Cardinality(NotStopped') = Cardinality(NotStopped) - 1
    BY <2>1, OneStopped
  <2>3. live' = live - 1 /\ init = 2
    BY <1>7 DEF StepStop
  <2>4. QED
    BY <2>2, <2>3
<1>8. CASE UNCHANGED vars
  BY <1>0, <1>8 DEF vars
<1>9. QED
  BY <1>1, <1>2, <1>3, <1>4, <1>5, <1>6, <1>7, <1>8 DEF Next, HartStep

\* A step keeps the types; live_procs stays within the number of processes
\* because it counts them.
LEMMA TypeStep == IInv /\ [Next]_vars => TypeOK'
<1> SUFFICES ASSUME IInv, [Next]_vars PROVE TypeOK'
  OBVIOUS
<1> USE DEF IInv, TypeOK, InTpaInit, LoopPc, EndPc, Pc, Goto
<1>0. WakeAll => credit' \in [Hart -> Nat]
  BY DEF WakeAll
<1>1. ASSUME NEW h \in Hart, Main(h) \/ ClaimInit(h) \/ Publish(h) \/ WakeStarted(h)
             \/ CheckInit(h)
      PROVE  TypeOK'
  BY <1>0, <1>1 DEF Main, ClaimInit, Publish, WakeStarted, CheckInit
<1>2. ASSUME NEW h \in Hart, Setup(h)
      PROVE  TypeOK'
  BY <1>2, NotStoppedSize DEF Setup
<1>3. ASSUME NEW h \in Hart, Wait(h, "initWait", "check") \/ Wait(h, "sleep", "loop")
      PROVE  TypeOK'
  BY <1>3 DEF Wait
<1>4. ASSUME NEW h \in Hart, BootProc(h) \/ BootRefused(h) \/ BootDone(h)
      PROVE  TypeOK'
  BY <1>4 DEF BootProc, BootRefused, BootDone, Mine
<1>5. ASSUME NEW h \in Hart, CheckOver(h) \/ Pop(h) \/ PopNone(h) \/ SleepCheck(h)
      PROVE  TypeOK'
  BY <1>5 DEF CheckOver, Pop, PopNone, SleepCheck, Mine
<1>6. ASSUME NEW h \in Hart, StepYield(h) \/ StepFail(h, "failWake")
             \/ StepFail(h, "bugWake") \/ StepBadOp(h)
      PROVE  TypeOK'
  BY <1>6, FailAssumption DEF StepYield, StepFail, StepBadOp, Becomes, Mine
<1>7. ASSUME NEW h \in Hart, StepStop(h)
      PROVE  TypeOK'
  <2>1. PICK p \in Proc : st[p] # "dead" /\ st' = [st EXCEPT ![p] = "dead"]
    BY <1>7 DEF StepStop, Becomes, Mine
  <2>2. Cardinality(NotStopped) > 0
    BY <2>1, OneStopped
  <2>3. init = 2
    BY <1>7 DEF StepStop, OneStarter
  <2>4. live' \in 0 .. Cardinality(Proc)
    BY <1>7, <2>2, <2>3, NotStoppedSize DEF StepStop, LiveCounts, Counted
  <2>5. st' \in [Proc -> {"unborn", "ready", "run", "dead", "failed", "refused"}]
    BY <2>1
  <2>6. QED
    BY <1>7, <2>4, <2>5 DEF StepStop
<1>8. ASSUME NEW h \in Hart, Woken(h, "bootWake", "boot") \/ Woken(h, "opWake", "loop")
             \/ Woken(h, "failWake", "step") \/ Woken(h, "bugWake", "hung")
      PROVE  TypeOK'
  BY <1>0, <1>8 DEF Woken
<1>9. ASSUME NEW h \in Hart, Report(h) \/ Verdict(h)
      PROVE  TypeOK'
  BY <1>9 DEF Report, Verdict
<1>10. CASE UNCHANGED vars
  BY <1>10 DEF vars
<1>11. QED
  BY <1>1, <1>2, <1>3, <1>4, <1>5, <1>6, <1>7, <1>8, <1>9, <1>10 DEF Next, HartStep

\* Each failure and each refusal sets the flag; nothing clears it once there
\* has been one, and nothing else sets it.
LEMMA FailedStep == IInv /\ [Next]_vars => FailedExact'
<1> SUFFICES ASSUME IInv, [Next]_vars PROVE FailedExact'
  OBVIOUS
<1> USE DEF IInv, TypeOK, FailedExact, Goto
<1>1. ASSUME UNCHANGED <<failed, fails, st>>
      PROVE  FailedExact'
  BY <1>1
<1>2. ASSUME NEW h \in Hart, Setup(h)
      PROVE  FailedExact'
  <2>1. init = 1
    BY <1>2 DEF Setup, OneStarter
  <2>2. QED
    BY <1>2, <2>1 DEF Setup, Fresh
<1>3. ASSUME NEW h \in Hart, BootRefused(h)
      PROVE  FailedExact'
  BY <1>3 DEF BootRefused, Mine
<1>4. ASSUME NEW h \in Hart, BootProc(h) \/ Pop(h) \/ StepYield(h) \/ StepStop(h)
      PROVE  FailedExact'
  BY <1>4 DEF BootProc, Pop, StepYield, StepStop, Becomes, Mine
<1>5. ASSUME NEW h \in Hart, StepFail(h, "failWake") \/ StepFail(h, "bugWake") \/ StepBadOp(h)
      PROVE  FailedExact'
  BY <1>5 DEF StepFail, StepBadOp, Becomes, Mine
<1>6. ASSUME NEW h \in Hart, Main(h) \/ ClaimInit(h) \/ Publish(h) \/ WakeStarted(h)
             \/ CheckInit(h)
             \/ Wait(h, "initWait", "check") \/ Wait(h, "sleep", "loop") \/ BootDone(h)
      PROVE  FailedExact'
  BY <1>1, <1>6 DEF Main, ClaimInit, Publish, WakeStarted, CheckInit, Wait, BootDone
<1>7. ASSUME NEW h \in Hart, CheckOver(h) \/ PopNone(h) \/ SleepCheck(h) \/ Report(h)
             \/ Verdict(h)
             \/ Woken(h, "bootWake", "boot") \/ Woken(h, "opWake", "loop")
             \/ Woken(h, "failWake", "step") \/ Woken(h, "bugWake", "hung")
      PROVE  FailedExact'
  BY <1>1, <1>7 DEF CheckOver, PopNone, SleepCheck, Report, Verdict, Woken
<1>8. CASE UNCHANGED vars
  BY <1>1, <1>8 DEF vars
<1>9. QED
  BY <1>2, <1>3, <1>4, <1>5, <1>6, <1>7, <1>8 DEF Next, HartStep

\* Only its own hart takes a process out of the state it runs in, and leaves
\* the step with it.
LEMMA RunningStep == IInv /\ [Next]_vars => HasRunning'
<1> SUFFICES ASSUME IInv, [Next]_vars PROVE HasRunning'
  OBVIOUS
<1> USE DEF IInv, TypeOK, HasRunning, Goto, Mine
<1>1. ASSUME NEW h \in Hart, Main(h) \/ ClaimInit(h) \/ Publish(h) \/ WakeStarted(h)
             \/ CheckInit(h)
             \/ Setup(h) \/ Wait(h, "initWait", "check") \/ Wait(h, "sleep", "loop") \/ BootDone(h)
      PROVE  HasRunning'
  BY <1>1 DEF Main, ClaimInit, Publish, WakeStarted, CheckInit, Setup, Wait, BootDone
<1>2. ASSUME NEW h \in Hart, CheckOver(h) \/ PopNone(h) \/ SleepCheck(h) \/ Report(h)
             \/ Verdict(h)
      PROVE  HasRunning'
  BY <1>2 DEF CheckOver, PopNone, SleepCheck, Report, Verdict
<1>3. ASSUME NEW h \in Hart, BootProc(h) \/ BootRefused(h)
      PROVE  HasRunning'
  BY <1>3 DEF BootProc, BootRefused
<1>4. ASSUME NEW h \in Hart, Pop(h)
      PROVE  HasRunning'
  BY <1>4 DEF Pop
<1>5. ASSUME NEW h \in Hart, StepYield(h) \/ StepStop(h) \/ StepBadOp(h)
      PROVE  HasRunning'
  <2>1. pc[h] = "step" /\ \E to \in {"loop", "opWake"} : pc' = [pc EXCEPT ![h] = to]
    BY <1>5 DEF StepYield, StepStop, StepBadOp
  <2>2. \E p \in Proc, s \in {"ready", "dead", "failed"} :
          Home[p] = h /\ st[p] = "run" /\ st' = [st EXCEPT ![p] = s]
    BY <1>5 DEF StepYield, StepStop, StepBadOp, Becomes
  <2>3. QED
    BY <2>1, <2>2
<1>6. ASSUME NEW h \in Hart, StepFail(h, "failWake") \/ StepFail(h, "bugWake")
      PROVE  HasRunning'
  BY <1>6 DEF StepFail
<1>7. ASSUME NEW h \in Hart, Woken(h, "bootWake", "boot") \/ Woken(h, "opWake", "loop")
             \/ Woken(h, "failWake", "step") \/ Woken(h, "bugWake", "hung")
      PROVE  HasRunning'
  BY <1>7 DEF Woken
<1>8. CASE UNCHANGED vars
  BY <1>8 DEF vars
<1>9. QED
  BY <1>1, <1>2, <1>3, <1>4, <1>5, <1>6, <1>7, <1>8 DEF Next, HartStep

\* Once booted, the run does not come back from its end: the flag stays, and
\* with no process left none can stop.
LEMMA OverStays == IInv /\ [Next]_vars /\ init = 2 /\ Over => Over'
<1> SUFFICES ASSUME IInv, [Next]_vars, init = 2, Over PROVE Over'
  OBVIOUS
<1> USE DEF IInv, TypeOK, Over, Goto
<1>1. ASSUME UNCHANGED live, failed' = 1 \/ UNCHANGED failed
      PROVE  Over'
  BY <1>1
<1>2. ASSUME NEW h \in Hart, StepStop(h)
      PROVE  Over'
  <2>1. PICK p \in Proc : st[p] # "dead" /\ st' = [st EXCEPT ![p] = "dead"]
    BY <1>2 DEF StepStop, Becomes, Mine
  <2>2. Cardinality(NotStopped) > 0
    BY <2>1, OneStopped
  <2>3. live # 0
    BY <2>2, NotStoppedSize DEF LiveCounts, Counted
  <2>4. QED
    BY <1>2, <2>3 DEF StepStop
<1>3. ASSUME NEW h \in Hart, Setup(h)
      PROVE  FALSE
  BY <1>3 DEF Setup, OneStarter
<1>4. ASSUME NEW h \in Hart, Main(h) \/ ClaimInit(h) \/ Publish(h) \/ WakeStarted(h)
             \/ CheckInit(h)
             \/ Wait(h, "initWait", "check") \/ Wait(h, "sleep", "loop")
      PROVE  Over'
  BY <1>1, <1>4 DEF Main, ClaimInit, Publish, WakeStarted, CheckInit, Wait
<1>5. ASSUME NEW h \in Hart, BootProc(h) \/ BootRefused(h) \/ BootDone(h) \/ CheckOver(h)
             \/ Pop(h)
             \/ PopNone(h) \/ SleepCheck(h)
      PROVE  Over'
  BY <1>1, <1>5 DEF BootProc, BootRefused, BootDone, CheckOver, Pop, PopNone, SleepCheck
<1>6. ASSUME NEW h \in Hart, StepYield(h) \/ StepFail(h, "failWake") \/ StepFail(h, "bugWake")
             \/ StepBadOp(h) \/ Report(h) \/ Verdict(h)
      PROVE  Over'
  BY <1>1, <1>6 DEF StepYield, StepFail, StepBadOp, Report, Verdict
<1>7. ASSUME NEW h \in Hart, Woken(h, "bootWake", "boot") \/ Woken(h, "opWake", "loop")
             \/ Woken(h, "failWake", "step") \/ Woken(h, "bugWake", "hung")
      PROVE  Over'
  BY <1>1, <1>7 DEF Woken
<1>8. CASE UNCHANGED vars
  BY <1>1, <1>8 DEF vars
<1>9. QED
  BY <1>2, <1>3, <1>4, <1>5, <1>6, <1>7, <1>8 DEF Next, HartStep

\* A hart gets to the end of tpa_hart_main through the check of its loop only.
LEMMA EndThroughCheck ==
  ASSUME IInv, [Next]_vars, NEW g \in Hart, pc'[g] \in EndPc
  PROVE  pc[g] \in EndPc \/ (pc[g] = "loop" /\ Over /\ UNCHANGED <<live, failed>>)
<1> USE DEF IInv, TypeOK, EndPc, Goto
<1>1. ASSUME NEW h \in Hart, CheckOver(h)
      PROVE  pc[g] \in EndPc \/ (pc[g] = "loop" /\ Over /\ UNCHANGED <<live, failed>>)
  BY <1>1 DEF CheckOver
<1>2. ASSUME NEW h \in Hart, Main(h) \/ ClaimInit(h) \/ Setup(h) \/ Publish(h)
             \/ WakeStarted(h) \/ CheckInit(h)
             \/ Wait(h, "initWait", "check") \/ Wait(h, "sleep", "loop")
      PROVE  pc[g] \in EndPc
  BY <1>2 DEF Main, ClaimInit, Setup, Publish, WakeStarted, CheckInit, Wait
<1>3. ASSUME NEW h \in Hart, BootProc(h) \/ BootRefused(h) \/ BootDone(h) \/ Pop(h)
             \/ PopNone(h) \/ SleepCheck(h)
      PROVE  pc[g] \in EndPc
  BY <1>3 DEF BootProc, BootRefused, BootDone, Pop, PopNone, SleepCheck
<1>4. ASSUME NEW h \in Hart, StepYield(h) \/ StepStop(h) \/ StepFail(h, "failWake")
             \/ StepFail(h, "bugWake")
             \/ StepBadOp(h) \/ Report(h) \/ Verdict(h)
      PROVE  pc[g] \in EndPc
  BY <1>4 DEF StepYield, StepStop, StepFail, StepBadOp, Report, Verdict
<1>5. ASSUME NEW h \in Hart, Woken(h, "bootWake", "boot") \/ Woken(h, "opWake", "loop")
             \/ Woken(h, "failWake", "step") \/ Woken(h, "bugWake", "hung")
      PROVE  pc[g] \in EndPc
  BY <1>5 DEF Woken
<1>6. CASE UNCHANGED vars
  BY <1>6 DEF vars
<1>7. QED
  BY <1>1, <1>2, <1>3, <1>4, <1>5, <1>6 DEF Next, HartStep

LEMMA SawOverStep == IInv /\ [Next]_vars => SawOver'
<1> SUFFICES ASSUME IInv, [Next]_vars, NEW g \in Hart, pc'[g] \in EndPc PROVE Over'
  BY DEF SawOver, EndPc
<1>1. CASE pc[g] \in EndPc
  <2>1. init = 2 /\ Over
    BY <1>1 DEF IInv, OneStarter, SawOver, EndPc, InTpaInit
  <2>2. QED
    BY <2>1, OverStays
<1>2. CASE pc[g] = "loop" /\ Over /\ UNCHANGED <<live, failed>>
  BY <1>2 DEF Over
<1>3. QED
  BY <1>1, <1>2, EndThroughCheck

\* Once PASS is reported no process is left to fail; once a failure is, the
\* flag and what set it stay.
LEMMA VerdictStep == IInv /\ [Next]_vars => VerdictTrue'
<1> SUFFICES ASSUME IInv, [Next]_vars PROVE VerdictTrue'
  OBVIOUS
<1> USE DEF IInv, TypeOK, VerdictTrue, Goto
<1>1. ASSUME UNCHANGED <<failed, fails, st, out>>
      PROVE  VerdictTrue'
  BY <1>1
<1>2. ASSUME NEW h \in Hart, Setup(h)
      PROVE  VerdictTrue'
  <2>1. init # 2
    BY <1>2 DEF Setup, OneStarter
  <2>2. QED
    BY <1>2, <2>1 DEF Setup, Fresh
<1>3. ASSUME NEW h \in Hart, BootProc(h) \/ BootRefused(h) \/ Pop(h)
      PROVE  VerdictTrue'
  BY <1>3 DEF BootProc, BootRefused, Pop, Mine
<1>4. ASSUME NEW h \in Hart, StepYield(h) \/ StepStop(h) \/ StepBadOp(h)
      PROVE  VerdictTrue'
  BY <1>4 DEF StepYield, StepStop, StepBadOp, Becomes, Mine
<1>5. ASSUME NEW h \in Hart, StepFail(h, "failWake") \/ StepFail(h, "bugWake")
      PROVE  VerdictTrue'
  BY <1>5 DEF StepFail, HasRunning, Mine
<1>6. ASSUME NEW h \in Hart, Verdict(h)
      PROVE  VerdictTrue'
  <2>1. Over /\ init = 2
    BY <1>6 DEF Verdict, SawOver, EndPc, OneStarter, InTpaInit
  <2>2. CASE failed = 1
    BY <1>6, <2>2 DEF Verdict, FailedExact
  <2>3. CASE failed = 0
    <3>1. Cardinality(NotStopped) = 0
      BY <2>1, <2>3 DEF Over, LiveCounts, Counted
    <3>2. \A p \in Proc : st[p] = "dead"
      BY <3>1, NotStoppedSize DEF NotStopped
    <3>3. fails = 0
      BY <2>3, FailAssumption DEF FailedExact
    <3>4. QED
      BY <1>6, <2>3, <3>2, <3>3 DEF Verdict
  <2>4. QED
    BY <2>2, <2>3
<1>7. ASSUME NEW h \in Hart, Main(h) \/ ClaimInit(h) \/ Publish(h) \/ WakeStarted(h)
             \/ CheckInit(h)
             \/ Wait(h, "initWait", "check") \/ Wait(h, "sleep", "loop") \/ BootDone(h)
      PROVE  VerdictTrue'
  BY <1>1, <1>7 DEF Main, ClaimInit, Publish, WakeStarted, CheckInit, Wait, BootDone
<1>8. ASSUME NEW h \in Hart, CheckOver(h) \/ PopNone(h) \/ SleepCheck(h) \/ Report(h)
             \/ Woken(h, "bootWake", "boot") \/ Woken(h, "opWake", "loop")
             \/ Woken(h, "failWake", "step") \/ Woken(h, "bugWake", "hung")
      PROVE  VerdictTrue'
  BY <1>1, <1>8 DEF CheckOver, PopNone, SleepCheck, Report, Woken
<1>9. CASE UNCHANGED vars
  BY <1>1, <1>9 DEF vars
<1>10. QED
  BY <1>2, <1>3, <1>4, <1>5, <1>6, <1>7, <1>8, <1>9 DEF Next, HartStep

LEMMA StepIInv == IInv /\ [Next]_vars => IInv'
  BY TypeStep, StarterStep, FreshStep, LiveStep, FailedStep, RunningStep, SawOverStep, VerdictStep DEF IInv

-----------------------------------------------------------------------------
(* What holds in every run.                                                *)

\* The strengthened invariant, for any harts and boot vector.
THEOREM Inductive == Spec => []IInv
  BY InitIInv, StepIInv, PTL DEF Spec

\* Every variable keeps its type; live_procs does not go below 0.
THEOREM TypeCorrect == Spec => []TypeOK
<1>1. IInv => TypeOK
  BY DEF IInv
<1>2. QED
  BY <1>1, Inductive, PTL

\* tpa_init initialises once, by one hart, and no hart gets out of it before
\* that one has published the tables.
THEOREM StartsOnceHolds == Spec => []StartsOnce
<1>1. IInv => StartsOnce
  BY DEF IInv, OneStarter, StartsOnce
<1>2. QED
  BY <1>1, Inductive, PTL

\* From then on live_procs is the number of processes that have not stopped.
THEOREM LiveExactHolds == Spec => []LiveExact
<1>1. IInv => LiveExact
  BY DEF IInv, LiveCounts, Counted, NotStopped, LiveExact
<1>2. QED
  BY <1>1, Inductive, PTL

\* The verdict of tpa_hart_main is true and stays true.
THEOREM VerdictTrueHolds == Spec => []VerdictTrue
<1>1. IInv => VerdictTrue
  BY DEF IInv
<1>2. QED
  BY <1>1, Inductive, PTL

\* A verdict that has been reported is the only one there will be.
THEOREM VerdictFinal == Spec => [][out # "none" => out' = out]_out
<1>1. IInv /\ [Next]_vars => [out # "none" => out' = out]_out
  <2> SUFFICES ASSUME IInv, [Next]_vars, out # "none" PROVE out' = out
    OBVIOUS
  <2>1. \A h \in Hart : Verdict(h) => out' = out
    BY DEF Verdict, IInv, TypeOK, VerdictTrue
  <2>2. \A h \in Hart : HartStep(h) /\ ~Verdict(h) => out' = out
    BY DEF HartStep, Main, ClaimInit, Setup, Publish, WakeStarted, CheckInit, Wait, BootProc,
           BootRefused, BootDone, CheckOver, Pop, PopNone, SleepCheck, StepYield, StepStop,
           StepFail, StepBadOp, Woken, Report
  <2>3. QED
    BY <2>1, <2>2 DEF Next, vars
<1>2. QED
  BY <1>1, Inductive, PTL DEF Spec
=============================================================================
