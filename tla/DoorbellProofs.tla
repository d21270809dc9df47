--------------------------- MODULE DoorbellProofs ---------------------------
(***************************************************************************)
(* Proofs about Doorbell for every set of slots and wakers, every layout   *)
(* of the ready words and every number of calls the credit counter can     *)
(* count.                                                                  *)
(***************************************************************************)
EXTENDS Doorbell, FiniteSetTheorems, TLAPS

\* The sets of control points, expanded in most leaves.
LEMMA PostedType ==
  ASSUME NEW c \in Nat
  PROVE  /\ Posted(c) \in 0 .. CreditMax
         /\ c < CreditMax => Posted(c) = c + 1
  BY CreditAssumption DEF Posted

LEMMA InitType == Init => TypeOK /\ TargetsOK
<1> SUFFICES ASSUME Init PROVE TypeOK /\ TargetsOK
  OBVIOUS
<1>1. Cardinality(Slot) \in Nat /\ Cardinality(Waker) \in Nat
  BY SlotAssumption, WakerAssumption, FS_CardinalityType
<1>2. runq \in Seq(Slot)
  BY <1>1 DEF Init
<1>3. hpc \in HartPc /\ \A w \in Waker : wpc[w] = "run"
  BY DEF Init, HartPc
<1>4. st \in [Slot -> ProcState] /\ wpc \in [Waker -> WakerPc]
  BY DEF Init, ProcState, WakerPc
<1>5. credit \in 0 .. CreditMax /\ word \in 0 .. NrWords - 1 /\ calls \in 0 .. MaxCalls
  BY WordAssumption, CreditAssumption DEF Init
<1>6. TypeOK
  BY <1>1, <1>2, <1>3, <1>4, <1>5 DEF Init, TypeOK
<1>7. TargetsOK
  BY <1>3 DEF Init, TargetsOK, HasCur
<1>8. QED
  BY <1>6, <1>7

\* One case per action; the wakers' actions and the local wake take a slot or
\* a waker.
LEMMA TypeStep == TypeOK /\ TargetsOK /\ [Next]_vars => TypeOK' /\ TargetsOK'
<1> SUFFICES ASSUME TypeOK, TargetsOK, [Next]_vars PROVE TypeOK' /\ TargetsOK'
  OBVIOUS
<1>0. Posted(credit) \in 0 .. CreditMax
  <2>1. credit \in Nat
    BY CreditAssumption DEF TypeOK
  <2>2. QED
    BY <2>1, PostedType
<1> USE DEF TypeOK, TargetsOK, HasCur, HartPc, ArmedPc, WakerPc, Posting, ProcState,
            bellVars, overVars, loopVars, wakeVars
<1>1. CASE CheckOver
  BY <1>1, WordAssumption DEF CheckOver
<1>2. CASE TakeWord("take1", "drain1") \/ TakeWord("take2", "drain2")
  BY <1>2 DEF TakeWord
<1>3. CASE DrainSlot("drain1") \/ DrainSlot("drain2")
  <2>1. PICK s \in pending :
          /\ pending' = pending \ {s}
          /\ IF st[s] = "dead"
             THEN UNCHANGED <<st, runq>>
             ELSE st' = [st EXCEPT ![s] = "ready"] /\ runq' = Append(runq, s)
    BY <1>3 DEF DrainSlot
  <2>2. s \in Slot
    OBVIOUS
  <2>3. st' \in [Slot -> ProcState] /\ runq' \in Seq(Slot)
    <3>1. CASE st[s] = "dead"
      BY <2>1, <3>1
    <3>2. CASE st[s] # "dead"
      <4>1. st' = [st EXCEPT ![s] = "ready"] /\ runq' = Append(runq, s)
        BY <2>1, <3>2
      <4>2. st' \in [Slot -> ProcState]
        BY <4>1, <2>2
      <4>3. runq' \in Seq(Slot)
        BY <4>1, <2>2
      <4>4. QED
        BY <4>2, <4>3
    <3>3. QED
      BY <3>1, <3>2
  <2>4. QED
    BY <1>3, <2>1, <2>3 DEF DrainSlot
<1>4. CASE NextWord("drain1", "take1", "pop1") \/ NextWord("drain2", "take2", "pop2")
  BY <1>4, WordAssumption DEF NextWord
<1>5. CASE Pop("pop1", "step", "arm") \/ Pop("pop2", "disarmFound", "sleepCheck")
  <2>1. CASE runq = <<>>
    BY <1>5, <2>1 DEF Pop
  <2>2. CASE runq # <<>>
    <3>1. Head(runq) \in Slot /\ Tail(runq) \in Seq(Slot)
      BY <2>2
    <3>2. QED
      BY <1>5, <2>2, <3>1 DEF Pop
  <2>3. QED
    BY <2>1, <2>2
<1>6. CASE SetArmed("arm", 1, "take2")
  BY <1>6 DEF SetArmed
<1>7. CASE SetArmed("disarmFound", 0, "bellFound") \/ SetArmed("disarm", 0, "takeBell")
  BY <1>7 DEF SetArmed
<1>8. CASE TakeBell("bellFound", "step") \/ TakeBell("takeBell", "check")
  BY <1>8 DEF TakeBell
<1>9. CASE SleepCheck
  BY <1>9 DEF SleepCheck
<1>10. CASE Wait
  BY <1>10, CreditAssumption DEF Wait
<1>11. CASE BeginStep
  BY <1>11 DEF BeginStep
<1>12. CASE StepYield
  BY <1>12 DEF StepYield, Running
<1>13. CASE StepBlock
  BY <1>13 DEF StepBlock, Running
<1>14. CASE StepStop
  BY <1>0, <1>14 DEF StepStop, Running
<1>15. CASE StepFail
  BY <1>0, <1>15, CreditAssumption DEF StepFail, Running
<1>16. CASE EndStep
  BY <1>16 DEF EndStep
<1>17. ASSUME NEW s \in Slot, StepWake(s) PROVE TypeOK' /\ TargetsOK'
  BY <1>0, <1>17, CreditAssumption DEF StepWake, Running
<1>18. ASSUME NEW w \in Waker, BeginWake(w) PROVE TypeOK' /\ TargetsOK'
  BY <1>18, CreditAssumption DEF BeginWake
<1>19. ASSUME NEW w \in Waker, SetReadySlot(w) PROVE TypeOK' /\ TargetsOK'
  BY <1>19 DEF SetReadySlot
<1>20. ASSUME NEW w \in Waker, RingIfArmed(w) PROVE TypeOK' /\ TargetsOK'
  BY <1>20 DEF RingIfArmed
<1>21. ASSUME NEW w \in Waker, RingBell(w) PROVE TypeOK' /\ TargetsOK'
  BY <1>21 DEF RingBell
<1>22. ASSUME NEW w \in Waker, WakeHart(w) PROVE TypeOK' /\ TargetsOK'
  BY <1>0, <1>22 DEF WakeHart
<1>23. ASSUME NEW w \in Waker, Fail(w) PROVE TypeOK' /\ TargetsOK'
  BY <1>23, CreditAssumption DEF Fail
<1>24. ASSUME NEW w \in Waker, Stop(w) PROVE TypeOK' /\ TargetsOK'
  BY <1>24 DEF Stop
<1>25. ASSUME NEW w \in Waker, WakeAll(w) PROVE TypeOK' /\ TargetsOK'
  BY <1>0, <1>25 DEF WakeAll
<1>26. CASE UNCHANGED vars
  BY <1>26 DEF vars
<1>27. QED
  BY <1>1, <1>2, <1>3, <1>4, <1>5, <1>6, <1>7, <1>8, <1>9, <1>10, <1>11, <1>12, <1>13, <1>14,
     <1>15, <1>16, <1>17, <1>18, <1>19, <1>20, <1>21, <1>22, <1>23, <1>24, <1>25, <1>26
  DEF Next, Hart, Reload, Step, WakerStep, Finish

\* The credit counter of a posting step does not wrap.
LEMMA InFlightSize ==
  /\ IsFiniteSet(InFlight) /\ Cardinality(InFlight) \in Nat
  /\ \A w \in InFlight : Cardinality(InFlight) >= 1
<1>1. IsFiniteSet(InFlight)
  BY WakerAssumption, FS_Subset DEF InFlight
<1>2. Cardinality(InFlight) \in Nat
  BY <1>1, FS_CardinalityType
<1>3. \A w \in InFlight : Cardinality(InFlight) >= 1
  BY <1>1, <1>2, FS_EmptySet
<1>4. QED
  BY <1>1, <1>2, <1>3

LEMMA NoWrap ==
  ASSUME TypeOK, CreditBound
  PROVE  /\ \A w \in InFlight : credit < CreditMax
         /\ calls < MaxCalls => credit < CreditMax
         /\ live > 0 => credit < CreditMax
<1>1. credit \in Nat /\ calls \in 0 .. MaxCalls /\ live \in Int
  BY CreditAssumption DEF TypeOK
<1>2. \A w \in InFlight : Cardinality(InFlight) >= 1
  BY InFlightSize
<1>3. Cardinality(InFlight) \in Nat
  BY InFlightSize
<1>4. QED
  BY <1>1, <1>2, <1>3, CreditAssumption DEF CreditBound

\* How InFlight changes when one waker moves.
LEMMA InFlightMove ==
  ASSUME NEW w \in Waker, NEW p \in WakerPc, wpc \in [Waker -> WakerPc],
         wpc' = [wpc EXCEPT ![w] = p]
  PROVE  /\ p \in FlightPc /\ w \notin InFlight
              => Cardinality(InFlight') = Cardinality(InFlight) + 1
         /\ p \in FlightPc /\ w \in InFlight
              => Cardinality(InFlight') = Cardinality(InFlight)
         /\ p \notin FlightPc /\ w \in InFlight
              => Cardinality(InFlight') = Cardinality(InFlight) - 1
         /\ p \notin FlightPc /\ w \notin InFlight
              => Cardinality(InFlight') = Cardinality(InFlight)
<1>1. IsFiniteSet(InFlight) /\ Cardinality(InFlight) \in Nat
  BY InFlightSize
<1>2. p \in FlightPc => InFlight' = InFlight \cup {w}
  BY DEF InFlight
<1>3. p \notin FlightPc => InFlight' = InFlight \ {w}
  BY DEF InFlight
<1>4. /\ Cardinality(InFlight \cup {w}) = IF w \in InFlight THEN Cardinality(InFlight)
                                          ELSE Cardinality(InFlight) + 1
      /\ Cardinality(InFlight \ {w}) = IF w \in InFlight THEN Cardinality(InFlight) - 1
                                       ELSE Cardinality(InFlight)
  BY <1>1, FS_AddElement, FS_RemoveElement
<1>5. QED
  BY <1>2, <1>3, <1>4

\* The same for a waker that leaves the flight to run on or to stop.
LEMMA InFlightLeave ==
  ASSUME NEW w \in InFlight, NEW p \in {"run", "stopped"}, wpc \in [Waker -> WakerPc],
         wpc' = [wpc EXCEPT ![w] = p]
  PROVE  Cardinality(InFlight') = Cardinality(InFlight) - 1
<1>1. p \in WakerPc /\ p \notin FlightPc
  BY DEF WakerPc, FlightPc, Posting
<1>2. w \in Waker
  BY DEF InFlight
<1>3. QED
  BY <1>1, <1>2, InFlightMove

LEMMA CreditStep == TypeOK /\ CreditBound /\ [Next]_vars => CreditBound'
<1> SUFFICES ASSUME TypeOK, CreditBound, [Next]_vars PROVE CreditBound'
  OBVIOUS
<1> DEFINE n == Cardinality(InFlight)
<1>0. /\ credit \in Nat /\ calls \in Nat /\ live \in Int /\ n \in Nat /\ InitCredits \in Nat
      /\ wpc \in [Waker -> WakerPc]
  BY InFlightSize, CreditAssumption DEF TypeOK
<1>a. /\ \A w \in InFlight : credit < CreditMax
      /\ calls < MaxCalls => credit < CreditMax
      /\ live > 0 => credit < CreditMax
  BY NoWrap
<1>b. credit < CreditMax => Posted(credit) = credit + 1
  BY <1>0, PostedType
<1>c. credit + n <= InitCredits + calls + (IF live <= 0 THEN 1 ELSE 0)
  BY DEF CreditBound
<1>d. UNCHANGED wpc => Cardinality(InFlight') = n
  BY DEF InFlight
<1> HIDE DEF n
<1> DEFINE Bounded(m) == credit' + m <= InitCredits + calls' + (IF live' <= 0 THEN 1 ELSE 0)
<1>e. ASSUME Bounded(Cardinality(InFlight')) PROVE CreditBound'
  BY <1>e DEF CreditBound
<1>1. CASE UNCHANGED <<credit, calls, live, wpc>>
  BY <1>1, <1>0, <1>c, <1>d, <1>e
<1>2. CASE Wait
  BY <1>2, <1>0, <1>c, <1>d, <1>e DEF Wait, overVars, wakeVars
<1>3. CASE StepStop
  BY <1>3, <1>0, <1>a, <1>b, <1>c, <1>d, <1>e DEF StepStop, wakeVars
<1>4. CASE StepFail
  BY <1>4, <1>0, <1>a, <1>b, <1>c, <1>d, <1>e DEF StepFail, wakeVars
<1>5. ASSUME NEW s \in Slot, StepWake(s) PROVE CreditBound'
  BY <1>5, <1>0, <1>a, <1>b, <1>c, <1>d, <1>e DEF StepWake, wakeVars, overVars
<1> USE DEF bellVars, overVars, WakerPc, Posting, FlightPc
<1>6. ASSUME NEW w \in Waker, BeginWake(w) PROVE CreditBound'
  <2>1. wpc' = [wpc EXCEPT ![w] = "set"] /\ w \notin InFlight
    BY <1>6 DEF BeginWake, InFlight
  <2>2. Cardinality(InFlight') = n + 1
    BY <2>1, <1>0, InFlightMove DEF n
  <2>3. QED
    BY <1>6, <2>2, <1>0, <1>c, <1>e DEF BeginWake
<1>7. ASSUME NEW w \in Waker, SetReadySlot(w) PROVE CreditBound'
  <2>1. wpc' = [wpc EXCEPT ![w] = "ring"] /\ w \in InFlight
    BY <1>7 DEF SetReadySlot, InFlight
  <2>2. Cardinality(InFlight') = n
    BY <2>1, <1>0, InFlightMove DEF n
  <2>3. QED
    BY <1>7, <2>2, <1>0, <1>c, <1>e DEF SetReadySlot
<1>8. ASSUME NEW w \in Waker, RingIfArmed(w) PROVE CreditBound'
  <2>1. w \in InFlight
    BY <1>8 DEF RingIfArmed, InFlight
  <2>2. Cardinality(InFlight') <= n /\ Cardinality(InFlight') \in Int
    <3>1. CASE armed = 1
      <4>1. wpc' = [wpc EXCEPT ![w] = "bell"]
        BY <1>8, <3>1 DEF RingIfArmed
      <4>2. Cardinality(InFlight') = n
        BY <4>1, <2>1, <1>0, InFlightMove DEF n
      <4>3. QED
        BY <4>2, <1>0
    <3>2. CASE armed # 1
      <4>1. wpc' = [wpc EXCEPT ![w] = "run"]
        BY <1>8, <3>2 DEF RingIfArmed
      <4>2. Cardinality(InFlight') = n - 1
        BY <4>1, <2>1, <1>0, InFlightLeave DEF n
      <4>3. QED
        BY <4>2, <1>0
    <3>3. QED
      BY <3>1, <3>2
  <2>3. QED
    BY <1>8, <2>2, <1>0, <1>c, <1>e DEF RingIfArmed
<1>9. ASSUME NEW w \in Waker, RingBell(w) PROVE CreditBound'
  <2>1. w \in InFlight
    BY <1>9 DEF RingBell, InFlight
  <2>2. Cardinality(InFlight') <= n /\ Cardinality(InFlight') \in Int
    <3>1. CASE bell = 0
      <4>1. wpc' = [wpc EXCEPT ![w] = "wake"]
        BY <1>9, <3>1 DEF RingBell
      <4>2. Cardinality(InFlight') = n
        BY <4>1, <2>1, <1>0, InFlightMove DEF n
      <4>3. QED
        BY <4>2, <1>0
    <3>2. CASE bell # 0
      <4>1. wpc' = [wpc EXCEPT ![w] = "run"]
        BY <1>9, <3>2 DEF RingBell
      <4>2. Cardinality(InFlight') = n - 1
        BY <4>1, <2>1, <1>0, InFlightLeave DEF n
      <4>3. QED
        BY <4>2, <1>0
    <3>3. QED
      BY <3>1, <3>2
  <2>3. QED
    BY <1>9, <2>2, <1>0, <1>c, <1>e DEF RingBell
<1>10. ASSUME NEW w \in Waker, WakeHart(w) PROVE CreditBound'
  <2>1. wpc' = [wpc EXCEPT ![w] = "run"] /\ w \in InFlight
    BY <1>10 DEF WakeHart, InFlight
  <2>2. Cardinality(InFlight') = n - 1
    BY <2>1, <1>0, InFlightLeave DEF n
  <2>3. credit' = credit + 1
    BY <1>10, <2>1, <1>a, <1>b DEF WakeHart
  <2>4. QED
    BY <1>10, <2>2, <2>3, <1>0, <1>c, <1>e DEF WakeHart
<1>11. ASSUME NEW w \in Waker, Fail(w) PROVE CreditBound'
  <2>1. wpc' = [wpc EXCEPT ![w] = "failWake"] /\ w \notin InFlight
    BY <1>11 DEF Fail, InFlight
  <2>2. Cardinality(InFlight') = n + 1
    BY <2>1, <1>0, InFlightMove DEF n
  <2>3. QED
    BY <1>11, <2>2, <1>0, <1>c, <1>e DEF Fail
<1>12. ASSUME NEW w \in Waker, Stop(w) PROVE CreditBound'
  <2>1. w \notin InFlight
    BY <1>12 DEF Stop, InFlight
  <2>2. CASE live = 1
    <3>1. Cardinality(InFlight') = n + 1
      BY <1>12, <2>1, <2>2, <1>0, InFlightMove DEF n, Stop
    <3>2. QED
      BY <1>12, <2>2, <3>1, <1>0, <1>c, <1>e DEF Stop
  <2>3. CASE live # 1
    <3>1. wpc' = [wpc EXCEPT ![w] = "stopped"]
      BY <1>12, <2>3 DEF Stop
    <3>a. "stopped" \in WakerPc /\ "stopped" \notin FlightPc
      OBVIOUS
    <3>b. Cardinality(InFlight') = n
      BY <3>1, <3>a, <2>1, <1>0, InFlightMove DEF n
    <3>2. QED
      BY <1>12, <2>3, <3>b, <1>0, <1>c, <1>e DEF Stop
  <2>4. QED
    BY <2>2, <2>3
<1>13. ASSUME NEW w \in Waker, WakeAll(w) PROVE CreditBound'
  <2>1. w \in InFlight
    BY <1>13 DEF WakeAll, InFlight
  <2>2. Cardinality(InFlight') = n - 1
    <3>1. PICK p \in {"run", "stopped"} : wpc' = [wpc EXCEPT ![w] = p]
      BY <1>13 DEF WakeAll
    <3>2. QED
      BY <3>1, <2>1, <1>0, InFlightLeave DEF n
  <2>3. credit' = credit + 1
    BY <1>13, <2>1, <1>a, <1>b DEF WakeAll
  <2>4. QED
    BY <1>13, <2>2, <2>3, <1>0, <1>c, <1>e DEF WakeAll
<1>14. QED
  <2>1. CASE CheckOver \/ Reload \/ SleepCheck \/ BeginStep \/ StepYield \/ StepBlock \/ EndStep
    BY <2>1, <1>1 DEF CheckOver, Reload, TakeWord, DrainSlot, NextWord, SleepCheck,
       BeginStep, StepYield, StepBlock, EndStep, wakeVars
  <2>2. CASE \/ Pop("pop1", "step", "arm") \/ Pop("pop2", "disarmFound", "sleepCheck")
             \/ SetArmed("arm", 1, "take2")
             \/ SetArmed("disarmFound", 0, "bellFound") \/ TakeBell("bellFound", "step")
             \/ SetArmed("disarm", 0, "takeBell") \/ TakeBell("takeBell", "check")
    BY <2>2, <1>1 DEF Pop, SetArmed, TakeBell, wakeVars
  <2>3. CASE UNCHANGED vars
    BY <2>3, <1>1 DEF vars
  <2>4. QED
    BY <2>1, <2>2, <2>3, <1>2, <1>3, <1>4, <1>5, <1>6, <1>7, <1>8, <1>9, <1>10, <1>11,
       <1>12, <1>13 DEF Next, Hart, Step, WakerStep, Finish

-----------------------------------------------------------------------------
(* The inductive invariant, one lemma per conjunct.                        *)

LEMMA ArmedStep == TypeOK /\ ArmedOK /\ [Next]_vars => ArmedOK'
<1> SUFFICES ASSUME TypeOK, ArmedOK, [Next]_vars PROVE ArmedOK'
  OBVIOUS
<1> USE DEF ArmedOK, ArmedPc, bellVars, loopVars
<1>1. CASE CheckOver
  BY <1>1 DEF CheckOver
<1>2. CASE Reload
  BY <1>2 DEF Reload, TakeWord, DrainSlot, NextWord
<1>3. CASE Pop("pop1", "step", "arm") \/ Pop("pop2", "disarmFound", "sleepCheck")
  BY <1>3 DEF Pop
<1>4. CASE \/ SetArmed("arm", 1, "take2") \/ SetArmed("disarmFound", 0, "bellFound")
           \/ SetArmed("disarm", 0, "takeBell")
  BY <1>4 DEF SetArmed
<1>5. CASE TakeBell("bellFound", "step") \/ TakeBell("takeBell", "check")
  BY <1>5 DEF TakeBell
<1>6. CASE SleepCheck \/ Wait
  BY <1>6 DEF SleepCheck, Wait
<1>7. CASE Step
  BY <1>7 DEF Step, BeginStep, StepYield, StepBlock, StepStop, StepFail, StepWake, EndStep, Running
<1>8. CASE \E w \in Waker : WakerStep(w)
  BY <1>8 DEF WakerStep, Finish, BeginWake, Fail, Stop, SetReadySlot, RingIfArmed, RingBell,
     WakeHart, WakeAll
<1>9. CASE UNCHANGED vars
  BY <1>9 DEF vars
<1>10. QED
  BY <1>1, <1>2, <1>3, <1>4, <1>5, <1>6, <1>7, <1>8, <1>9 DEF Next, Hart

LEMMA WordStep == TypeOK /\ WordOK /\ [Next]_vars => WordOK'
<1> SUFFICES ASSUME TypeOK, WordOK, [Next]_vars PROVE WordOK'
  OBVIOUS
<1> USE DEF WordOK, bellVars, loopVars
<1>1. CASE CheckOver
  BY <1>1 DEF CheckOver
<1>2. CASE Reload
  BY <1>2 DEF Reload, TakeWord, DrainSlot, NextWord
<1>3. CASE Pop("pop1", "step", "arm") \/ Pop("pop2", "disarmFound", "sleepCheck")
  BY <1>3 DEF Pop
<1>4. CASE \/ SetArmed("arm", 1, "take2") \/ SetArmed("disarmFound", 0, "bellFound")
           \/ SetArmed("disarm", 0, "takeBell")
  BY <1>4 DEF SetArmed
<1>5. CASE TakeBell("bellFound", "step") \/ TakeBell("takeBell", "check")
  BY <1>5 DEF TakeBell
<1>6. CASE SleepCheck \/ Wait
  BY <1>6 DEF SleepCheck, Wait
<1>7. CASE Step
  BY <1>7 DEF Step, BeginStep, StepYield, StepBlock, StepStop, StepFail, StepWake, EndStep, Running
<1>8. CASE \E w \in Waker : WakerStep(w)
  BY <1>8 DEF WakerStep, Finish, BeginWake, Fail, Stop, SetReadySlot, RingIfArmed, RingBell,
     WakeHart, WakeAll
<1>9. CASE UNCHANGED vars
  BY <1>9 DEF vars
<1>10. QED
  BY <1>1, <1>2, <1>3, <1>4, <1>5, <1>6, <1>7, <1>8, <1>9 DEF Next, Hart

\* A posting step adds one credit, because the counter is below its maximum.
LEMMA PostAdds ==
  ASSUME TypeOK, CreditBound
  PROVE  /\ credit \in Nat
         /\ \A w \in Waker : wpc[w] \in FlightPc => Posted(credit) > 0
         /\ calls < MaxCalls => Posted(credit) > 0
         /\ live > 0 => Posted(credit) > 0
<1>1. credit \in Nat
  BY CreditAssumption DEF TypeOK
<1>2. credit < CreditMax => Posted(credit) > 0
  BY <1>1, PostedType
<1>3. QED
  BY <1>1, <1>2, NoWrap DEF InFlight

LEMMA BellStep == TypeOK /\ CreditBound /\ BellBacked /\ [Next]_vars => BellBacked'
<1> SUFFICES ASSUME TypeOK, CreditBound, BellBacked, [Next]_vars PROVE BellBacked'
  OBVIOUS
<1>0. /\ credit \in Nat
      /\ \A w \in Waker : wpc[w] \in FlightPc => Posted(credit) > 0
      /\ calls < MaxCalls => Posted(credit) > 0
      /\ live > 0 => Posted(credit) > 0
      /\ wpc \in [Waker -> WakerPc]
  BY PostAdds DEF TypeOK
<1> USE DEF BellBacked, bellVars, loopVars, wakeVars, overVars
<1>1. CASE CheckOver
  BY <1>1 DEF CheckOver
<1>2. CASE Reload
  BY <1>2 DEF Reload, TakeWord, DrainSlot, NextWord
<1>3. CASE Pop("pop1", "step", "arm") \/ Pop("pop2", "disarmFound", "sleepCheck")
  BY <1>3 DEF Pop
<1>4. CASE \/ SetArmed("arm", 1, "take2") \/ SetArmed("disarmFound", 0, "bellFound")
           \/ SetArmed("disarm", 0, "takeBell")
  BY <1>4 DEF SetArmed
<1>5. CASE TakeBell("bellFound", "step") \/ TakeBell("takeBell", "check")
  BY <1>5 DEF TakeBell
<1>6. CASE SleepCheck \/ Wait
  BY <1>6 DEF SleepCheck, Wait
<1>7. CASE BeginStep \/ StepYield \/ StepBlock \/ EndStep
  BY <1>7 DEF BeginStep, StepYield, StepBlock, EndStep, Running
<1>8. CASE StepStop
  <2>1. live = 1 => credit' > 0
    BY <1>0, <1>8 DEF StepStop
  <2>2. live # 1 => UNCHANGED credit
    BY <1>8 DEF StepStop
  <2>3. UNCHANGED <<bell, wpc>> /\ hpc = "step"
    BY <1>8 DEF StepStop, Running
  <2>4. QED
    BY <2>1, <2>2, <2>3
<1>9. CASE StepFail
  BY <1>0, <1>9 DEF StepFail
<1>10. ASSUME NEW s \in Slot, StepWake(s) PROVE BellBacked'
  BY <1>0, <1>10 DEF StepWake, Running
<1>11. ASSUME NEW w \in Waker, BeginWake(w) \/ SetReadySlot(w) \/ RingIfArmed(w) \/ Fail(w) \/ Stop(w)
       PROVE BellBacked'
  BY <1>0, <1>11 DEF BeginWake, SetReadySlot, RingIfArmed, Fail, Stop
<1>12. ASSUME NEW w \in Waker, RingBell(w) PROVE BellBacked'
  <2>1. CASE bell = 0
    <3>1. wpc'[w] = "wake"
      BY <1>0, <1>12, <2>1 DEF RingBell
    <3>2. QED
      BY <3>1
  <2>2. CASE bell # 0
    <3>1. bell = 1
      BY <2>2 DEF TypeOK
    <3>2. QED
      BY <1>0, <1>12, <3>1 DEF RingBell
  <2>3. QED
    BY <2>1, <2>2
<1>13. ASSUME NEW w \in Waker, WakeHart(w) \/ WakeAll(w) PROVE BellBacked'
  BY <1>0, <1>13 DEF WakeHart, WakeAll, FlightPc, Posting
<1>14. CASE UNCHANGED vars
  BY <1>14 DEF vars
<1>15. QED
  BY <1>1, <1>2, <1>3, <1>4, <1>5, <1>6, <1>7, <1>8, <1>9, <1>10, <1>11, <1>12, <1>13, <1>14
     DEF Next, Hart, Step, WakerStep, Finish

LEMMA OverStep == TypeOK /\ CreditBound /\ OverBacked /\ [Next]_vars => OverBacked'
<1> SUFFICES ASSUME TypeOK, CreditBound, OverBacked, [Next]_vars PROVE OverBacked'
  OBVIOUS
<1>0. /\ credit \in Nat
      /\ \A w \in Waker : wpc[w] \in FlightPc => Posted(credit) > 0
      /\ wpc \in [Waker -> WakerPc] /\ live \in Int
  BY PostAdds DEF TypeOK
<1> USE DEF OverBacked, Over, bellVars, loopVars, wakeVars, overVars
<1>1. CASE CheckOver \/ Reload
  BY <1>1 DEF CheckOver, Reload, TakeWord, DrainSlot, NextWord
<1>2. CASE Pop("pop1", "step", "arm") \/ Pop("pop2", "disarmFound", "sleepCheck")
  BY <1>2 DEF Pop
<1>3. CASE \/ SetArmed("arm", 1, "take2") \/ SetArmed("disarmFound", 0, "bellFound")
           \/ SetArmed("disarm", 0, "takeBell")
           \/ TakeBell("bellFound", "step") \/ TakeBell("takeBell", "check")
  BY <1>3 DEF SetArmed, TakeBell
<1>4. CASE SleepCheck \/ Wait
  BY <1>4 DEF SleepCheck, Wait
<1>5. CASE Step
  BY <1>5 DEF Step, BeginStep, StepYield, StepBlock, StepStop, StepFail, StepWake, EndStep, Running
<1>6. ASSUME NEW w \in Waker,
             BeginWake(w) \/ SetReadySlot(w) \/ RingIfArmed(w) \/ RingBell(w)
      PROVE OverBacked'
  BY <1>0, <1>6 DEF BeginWake, SetReadySlot, RingIfArmed, RingBell
<1>7. ASSUME NEW w \in Waker, Fail(w) PROVE OverBacked'
  BY <1>0, <1>7 DEF Fail
<1>8. ASSUME NEW w \in Waker, Stop(w) PROVE OverBacked'
  BY <1>0, <1>8 DEF Stop
<1>9. ASSUME NEW w \in Waker, WakeHart(w) \/ WakeAll(w) PROVE OverBacked'
  BY <1>0, <1>9 DEF WakeHart, WakeAll, FlightPc, Posting
<1>10. CASE UNCHANGED vars
  BY <1>10 DEF vars
<1>11. QED
  BY <1>1, <1>2, <1>3, <1>4, <1>5, <1>6, <1>7, <1>8, <1>9, <1>10 DEF Next, Hart, WakerStep, Finish

LEMMA ReadyStep ==
  TypeOK /\ ArmedOK /\ WordOK /\ CreditBound /\ ReadyBacked /\ [Next]_vars => ReadyBacked'
<1> SUFFICES ASSUME TypeOK, ArmedOK, WordOK, CreditBound, ReadyBacked, [Next]_vars,
                    NEW s \in bits', Scanned(s)'
             PROVE  (\/ credit > 0 \/ bell = 1
                     \/ \E w \in Waker : wpc[w] \in {"ring", "bell", "wake"})'
  BY DEF ReadyBacked
<1> DEFINE Backed == \/ credit > 0 \/ bell = 1
                     \/ \E w \in Waker : wpc[w] \in {"ring", "bell", "wake"}
<1>0. /\ credit \in Nat
      /\ \A w \in Waker : wpc[w] \in FlightPc => Posted(credit) > 0
      /\ wpc \in [Waker -> WakerPc]
      /\ bits \subseteq Slot /\ word \in 0 .. NrWords - 1
  BY PostAdds DEF TypeOK
<1>a. s \in bits /\ Scanned(s) => Backed
  BY DEF ReadyBacked
<1>b. \A t \in Slot : WordOf[t] \in 0 .. NrWords - 1
  BY WordAssumption
<1> USE DEF Scanned, bellVars, loopVars, wakeVars, overVars
<1>1. CASE CheckOver \/ TakeWord("take1", "drain1") \/ DrainSlot("drain1")
           \/ NextWord("drain1", "take1", "pop1")
  BY <1>1 DEF CheckOver, TakeWord, DrainSlot, NextWord
<1>2. CASE TakeWord("take2", "drain2")
  <2>1. s \in bits /\ WordOf[s] < word /\ hpc = "take2"
    BY <1>0, <1>2, <1>b DEF TakeWord
  <2>2. QED
    BY <1>2, <1>a, <2>1 DEF TakeWord
<1>3. CASE DrainSlot("drain2")
  BY <1>3, <1>a DEF DrainSlot
<1>4. CASE NextWord("drain2", "take2", "pop2")
  <2>1. s \in bits /\ WordOf[s] <= word /\ hpc = "drain2"
    BY <1>0, <1>4, <1>b, WordAssumption DEF NextWord
  <2>2. QED
    BY <1>4, <1>a, <2>1 DEF NextWord
<1>5. CASE Pop("pop1", "step", "arm") \/ Pop("pop2", "disarmFound", "sleepCheck")
  BY <1>5, <1>a DEF Pop
<1>6. CASE SetArmed("arm", 1, "take2")
  <2>1. word' = 0 /\ hpc' = "take2" /\ s \in Slot
    BY <1>0, <1>6 DEF SetArmed, WordOK
  <2>2. ~ Scanned(s)'
    BY <2>1, <1>b
  <2>3. QED
    BY <2>2
<1>7. CASE \/ SetArmed("disarmFound", 0, "bellFound") \/ SetArmed("disarm", 0, "takeBell")
           \/ TakeBell("bellFound", "step") \/ TakeBell("takeBell", "check")
  BY <1>7 DEF SetArmed, TakeBell
<1>8. CASE SleepCheck \/ Wait
  BY <1>8, <1>a DEF SleepCheck, Wait
<1>9. CASE Step
  BY <1>9 DEF Step, BeginStep, StepYield, StepBlock, StepStop, StepFail, StepWake, EndStep, Running
<1>10. ASSUME NEW w \in Waker, SetReadySlot(w) PROVE Backed'
  <2>1. wpc'[w] = "ring"
    BY <1>0, <1>10 DEF SetReadySlot
  <2>2. QED
    BY <2>1
<1>11. ASSUME NEW w \in Waker, RingIfArmed(w) PROVE Backed'
  <2>1. armed = 1
    BY <1>11 DEF RingIfArmed, ArmedOK, ArmedPc
  <2>2. wpc'[w] = "bell"
    BY <1>0, <1>11, <2>1 DEF RingIfArmed
  <2>3. QED
    BY <2>2
<1>12. ASSUME NEW w \in Waker, RingBell(w) PROVE Backed'
  BY <1>12 DEF RingBell
<1>13. ASSUME NEW w \in Waker, WakeHart(w) \/ WakeAll(w) PROVE Backed'
  BY <1>0, <1>13 DEF WakeHart, WakeAll, FlightPc, Posting
<1>14. ASSUME NEW w \in Waker, BeginWake(w) \/ Fail(w) \/ Stop(w) PROVE Backed'
  <2>1. s \in bits /\ Scanned(s)
    BY <1>14 DEF BeginWake, Fail, Stop
  <2>2. QED
    BY <1>0, <1>14, <1>a, <2>1 DEF BeginWake, Fail, Stop
<1>15. CASE UNCHANGED vars
  BY <1>15, <1>a DEF vars
<1>16. QED
  BY <1>1, <1>2, <1>3, <1>4, <1>5, <1>6, <1>7, <1>8, <1>9, <1>10, <1>11, <1>12, <1>13, <1>14, <1>15
     DEF Next, Hart, Reload, WakerStep, Finish

-----------------------------------------------------------------------------
(* The theorems.                                                           *)

LEMMA InitInv == Init => IInv
<1> SUFFICES ASSUME Init PROVE IInv
  OBVIOUS
<1>1. TypeOK /\ TargetsOK
  BY InitType
<1>2. ArmedOK /\ WordOK /\ BellBacked /\ ReadyBacked /\ OverBacked
  BY DEF Init, ArmedOK, ArmedPc, WordOK, BellBacked, ReadyBacked, OverBacked
<1>3. CreditBound
  <2>1. InFlight = {}
    BY DEF Init, InFlight, FlightPc, Posting
  <2>2. Cardinality(InFlight) = 0
    BY <2>1, FS_EmptySet
  <2>3. /\ credit \in 0 .. InitCredits /\ calls = 0 /\ InitCredits \in Nat
        /\ (IF live <= 0 THEN 1 ELSE 0) \in {0, 1}
    BY CreditAssumption DEF Init
  <2>4. QED
    BY <2>2, <2>3 DEF CreditBound
<1>4. QED
  BY <1>1, <1>2, <1>3 DEF IInv

LEMMA StepInv == IInv /\ [Next]_vars => IInv'
  BY TypeStep, ArmedStep, WordStep, BellStep, ReadyStep, OverStep, CreditStep DEF IInv

\* Every variable of the sleep and wake protocol keeps its type, for every
\* number of slots, ready words and wakers: current_proc names a slot whenever
\* tpa_step dereferences it, and the credit counter stays in its range.
THEOREM TypeCorrect == Spec => []TypeOK
<1>1. TypeOK /\ TargetsOK /\ [Next]_vars => TypeOK' /\ TargetsOK'
  BY TypeStep
<1>2. QED
  BY <1>1, InitType, PTL DEF Spec

\* The inductive invariant: armed is set exactly while the hart is between
\* set_armed(1) and set_armed(0), a rung bell and a ready bit that the armed
\* hart has already scanned past are backed by a credit, and the credit
\* counter never wraps.
THEOREM Inductive == Spec => []IInv
  BY InitInv, StepInv, PTL DEF Spec

LEMMA InvImpliesNoLostWakeup == IInv => NoLostWakeup
<1> SUFFICES ASSUME IInv, hpc = "wait", credit = 0, bits # {} \/ Over
             PROVE  \E w \in Waker : wpc[w] \in Posting
  BY DEF NoLostWakeup
<1> USE DEF IInv, Posting
<1>1. CASE Over
  BY <1>1 DEF OverBacked
<1>2. CASE bits # {}
  <2>1. PICK s \in bits : Scanned(s)
    BY <1>2 DEF Scanned
  <2>2. bell = 1 \/ \E w \in Waker : wpc[w] \in {"ring", "bell", "wake"}
    BY <2>1 DEF ReadyBacked
  <2>3. QED
    BY <2>2 DEF BellBacked
<1>3. QED
  BY <1>1, <1>2

\* No lost wakeup: a hart stalled in tpa_hal_wait_for_wake with no credit has
\* no ready bit and the run is not over, unless another hart is between
\* tpa_sched_set_ready_slot (or the end-of-run flag) and its credit post.
THEOREM NoLostWakeupHolds == Spec => []NoLostWakeup
  BY Inductive, InvImpliesNoLostWakeup, PTL

-----------------------------------------------------------------------------
(* Where the wakes and the runnable processes are.                         *)

LEMMA NoSlotNoSlot == NoSlot \notin Slot
  BY SlotAssumption DEF NoSlot

\* runq_push of a process that is not queued, and tpa_runq_pop.
LEMMA AppendOnce ==
  ASSUME NEW q \in Seq(Slot), NEW s \in Slot,
         \A i, j \in 1 .. Len(q) : q[i] = q[j] => i = j,
         ~ \E i \in 1 .. Len(q) : q[i] = s
  PROVE  /\ \A i, j \in 1 .. Len(Append(q, s)) : Append(q, s)[i] = Append(q, s)[j] => i = j
         /\ \A t : (\E i \in 1 .. Len(Append(q, s)) : Append(q, s)[i] = t)
                     <=> t = s \/ \E i \in 1 .. Len(q) : q[i] = t
<1> DEFINE n == Len(q)
<1>1. n \in Nat /\ Len(Append(q, s)) = n + 1
  OBVIOUS
<1>2. \A i \in 1 .. n + 1 : Append(q, s)[i] = IF i = n + 1 THEN s ELSE q[i]
  BY <1>1
<1> HIDE DEF n
<1>3. \A i \in 1 .. n + 1 : i = n + 1 \/ i \in 1 .. n
  BY <1>1
<1>4. n + 1 \in 1 .. n + 1 /\ \A i \in 1 .. n : i \in 1 .. n + 1 /\ i # n + 1
  BY <1>1
<1>5. QED
  BY <1>1, <1>2, <1>3, <1>4 DEF n

LEMMA TailOnce ==
  ASSUME NEW q \in Seq(Slot), q # <<>>,
         \A i, j \in 1 .. Len(q) : q[i] = q[j] => i = j
  PROVE  /\ Head(q) \in Slot /\ \E i \in 1 .. Len(q) : q[i] = Head(q)
         /\ \A i, j \in 1 .. Len(Tail(q)) : Tail(q)[i] = Tail(q)[j] => i = j
         /\ \A t : (\E i \in 1 .. Len(Tail(q)) : Tail(q)[i] = t)
                     <=> t # Head(q) /\ \E i \in 1 .. Len(q) : q[i] = t
<1> DEFINE n == Len(Tail(q))
<1>1. n \in Nat /\ Len(q) = n + 1 /\ Head(q) = q[1] /\ Head(q) \in Slot
  OBVIOUS
<1>2. \A i \in 1 .. n : Tail(q)[i] = q[i + 1]
  OBVIOUS
<1> HIDE DEF n
<1>3. \A i \in 1 .. n : i + 1 \in 1 .. n + 1 /\ i + 1 # 1
  BY <1>1
<1>4. 1 \in 1 .. n + 1 /\ \A i \in 1 .. n + 1 : i = 1 \/ (i - 1 \in 1 .. n /\ (i - 1) + 1 = i)
  BY <1>1
<1>5. \A i, j \in 1 .. n : Tail(q)[i] = Tail(q)[j] => i = j
  <2> SUFFICES ASSUME NEW i \in 1 .. n, NEW j \in 1 .. n, Tail(q)[i] = Tail(q)[j] PROVE i = j
    OBVIOUS
  <2>1. q[i + 1] = q[j + 1] /\ i + 1 \in 1 .. n + 1 /\ j + 1 \in 1 .. n + 1
    BY <1>2, <1>3
  <2>2. i + 1 = j + 1
    BY <1>1, <2>1
  <2>3. QED
    BY <1>1, <2>2
<1>6. ASSUME NEW t
      PROVE  (\E i \in 1 .. n : Tail(q)[i] = t) <=> t # Head(q) /\ \E i \in 1 .. n + 1 : q[i] = t
  <2>1. ASSUME NEW i \in 1 .. n, Tail(q)[i] = t
        PROVE  t # Head(q) /\ \E k \in 1 .. n + 1 : q[k] = t
    BY <1>1, <1>2, <1>3, <1>4, <2>1
  <2>2. ASSUME NEW k \in 1 .. n + 1, q[k] = t, t # Head(q)
        PROVE  \E i \in 1 .. n : Tail(q)[i] = t
    <3>1. k - 1 \in 1 .. n /\ (k - 1) + 1 = k
      BY <1>1, <1>4, <2>2
    <3>2. QED
      BY <1>2, <2>2, <3>1
  <2>3. QED
    BY <2>1, <2>2
<1>7. QED
  BY <1>1, <1>4, <1>5, <1>6 DEF n

\* Boot queues each process of the hart once.
LEMMA InitQueue == Init => QueueExact
<1> SUFFICES ASSUME Init PROVE QueueExact
  OBVIOUS
<1> DEFINE n == Cardinality(Slot)
<1>1. n \in Nat /\ IsFiniteSet(Slot)
  BY SlotAssumption, FS_CardinalityType
<1>2. runq \in [1 .. n -> Slot] /\ \A s \in Slot : \E i \in 1 .. n : runq[i] = s
  BY DEF Init
<1>3. Len(runq) = n
  BY <1>1, <1>2
<1>4. IsFiniteSet(1 .. n) /\ Cardinality(1 .. n) = n
  BY <1>1, FS_Interval
<1>5. runq \in Surjection(1 .. n, Slot)
  BY <1>2 DEF Surjection
<1>6. runq \in Injection(1 .. n, Slot)
  BY <1>1, <1>4, <1>5, FS_SurjSameCardinalityImpliesInj
<1>7. \A i, j \in 1 .. n : runq[i] = runq[j] => i = j
  BY <1>6 DEF Injection, IsInjective
<1>8. \A s \in Slot : st[s] = "ready" /\ hpc \notin HasCur
  BY DEF Init, HasCur
<1>9. QED
  BY <1>2, <1>3, <1>7, <1>8 DEF QueueExact

LEMMA InitQ == Init => QInv
<1> SUFFICES ASSUME Init PROVE QInv
  OBVIOUS
<1>1. PlacesOK
  BY DEF Init, PlacesOK, HasCur
<1>2. WakeAccounted
  BY NoSlotNoSlot DEF Init, WakeAccounted
<1>3. QED
  BY <1>1, <1>2, InitType, InitQueue DEF QInv

\* A step that leaves the queue, the states and the hart's process alone.
LEMMA QueueKept ==
  ASSUME QueueExact, UNCHANGED <<runq, cur>>, hpc' \in HasCur <=> hpc \in HasCur,
         \A s \in Slot : st'[s] = "ready" <=> st[s] = "ready"
  PROVE  QueueExact'
  BY DEF QueueExact

LEMMA PlacesStep == QInv /\ [Next]_vars => PlacesOK'
<1> SUFFICES ASSUME QInv, [Next]_vars PROVE PlacesOK'
  OBVIOUS
<1> USE DEF QInv, TypeOK, TargetsOK, PlacesOK, HasCur, bellVars, overVars, loopVars, wakeVars
<1>1. CASE \/ CheckOver \/ TakeWord("take1", "drain1") \/ TakeWord("take2", "drain2")
           \/ NextWord("drain1", "take1", "pop1") \/ NextWord("drain2", "take2", "pop2")
           \/ SleepCheck \/ Wait
  BY <1>1 DEF CheckOver, TakeWord, NextWord, SleepCheck, Wait
<1>2. CASE DrainSlot("drain1") \/ DrainSlot("drain2")
  BY <1>2 DEF DrainSlot
<1>3. CASE Pop("pop1", "step", "arm") \/ Pop("pop2", "disarmFound", "sleepCheck")
  <2>1. CASE runq = <<>>
    BY <1>3, <2>1 DEF Pop
  <2>2. CASE runq # <<>>
    <3>1. Head(runq) \in Slot /\ \E i \in 1 .. Len(runq) : runq[i] = Head(runq)
      BY <2>2, TailOnce DEF QueueExact
    <3>2. st[Head(runq)] = "ready"
      BY <3>1 DEF QueueExact
    <3>3. QED
      BY <1>3, <2>2, <3>2 DEF Pop
  <2>3. QED
    BY <2>1, <2>2
<1>4. CASE \/ SetArmed("arm", 1, "take2") \/ SetArmed("disarmFound", 0, "bellFound")
           \/ SetArmed("disarm", 0, "takeBell")
           \/ TakeBell("bellFound", "step") \/ TakeBell("takeBell", "check")
  BY <1>4 DEF SetArmed, TakeBell
<1>5. CASE Step
  BY <1>5 DEF Step, BeginStep, StepYield, StepBlock, StepStop, StepFail, StepWake, EndStep, Running
<1>6. ASSUME NEW w \in Waker, BeginWake(w) PROVE PlacesOK'
  BY <1>6 DEF BeginWake
<1>7. ASSUME NEW w \in Waker, SetReadySlot(w) \/ RingIfArmed(w) \/ RingBell(w) PROVE PlacesOK'
  BY <1>7 DEF SetReadySlot, RingIfArmed, RingBell
<1>8. ASSUME NEW w \in Waker, WakeHart(w) \/ WakeAll(w) \/ Fail(w) \/ Stop(w) PROVE PlacesOK'
  BY <1>8 DEF WakeHart, WakeAll, Fail, Stop
<1>9. CASE UNCHANGED vars
  BY <1>9 DEF vars
<1>10. QED
  BY <1>1, <1>2, <1>3, <1>4, <1>5, <1>6, <1>7, <1>8, <1>9 DEF Next, Hart, Reload, WakerStep, Finish

\* A wake moves from its waker to the ready bits, from there to the word that
\* is drained, and from there to the run queue; each move is one step.
LEMMA AccountedStep == QInv /\ [Next]_vars => WakeAccounted'
<1> SUFFICES ASSUME QInv, [Next]_vars PROVE WakeAccounted'
  OBVIOUS
<1> USE NoSlotNoSlot
    DEF QInv, TypeOK, TargetsOK, PlacesOK, HasCur, bellVars, overVars, loopVars, wakeVars
<1>0. ASSUME UNCHANGED <<bits, pending, wslot>>,
             \A s \in Slot : st'[s] = "waking" <=> st[s] = "waking"
      PROVE  WakeAccounted'
  BY <1>0 DEF WakeAccounted
<1>1. CASE TakeWord("take1", "drain1") \/ TakeWord("take2", "drain2")
  <2>1. /\ pending = {} /\ UNCHANGED <<st, wslot>>
        /\ pending' = {s \in bits : WordOf[s] = word} /\ bits' = bits \ pending'
    BY <1>1 DEF TakeWord
  <2>2. \A s \in Slot : (s \in bits' \/ s \in pending') <=> s \in bits
    BY <2>1
  <2>3. QED
    BY <2>1, <2>2 DEF WakeAccounted
<1>2. CASE DrainSlot("drain1") \/ DrainSlot("drain2")
  <2>1. PICK s \in pending :
          /\ pending' = pending \ {s}
          /\ IF st[s] = "dead"
             THEN UNCHANGED <<st, runq>>
             ELSE st' = [st EXCEPT ![s] = "ready"] /\ runq' = Append(runq, s)
    BY <1>2 DEF DrainSlot
  <2>2. s \in Slot /\ st[s] = "waking" /\ s \notin bits /\ \A w \in Waker : wslot[w] # s
    BY DEF WakeAccounted
  <2>3. st' = [st EXCEPT ![s] = "ready"] /\ UNCHANGED <<bits, wslot>>
    BY <1>2, <2>1, <2>2 DEF DrainSlot
  <2>4. QED
    BY <2>1, <2>2, <2>3 DEF WakeAccounted
<1>3. CASE \/ CheckOver \/ NextWord("drain1", "take1", "pop1") \/ NextWord("drain2", "take2", "pop2")
           \/ Pop("pop1", "step", "arm") \/ Pop("pop2", "disarmFound", "sleepCheck")
           \/ SleepCheck \/ Wait
  BY <1>0, <1>3 DEF CheckOver, NextWord, Pop, SleepCheck, Wait
<1>4. CASE \/ SetArmed("arm", 1, "take2") \/ SetArmed("disarmFound", 0, "bellFound")
           \/ SetArmed("disarm", 0, "takeBell")
           \/ TakeBell("bellFound", "step") \/ TakeBell("takeBell", "check")
  BY <1>0, <1>4 DEF SetArmed, TakeBell
<1>5. CASE BeginStep \/ StepYield \/ StepBlock \/ StepStop \/ StepFail \/ EndStep
  BY <1>0, <1>5 DEF BeginStep, StepYield, StepBlock, StepStop, StepFail, EndStep, Running
<1>6. ASSUME NEW s \in Slot, StepWake(s) PROVE WakeAccounted'
  <2>1. /\ st[s] = "wait" /\ st' = [st EXCEPT ![s] = "waking"] /\ bits' = bits \cup {s}
        /\ UNCHANGED <<pending, wslot>>
    BY <1>6 DEF StepWake
  <2>2. s \notin bits \cup pending /\ \A w \in Waker : wslot[w] # s
    BY <2>1 DEF WakeAccounted
  <2>3. QED
    BY <2>1, <2>2 DEF WakeAccounted
<1>7. ASSUME NEW w \in Waker, BeginWake(w) PROVE WakeAccounted'
  <2>1. PICK s \in Slot : /\ st[s] = "wait" /\ st' = [st EXCEPT ![s] = "waking"]
                          /\ wslot' = [wslot EXCEPT ![w] = s]
    BY <1>7 DEF BeginWake
  <2>2. wpc[w] = "run" /\ UNCHANGED <<bits, pending>>
    BY <1>7 DEF BeginWake
  <2>3. wslot[w] = NoSlot
    BY <2>2
  <2>4. s \notin bits \cup pending /\ \A v \in Waker : wslot[v] # s
    BY <2>1 DEF WakeAccounted
  <2>5. \A v \in Waker : wslot'[v] = IF v = w THEN s ELSE wslot[v]
    BY <2>1
  <2>6. \A t \in Slot : st'[t] = IF t = s THEN "waking" ELSE st[t]
    BY <2>1
  <2>7. ASSUME NEW t \in Slot, t # s
        PROVE  \A v \in Waker : wslot'[v] = t <=> wslot[v] = t
    BY <2>3, <2>5, <2>7
  <2>8. QED
    BY <2>2, <2>4, <2>5, <2>6, <2>7 DEF WakeAccounted
<1>8. ASSUME NEW w \in Waker, SetReadySlot(w) PROVE WakeAccounted'
  <2>1. PICK s : s = wslot[w]
    OBVIOUS
  <2>2. /\ s \in Slot /\ bits' = bits \cup {s} /\ wslot' = [wslot EXCEPT ![w] = NoSlot]
        /\ UNCHANGED <<st, pending>>
    BY <1>8, <2>1 DEF SetReadySlot
  <2>3. st[s] = "waking" /\ s \notin bits \cup pending /\ \A v \in Waker : wslot[v] = s => v = w
    BY <2>1, <2>2 DEF WakeAccounted
  <2>4. \A v \in Waker : wslot'[v] = IF v = w THEN NoSlot ELSE wslot[v]
    BY <2>2
  <2>5. ASSUME NEW t \in Slot, t # s
        PROVE  \A v \in Waker : wslot'[v] = t <=> wslot[v] = t
    BY <2>1, <2>4, <2>5
  <2>6. \A v \in Waker : wslot'[v] # s
    BY <2>2, <2>3, <2>4
  <2>7. QED
    BY <2>2, <2>3, <2>5, <2>6 DEF WakeAccounted
<1>9. ASSUME NEW w \in Waker, RingIfArmed(w) \/ RingBell(w) \/ WakeHart(w) \/ WakeAll(w) \/ Fail(w) \/ Stop(w)
      PROVE WakeAccounted'
  BY <1>0, <1>9 DEF RingIfArmed, RingBell, WakeHart, WakeAll, Fail, Stop
<1>10. CASE UNCHANGED vars
  BY <1>0, <1>10 DEF vars
<1>11. QED
  BY <1>1, <1>2, <1>3, <1>4, <1>5, <1>6, <1>7, <1>8, <1>9, <1>10
     DEF Next, Hart, Reload, Step, WakerStep, Finish

\* A process is pushed only when it is woken or yields, and then it is in no
\* queue; the one that is taken off is the one that runs.
LEMMA QueueStep == QInv /\ [Next]_vars => QueueExact'
<1> SUFFICES ASSUME QInv, [Next]_vars PROVE QueueExact'
  OBVIOUS
<1> USE NoSlotNoSlot
    DEF QInv, TypeOK, TargetsOK, PlacesOK, HasCur, bellVars, overVars, loopVars, wakeVars
<1>1. CASE \/ CheckOver \/ TakeWord("take1", "drain1") \/ TakeWord("take2", "drain2")
           \/ NextWord("drain1", "take1", "pop1") \/ NextWord("drain2", "take2", "pop2")
           \/ SleepCheck \/ Wait
  BY <1>1, QueueKept DEF CheckOver, TakeWord, NextWord, SleepCheck, Wait
<1>2. CASE DrainSlot("drain1") \/ DrainSlot("drain2")
  <2>1. PICK s \in pending :
          /\ pending' = pending \ {s}
          /\ IF st[s] = "dead"
             THEN UNCHANGED <<st, runq>>
             ELSE st' = [st EXCEPT ![s] = "ready"] /\ runq' = Append(runq, s)
    BY <1>2 DEF DrainSlot
  <2>2. s \in Slot /\ st[s] = "waking"
    BY DEF WakeAccounted
  <2>3. /\ st' = [st EXCEPT ![s] = "ready"] /\ runq' = Append(runq, s)
        /\ hpc \notin HasCur /\ hpc' \notin HasCur
    BY <1>2, <2>1, <2>2 DEF DrainSlot
  <2>4. ~ \E i \in 1 .. Len(runq) : runq[i] = s
    BY <2>2 DEF QueueExact
  <2>5. /\ \A i, j \in 1 .. Len(runq') : runq'[i] = runq'[j] => i = j
        /\ \A t : (\E i \in 1 .. Len(runq') : runq'[i] = t)
                    <=> t = s \/ \E i \in 1 .. Len(runq) : runq[i] = t
    BY <2>2, <2>3, <2>4, AppendOnce DEF QueueExact
  <2>6. QED
    BY <2>2, <2>3, <2>5 DEF QueueExact
<1>3. CASE Pop("pop1", "step", "arm") \/ Pop("pop2", "disarmFound", "sleepCheck")
  <2>1. CASE runq = <<>>
    BY <1>3, <2>1, QueueKept DEF Pop
  <2>2. CASE runq # <<>>
    <3>1. /\ cur' = Head(runq) /\ runq' = Tail(runq) /\ UNCHANGED st
          /\ hpc \notin HasCur /\ hpc' \in HasCur
      BY <1>3, <2>2 DEF Pop
    <3>2. /\ \A i, j \in 1 .. Len(runq') : runq'[i] = runq'[j] => i = j
          /\ \A t : (\E i \in 1 .. Len(runq') : runq'[i] = t)
                      <=> t # cur' /\ \E i \in 1 .. Len(runq) : runq[i] = t
      <4>1. /\ runq \in Seq(Slot)
            /\ \A i, j \in 1 .. Len(runq) : runq[i] = runq[j] => i = j
        BY DEF QueueExact
      <4>2. /\ \A i, j \in 1 .. Len(Tail(runq)) : Tail(runq)[i] = Tail(runq)[j] => i = j
            /\ \A t : (\E i \in 1 .. Len(Tail(runq)) : Tail(runq)[i] = t)
                        <=> t # Head(runq) /\ \E i \in 1 .. Len(runq) : runq[i] = t
        BY ONLY <2>2, <4>1, TailOnce
      <4>3. QED
        BY ONLY <3>1, <4>2
    <3>3. QED
      BY <3>1, <3>2 DEF QueueExact
  <2>3. QED
    BY <2>1, <2>2
<1>4. CASE \/ SetArmed("arm", 1, "take2") \/ SetArmed("disarmFound", 0, "bellFound")
           \/ SetArmed("disarm", 0, "takeBell")
           \/ TakeBell("bellFound", "step") \/ TakeBell("takeBell", "check")
  BY <1>4, QueueKept DEF SetArmed, TakeBell
<1>5. CASE BeginStep \/ StepBlock \/ StepStop
  <2>1. /\ hpc = "step" /\ cur \in Slot /\ UNCHANGED <<runq, cur>>
        /\ \E p \in {"run", "wait", "dead"} : st' = [st EXCEPT ![cur] = p]
    BY <1>5 DEF BeginStep, StepBlock, StepStop, Running
  <2>2. \A s \in Slot : s # cur => st'[s] = st[s]
    BY <2>1
  <2>3. st'[cur] # "ready"
    BY <2>1
  <2>4. QED
    BY <2>1, <2>2, <2>3 DEF QueueExact
<1>6. CASE StepYield
  <2>1. /\ hpc = "step" /\ cur \in Slot /\ st[cur] = "run" /\ hpc' = "tail"
        /\ st' = [st EXCEPT ![cur] = "ready"] /\ runq' = Append(runq, cur)
    BY <1>6 DEF StepYield, Running
  <2>2. ~ \E i \in 1 .. Len(runq) : runq[i] = cur
    BY <2>1 DEF QueueExact
  <2>3. /\ \A i, j \in 1 .. Len(runq') : runq'[i] = runq'[j] => i = j
        /\ \A t : (\E i \in 1 .. Len(runq') : runq'[i] = t)
                    <=> t = cur \/ \E i \in 1 .. Len(runq) : runq[i] = t
    BY <2>1, <2>2, AppendOnce DEF QueueExact
  <2>4. \A s \in Slot : st'[s] = IF s = cur THEN "ready" ELSE st[s]
    BY <2>1
  <2>5. QED
    BY <2>1, <2>3, <2>4 DEF QueueExact
<1>7. CASE StepFail \/ EndStep
  BY <1>7, QueueKept DEF StepFail, EndStep, Running, QueueExact
<1>8. ASSUME NEW s \in Slot, StepWake(s) PROVE QueueExact'
  BY <1>8, QueueKept DEF StepWake
<1>9. ASSUME NEW w \in Waker, BeginWake(w) PROVE QueueExact'
  BY <1>9, QueueKept DEF BeginWake
<1>10. ASSUME NEW w \in Waker, SetReadySlot(w) \/ RingIfArmed(w) \/ RingBell(w)
       PROVE QueueExact'
  BY <1>10, QueueKept DEF SetReadySlot, RingIfArmed, RingBell
<1>11. ASSUME NEW w \in Waker, WakeHart(w) \/ WakeAll(w) \/ Fail(w) \/ Stop(w)
       PROVE QueueExact'
  BY <1>11, QueueKept DEF WakeHart, WakeAll, Fail, Stop
<1>12. CASE UNCHANGED vars
  BY <1>12, QueueKept DEF vars
<1>13. QED
  BY <1>1, <1>2, <1>3, <1>4, <1>5, <1>6, <1>7, <1>8, <1>9, <1>10, <1>11, <1>12
     DEF Next, Hart, Reload, Step, WakerStep, Finish

LEMMA StepQ == QInv /\ [Next]_vars => QInv'
  BY TypeStep, PlacesStep, AccountedStep, QueueStep DEF QInv

LEMMA AlwaysQ == Spec => []QInv
  BY InitQ, StepQ, PTL DEF Spec

\* No wake is lost or doubled on its way from the waker to the run queue.
THEOREM WakeAccountedHolds == Spec => []WakeAccounted
<1>1. QInv => WakeAccounted
  BY DEF QInv
<1>2. QED
  BY <1>1, AlwaysQ, PTL

\* The run queue holds each runnable process once and nothing else.
THEOREM QueueExactHolds == Spec => []QueueExact
<1>1. QInv => QueueExact
  BY DEF QInv
<1>2. QED
  BY <1>1, AlwaysQ, PTL
=============================================================================
