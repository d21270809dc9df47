--------------------------- MODULE RunQueueProofs ---------------------------
(***************************************************************************)
(* The run queue stays a list of exactly the ready processes, for any set  *)
(* of processes.  IInv is inductive: the two lemmas on the list say what a *)
(* push of an unlinked node and a pop do to it, and the rest shows that    *)
(* only unlinked nodes are pushed.                                         *)
(***************************************************************************)
EXTENDS RunQueue, TLAPS

ListType == /\ head \in Slot \cup {Null} /\ tail \in Slot \cup {Null}
            /\ next \in [Slot -> Slot \cup {Null}] /\ fifo \in Seq(Slot)

In(s) == \E i \in 1 .. Len(fifo) : fifo[i] = s

LEMMA NullNoSlot == Null \notin Slot
  BY SlotAssumption DEF Null

\* runq_push of a node that is not linked appends it to the list.
LEMMA PushOK ==
  ASSUME NEW s \in Slot, ListType, Linked, Once, ~In(s), Push(s)
  PROVE  ListType' /\ Linked' /\ Once' /\ \A t \in Slot : In(t)' <=> In(t) \/ t = s
<1> DEFINE n == Len(fifo)
<1>0. n \in Nat /\ fifo \in Seq(Slot) /\ Null \notin Slot
  BY NullNoSlot DEF ListType
<1>1. /\ fifo' \in Seq(Slot) /\ Len(fifo') = n + 1 /\ fifo'[n + 1] = s
      /\ \A i \in 1 .. n : fifo'[i] = fifo[i]
  BY <1>0 DEF Push
<1>2. \A i \in 1 .. n : fifo[i] \in Slot /\ fifo[i] # s
  BY <1>0 DEF In
<1>3. /\ n = 0 <=> head = Null
      /\ n > 0 => head = fifo[1] /\ tail = fifo[n]
  <2>1. n = 0 => fifo = <<>>
    BY <1>0
  <2>2. n > 0 => fifo # <<>>
    BY <1>0
  <2> QED BY <2>1, <2>2, <1>0, <1>2 DEF Linked
<1>4. ListType'
  BY <1>0, <1>1, <1>2, <1>3 DEF ListType, Push
<1>5. \A t \in Slot : next'[t] = IF t = tail /\ n > 0 THEN s
                                 ELSE IF t = s THEN Null ELSE next[t]
  BY <1>0, <1>2, <1>3 DEF Push, ListType
<1>6. \A i \in 1 .. n + 1 : next'[fifo'[i]] = IF i = n + 1 THEN Null ELSE fifo'[i + 1]
  <2> SUFFICES ASSUME NEW i \in 1 .. n + 1
               PROVE  next'[fifo'[i]] = IF i = n + 1 THEN Null ELSE fifo'[i + 1]
    OBVIOUS
  <2>1. CASE i = n + 1
    <3>1. n > 0 => tail # s
      BY <1>2, <1>3, <1>0
    <3> QED BY <2>1, <3>1, <1>1, <1>5
  <2>2. CASE i = n
    BY <2>2, <1>0, <1>1, <1>2, <1>3, <1>5
  <2>3. CASE i < n
    <3>1. i \in 1 .. n /\ i + 1 \in 1 .. n
      BY <2>3, <1>0
    <3>2. fifo[i] # tail
      BY <3>1, <2>3, <1>0, <1>3 DEF Once
    <3>3. next[fifo[i]] = fifo[i + 1]
      BY <3>1, <2>3 DEF Linked
    <3>4. next'[fifo[i]] = next[fifo[i]]
      BY <3>1, <3>2, <1>2, <1>5
    <3> QED BY <3>1, <3>3, <3>4, <2>3, <1>1, <1>0
  <2> QED BY <2>1, <2>2, <2>3, <1>0
<1>7. \A t \in Slot : (\A i \in 1 .. n + 1 : fifo'[i] # t) => next'[t] = Null
  <2> SUFFICES ASSUME NEW t \in Slot, \A i \in 1 .. n + 1 : fifo'[i] # t
               PROVE  next'[t] = Null
    OBVIOUS
  <2>1. \A i \in 1 .. n : fifo[i] # t
    BY <1>1, <1>0
  <2>2. t # s
    BY <1>1, <1>0
  <2>3. n > 0 => t # tail
    BY <2>1, <1>3, <1>0
  <2> QED BY <2>1, <2>2, <2>3, <1>5 DEF Linked
<1>8. fifo' # <<>> /\ head' = fifo'[1] /\ tail' = fifo'[n + 1]
  <2>1. CASE n = 0
    BY <2>1, <1>0, <1>1, <1>3 DEF Push
  <2>2. CASE n > 0
    BY <2>2, <1>0, <1>1, <1>3 DEF Push
  <2> QED BY <2>1, <2>2, <1>0
<1>9. Linked'
  BY <1>1, <1>6, <1>7, <1>8 DEF Linked
<1>10. Once'
  <2> SUFFICES ASSUME NEW i \in 1 .. n + 1, NEW j \in 1 .. n + 1, fifo'[i] = fifo'[j]
               PROVE  i = j
    BY <1>1 DEF Once
  <2> QED BY <1>0, <1>1, <1>2 DEF Once
<1>11. \A t \in Slot : In(t)' <=> In(t) \/ t = s
  <2> SUFFICES ASSUME NEW t \in Slot
               PROVE  (\E i \in 1 .. n + 1 : fifo'[i] = t) <=> In(t) \/ t = s
    BY <1>1 DEF In
  <2> QED BY <1>0, <1>1 DEF In
<1> QED BY <1>4, <1>9, <1>10, <1>11

\* tpa_sched_pop takes the first node of the list and leaves the rest.
LEMMA UnlinkOK ==
  ASSUME ListType, Linked, Once, head # Null, Unlink
  PROVE  /\ ListType' /\ Linked' /\ Once'
         /\ head \in Slot /\ In(head)
         /\ \A t \in Slot : In(t)' <=> In(t) /\ t # head
<1> DEFINE n == Len(fifo)
<1>0. n \in Nat /\ fifo \in Seq(Slot) /\ Null \notin Slot
  BY NullNoSlot DEF ListType
<1>1. fifo # <<>> /\ n > 0 /\ head = fifo[1] /\ tail = fifo[n]
  BY <1>0 DEF Linked
<1>2. /\ fifo' \in Seq(Slot) /\ Len(fifo') = n - 1
      /\ \A i \in 1 .. n - 1 : fifo'[i] = fifo[i + 1]
  BY <1>0, <1>1 DEF Unlink
<1>3. \A i \in 1 .. n : fifo[i] \in Slot
  BY <1>0
<1>4. head \in Slot /\ In(head)
  BY <1>0, <1>1, <1>3 DEF In
<1>5. next[head] = IF n = 1 THEN Null ELSE fifo[2]
  <2>1. 1 \in 1 .. n
    BY <1>0, <1>1
  <2>2. next[fifo[1]] = IF 1 = n THEN Null ELSE fifo[1 + 1]
    BY <2>1 DEF Linked
  <2> QED BY <2>2, <1>1
<1>6. ListType'
  BY <1>0, <1>2, <1>4 DEF ListType, Unlink
<1>7. \A t \in Slot : next'[t] = IF t = head THEN Null ELSE next[t]
  BY <1>4 DEF ListType, Unlink
<1>8. \A i \in 1 .. n - 1 : next'[fifo'[i]] = IF i = n - 1 THEN Null ELSE fifo'[i + 1]
  <2> SUFFICES ASSUME NEW i \in 1 .. n - 1
               PROVE  next'[fifo'[i]] = IF i = n - 1 THEN Null ELSE fifo'[i + 1]
    OBVIOUS
  <2>1. i + 1 \in 1 .. n /\ 1 \in 1 .. n /\ i + 1 # 1
    BY <1>0
  <2>2. fifo[i + 1] # head /\ fifo[i + 1] \in Slot
    BY <2>1, <1>1, <1>3 DEF Once
  <2>3. next[fifo[i + 1]] = IF i + 1 = n THEN Null ELSE fifo[i + 2]
    <3>1. next[fifo[i + 1]] = IF i + 1 = n THEN Null ELSE fifo[(i + 1) + 1]
      BY <2>1 DEF Linked
    <3> QED BY <3>1, <1>0
  <2>4. next'[fifo'[i]] = next[fifo[i + 1]]
    BY <2>2, <1>2, <1>7
  <2>5. i # n - 1 => fifo'[i + 1] = fifo[i + 2]
    <3>1. i # n - 1 => i + 1 \in 1 .. n - 1
      BY <1>0
    <3>2. i # n - 1 => fifo'[i + 1] = fifo[(i + 1) + 1]
      BY <3>1, <1>2
    <3> QED BY <3>2, <1>0
  <2> QED BY <2>3, <2>4, <2>5, <1>0
<1>9. \A t \in Slot : (\A i \in 1 .. n - 1 : fifo'[i] # t) => next'[t] = Null
  <2> SUFFICES ASSUME NEW t \in Slot, \A i \in 1 .. n - 1 : fifo'[i] # t, t # head
               PROVE  next[t] = Null
    BY <1>7
  <2>1. \A j \in 1 .. n : fifo[j] # t
    <3> SUFFICES ASSUME NEW j \in 1 .. n, j # 1 PROVE fifo[j] # t
      BY <1>1
    <3>1. j - 1 \in 1 .. n - 1 /\ (j - 1) + 1 = j
      BY <1>0
    <3> QED BY <3>1, <1>2
  <2> QED BY <2>1 DEF Linked
<1>10. IF n = 1 THEN fifo' = <<>> /\ head' = Null /\ tail' = Null
       ELSE fifo' # <<>> /\ head' = fifo'[1] /\ tail' = fifo'[n - 1]
  <2>1. CASE n = 1
    BY <2>1, <1>2, <1>5 DEF Unlink
  <2>2. CASE n # 1
    <3>0. n > 1
      <4>1. n \in Nat /\ n > 0 /\ n # 1
        BY <2>2, <1>0, <1>1, Zenon
      <4> HIDE DEF n
      <4> QED BY <4>1
    <3>1. n - 1 > 0 /\ n - 1 \in 1 .. n - 1 /\ 1 \in 1 .. n - 1 /\ 2 \in 1 .. n
      BY <3>0, <1>0
    <3>2. fifo[2] \in Slot /\ fifo'[1] = fifo[2] /\ fifo'[n - 1] = fifo[n]
      <4>1. fifo'[1] = fifo[1 + 1] /\ fifo'[n - 1] = fifo[(n - 1) + 1]
        BY <3>1, <1>2
      <4> QED BY <4>1, <3>1, <1>3, <1>0
    <3>3. fifo' # <<>>
      BY <3>1, <1>2
    <3> QED BY <2>2, <3>2, <3>3, <1>0, <1>1, <1>5 DEF Unlink
  <2> QED BY <2>1, <2>2
<1>11. Linked'
  <2>1. (fifo' = <<>>) <=> n = 1
    BY <1>10
  <2> QED BY <2>1, <1>2, <1>8, <1>9, <1>10 DEF Linked
<1>12. Once'
  <2> SUFFICES ASSUME NEW i \in 1 .. n - 1, NEW j \in 1 .. n - 1, fifo'[i] = fifo'[j]
               PROVE  i = j
    BY <1>2 DEF Once
  <2>1. i + 1 \in 1 .. n /\ j + 1 \in 1 .. n /\ fifo[i + 1] = fifo[j + 1]
    BY <1>0, <1>2
  <2>2. i + 1 = j + 1
    BY <2>1 DEF Once
  <2> QED BY <2>2, <1>0
<1>13. \A t \in Slot : In(t)' <=> In(t) /\ t # head
  <2> SUFFICES ASSUME NEW t \in Slot
               PROVE  (\E i \in 1 .. n - 1 : fifo'[i] = t) <=> In(t) /\ t # head
    BY <1>2 DEF In
  <2>1. ASSUME NEW i \in 1 .. n - 1, fifo'[i] = t PROVE In(t) /\ t # head
    <3>1. i + 1 \in 1 .. n /\ i + 1 # 1 /\ 1 \in 1 .. n /\ fifo[i + 1] = t
      BY <2>1, <1>0, <1>2
    <3> QED BY <3>1, <1>1 DEF In, Once
  <2>2. ASSUME In(t), t # head PROVE \E i \in 1 .. n - 1 : fifo'[i] = t
    <3>1. PICK j \in 1 .. n : fifo[j] = t
      BY <2>2 DEF In
    <3>2. j # 1
      BY <3>1, <2>2, <1>1
    <3>3. j - 1 \in 1 .. n - 1 /\ (j - 1) + 1 = j
      BY <3>2, <1>0
    <3>4. fifo'[j - 1] = t
      BY <3>1, <3>3, <1>2
    <3> QED BY <3>3, <3>4
  <2> QED BY <2>1, <2>2
<1> QED BY <1>4, <1>6, <1>11, <1>12, <1>13

-----------------------------------------------------------------------------
LEMMA InitIInv == Init => IInv
<1> SUFFICES ASSUME Init PROVE IInv
  OBVIOUS
<1>1. fifo = <<>> /\ Len(fifo) = 0
  BY DEF Init
<1>2. TypeOK
  BY <1>1 DEF Init, TypeOK, ProcState, Phase
<1>3. Linked
  BY <1>1 DEF Init, Linked
<1>4. QueueExact
  BY <1>1 DEF Init, QueueExact, Once, Exact
<1> QED BY <1>2, <1>3, <1>4 DEF Init, IInv, WakeMeetsWait, PhaseOK

\* A process that is not ready is not linked, so that it may be pushed.
LEMMA ScheduleOK ==
  ASSUME IInv, NEW s \in Slot, st[s] # "ready", Schedule(s)
  PROVE  /\ ListType' /\ Linked' /\ QueueExact'
         /\ st' \in [Slot -> ProcState] /\ st'[s] = "ready"
         /\ \A t \in Slot : t # s => st'[t] = st[t]
<1>1. ListType /\ Linked /\ Once /\ ~In(s) /\ Push(s)
  BY DEF IInv, TypeOK, ListType, QueueExact, Exact, In, Schedule
<1>2. ListType' /\ Linked' /\ Once' /\ \A t \in Slot : In(t)' <=> In(t) \/ t = s
  BY <1>1, PushOK
<1>3. /\ st' \in [Slot -> ProcState] /\ st'[s] = "ready"
      /\ \A t \in Slot : t # s => st'[t] = st[t]
  BY DEF IInv, TypeOK, Schedule, ProcState
<1>4. Exact'
  BY <1>2, <1>3 DEF Exact, In, IInv, QueueExact
<1> QED BY <1>2, <1>3, <1>4 DEF QueueExact

\* Steps that leave the list alone and make no process ready or unready.
LEMMA QueueKept ==
  ASSUME IInv, UNCHANGED listVars, \A t \in Slot : st'[t] = "ready" <=> st[t] = "ready"
  PROVE  ListType' /\ Linked' /\ QueueExact'
  BY DEF IInv, TypeOK, ListType, listVars, Linked, QueueExact, Once, Exact

LEMMA NextIInv == IInv /\ [Next]_vars => IInv'
<1> SUFFICES ASSUME IInv, [Next]_vars PROVE IInv'
  OBVIOUS
<1> USE NullNoSlot
<1> DEFINE Rest == /\ st \in [Slot -> ProcState] /\ seen \subseteq Slot
                   /\ bits \subseteq Slot /\ phase \in Phase /\ pending \subseteq Slot
                   /\ cur \in Slot \cup {Null}
<1>0. ASSUME ListType', Linked', QueueExact', Rest', WakeMeetsWait', PhaseOK'
      PROVE  IInv'
  BY <1>0 DEF IInv, TypeOK, ListType
<1>1. ASSUME NEW s \in Slot, Boot(s) PROVE IInv'
  <2>1. ListType' /\ Linked' /\ QueueExact' /\ st' \in [Slot -> ProcState]
        /\ st'[s] = "ready" /\ \A t \in Slot : t # s => st'[t] = st[t]
    BY <1>1, ScheduleOK DEF Boot
  <2>2. Rest'
    BY <1>1, <2>1 DEF Boot, IInv, TypeOK
  <2>3. WakeMeetsWait' /\ PhaseOK'
    BY <1>1, <2>1 DEF Boot, IInv, TypeOK, WakeMeetsWait, PhaseOK
  <2> QED BY <2>1, <2>2, <2>3, <1>0
<1>2. ASSUME NEW s \in Slot, Drain(s) PROVE IInv'
  <2>1. st[s] = "wait" /\ Schedule(s)
    BY <1>2 DEF Drain, IInv, WakeMeetsWait
  <2>2. ListType' /\ Linked' /\ QueueExact' /\ st' \in [Slot -> ProcState]
        /\ st'[s] = "ready" /\ \A t \in Slot : t # s => st'[t] = st[t]
    BY <2>1, ScheduleOK
  <2>3. Rest'
    BY <1>2, <2>2 DEF Drain, IInv, TypeOK
  <2>4. WakeMeetsWait' /\ PhaseOK'
    BY <1>2, <2>1, <2>2 DEF Drain, IInv, TypeOK, WakeMeetsWait, PhaseOK
  <2> QED BY <2>2, <2>3, <2>4, <1>0
<1>3. CASE BootDone \/ Reload \/ DrainDone \/ PopNone
  <2>1. UNCHANGED <<listVars, st, seen, cur>>
    BY <1>3 DEF BootDone, Reload, DrainDone, PopNone
  <2>2. ListType' /\ Linked' /\ QueueExact'
    BY <2>1, QueueKept
  <2>3. Rest'
    BY <1>3, <2>1 DEF BootDone, Reload, DrainDone, PopNone, IInv, TypeOK, Phase
  <2>4. phase # "step" /\ (Reload => pending = {})
    BY <1>3 DEF BootDone, Reload, DrainDone, PopNone, IInv, PhaseOK
  <2>5. phase' # "step" /\ (pending' # {} => phase' = "drain")
    BY <1>3, <2>4 DEF BootDone, Reload, DrainDone, PopNone, IInv, PhaseOK
  <2>6. PhaseOK'
    BY <2>1, <2>4, <2>5 DEF IInv, PhaseOK
  <2>7. \A s \in Slot : st[s] \notin {"run", "blocking"}
    BY <2>4 DEF IInv, PhaseOK
  <2>8. WakeMeetsWait'
    BY <1>3, <2>1, <2>4, <2>7 DEF BootDone, Reload, DrainDone, PopNone, IInv, TypeOK, WakeMeetsWait
  <2> QED BY <2>2, <2>3, <2>6, <2>8, <1>0
<1>4. CASE Pop
  <2>1. ListType /\ Linked /\ Once /\ head # Null /\ Unlink
    BY <1>4 DEF Pop, IInv, TypeOK, ListType, QueueExact
  <2>2. /\ ListType' /\ Linked' /\ Once' /\ head \in Slot /\ In(head)
        /\ \A t \in Slot : In(t)' <=> In(t) /\ t # head
    BY <2>1, UnlinkOK
  <2>3. st[head] = "ready" /\ st'[head] = "run" /\ \A t \in Slot : t # head => st'[t] = st[t]
    BY <1>4, <2>2 DEF Pop, IInv, TypeOK, QueueExact, Exact, In
  <2>4. QueueExact'
    BY <2>2, <2>3 DEF IInv, QueueExact, Exact, In
  <2>5. Rest'
    BY <1>4, <2>2 DEF Pop, IInv, TypeOK, Phase, ProcState
  <2>6. WakeMeetsWait' /\ PhaseOK'
    BY <1>4, <2>2, <2>3 DEF Pop, IInv, TypeOK, WakeMeetsWait, PhaseOK
  <2> QED BY <2>2, <2>4, <2>5, <2>6, <1>0
<1>5. CASE Yield
  <2>1. cur \in Slot /\ st[cur] = "run"
    BY <1>5 DEF Yield, IInv, PhaseOK
  <2>2. ListType' /\ Linked' /\ QueueExact' /\ st' \in [Slot -> ProcState]
        /\ st'[cur] = "ready" /\ \A t \in Slot : t # cur => st'[t] = st[t]
    BY <1>5, <2>1, ScheduleOK DEF Yield
  <2>3. Rest'
    BY <1>5, <2>2 DEF Yield, EndStep, IInv, TypeOK, Phase
  <2>4. WakeMeetsWait' /\ PhaseOK'
    BY <1>5, <2>1, <2>2 DEF Yield, EndStep, IInv, TypeOK, WakeMeetsWait, PhaseOK
  <2> QED BY <2>2, <2>3, <2>4, <1>0
<1>6. CASE Announce \/ Block \/ Stop
  <2>1. cur \in Slot /\ st[cur] \in {"run", "blocking"} /\ pending = {} /\ phase = "step"
    BY <1>6 DEF Announce, Block, Stop, IInv, PhaseOK
  <2>2. /\ st' \in [Slot -> ProcState] /\ st'[cur] \in {"blocking", "wait", "dead"}
        /\ \A t \in Slot : t # cur => st'[t] = st[t]
    BY <1>6, <2>1 DEF Announce, Block, Stop, IInv, TypeOK, ProcState
  <2>3. ListType' /\ Linked' /\ QueueExact'
    BY <1>6, <2>1, <2>2, QueueKept DEF Announce, Block, Stop
  <2>4. Rest'
    BY <1>6, <2>1, <2>2 DEF Announce, Block, Stop, EndStep, IInv, TypeOK, Phase
  <2>5. CASE Announce
    <3>1. WakeMeetsWait' /\ PhaseOK'
      BY <2>5, <2>1, <2>2 DEF Announce, IInv, TypeOK, WakeMeetsWait, PhaseOK
    <3> QED BY <3>1, <2>3, <2>4, <1>0
  <2>6. CASE Block \/ Stop
    <3>1. WakeMeetsWait' /\ PhaseOK'
      BY <2>6, <2>1, <2>2 DEF Block, Stop, EndStep, IInv, TypeOK, WakeMeetsWait, PhaseOK
    <3> QED BY <3>1, <2>3, <2>4, <1>0
  <2> QED BY <1>6, <2>5, <2>6
<1>7. ASSUME NEW s \in Slot, Wake(s) PROVE IInv'
  <2>1. ListType' /\ Linked' /\ QueueExact'
    BY <1>7, QueueKept DEF Wake
  <2>2. Rest' /\ WakeMeetsWait' /\ PhaseOK'
    BY <1>7 DEF Wake, listVars, IInv, TypeOK, WakeMeetsWait, PhaseOK
  <2> QED BY <2>1, <2>2, <1>0
<1>8. CASE UNCHANGED vars
  <2>1. ListType' /\ Linked' /\ QueueExact'
    BY <1>8, QueueKept DEF vars, listVars
  <2>2. Rest' /\ WakeMeetsWait' /\ PhaseOK'
    BY <1>8 DEF vars, IInv, TypeOK, WakeMeetsWait, PhaseOK
  <2> QED BY <2>1, <2>2, <1>0
<1> QED BY <1>1, <1>2, <1>3, <1>4, <1>5, <1>6, <1>7, <1>8 DEF Next, Hart

-----------------------------------------------------------------------------
\* The invariant of the run queue holds throughout every behaviour, whatever
\* the set of processes.
THEOREM Inductive == Spec => []IInv
<1>1. Init => IInv
  BY InitIInv
<1>2. IInv /\ [Next]_vars => IInv'
  BY NextIInv
<1> QED BY <1>1, <1>2, PTL DEF Spec

\* Pushes and pops of tpa/lib/src/scheduler.c never corrupt the list: it holds
\* what was pushed and not popped, in order.
THEOREM LinkedHolds == Spec => []Linked
<1>1. IInv => Linked
  BY DEF IInv
<1> QED BY <1>1, Inductive, PTL

\* A process is linked exactly while it is ready, and once.
THEOREM QueueExactHolds == Spec => []QueueExact
<1>1. IInv => QueueExact
  BY DEF IInv
<1> QED BY <1>1, Inductive, PTL

\* A ready bit is taken only for a process that has blocked, even when the
\* wake was sent while it was still running.
THEOREM WakeMeetsWaitHolds == Spec => []WakeMeetsWait
<1>1. IInv => WakeMeetsWait
  BY DEF IInv
<1> QED BY <1>1, Inductive, PTL

\* A push leaves everyone in place.
LEMMA PushInTurn == ASSUME TypeOK, NEW s \in Slot, Push(s) PROVE InTurn
<1>1. fifo \in Seq(Slot) /\ fifo' = Append(fifo, s)
  BY DEF TypeOK, Push
<1>2. Len(fifo) \in Nat /\ Len(fifo') = Len(fifo) + 1
      /\ \A i \in 1 .. Len(fifo) : fifo'[i] = fifo[i]
  BY <1>1
<1>3. QED
  BY <1>2 DEF InTurn

\* A pop brings everyone one nearer to the head, and the head to run.
LEMMA PopInTurn == ASSUME IInv, Pop PROVE InTurn
<1>1. fifo \in Seq(Slot) /\ head # Null /\ fifo' = Tail(fifo) /\ st' = [st EXCEPT ![head] = "run"]
  BY DEF IInv, TypeOK, Pop, Unlink
<1>2. fifo # <<>> /\ head = fifo[1]
  BY <1>1 DEF IInv, Linked
<1>3. /\ Len(fifo) \in Nat \ {0} /\ Len(fifo') = Len(fifo) - 1 /\ fifo[1] \in Slot
      /\ \A i \in 1 .. Len(fifo) - 1 : fifo'[i] = fifo[i + 1]
  BY <1>1, <1>2
<1>4. st'[fifo[1]] = "run"
  BY <1>1, <1>2, <1>3 DEF IInv, TypeOK
<1>5. ASSUME NEW i \in 1 .. Len(fifo), i # 1 PROVE i - 1 <= Len(fifo') /\ fifo'[i - 1] = fifo[i]
  <2>1. i - 1 \in 1 .. Len(fifo) - 1 /\ (i - 1) + 1 = i
    BY <1>3, <1>5
  <2>2. QED
    BY <1>3, <2>1
<1>6. QED
  BY <1>3, <1>4, <1>5 DEF InTurn

\* A ready process waits for those in front of it only, once for each: what
\* is left to fairness is that the hart goes on.
THEOREM NeverOvertakenHolds == Spec => NeverOvertaken
<1>1. IInv /\ [Next]_vars => [InTurn]_vars
  <2> SUFFICES ASSUME IInv, Next PROVE InTurn
    BY DEF IInv
  <2>1. TypeOK
    BY DEF IInv
  <2>2. ASSUME NEW s \in Slot, Boot(s) PROVE InTurn
    BY <2>1, <2>2, PushInTurn DEF Boot, Schedule
  <2>3. CASE fifo' = fifo
    <3>1. Len(fifo) \in Nat
      BY <2>1 DEF TypeOK
    <3>2. QED
      BY <2>3, <3>1 DEF InTurn
  <2>4. ASSUME NEW s \in Slot, Drain(s) PROVE InTurn
    BY <2>1, <2>3, <2>4, PushInTurn DEF Drain, Schedule, listVars
  <2>5. CASE Pop
    BY <2>5, PopInTurn
  <2>6. CASE Yield
    <3>1. cur \in Slot
      BY <2>6 DEF Yield, IInv, PhaseOK
    <3>2. QED
      BY <2>1, <2>6, <3>1, PushInTurn DEF Yield, Schedule
  <2>7. CASE BootDone \/ Reload \/ DrainDone \/ PopNone \/ Announce \/ Block \/ Stop
    BY <2>3, <2>7 DEF BootDone, Reload, DrainDone, PopNone, Announce, Block, Stop, listVars
  <2>8. ASSUME NEW s \in Slot, Wake(s) PROVE InTurn
    BY <2>3, <2>8 DEF Wake, listVars
  <2>9. QED
    BY <2>2, <2>4, <2>5, <2>6, <2>7, <2>8 DEF Next, Hart
<1>2. QED
  BY <1>1, Inductive, PTL DEF Spec, NeverOvertaken
=============================================================================
