---------------------------- MODULE JobQueueProofs ----------------------------
(***************************************************************************)
(* Proofs about JobQueue for any agents and any jobs, under Quiet.         *)
(***************************************************************************)
EXTENDS JobQueue, FiniteSetTheorems, TLAPS

\* The operation a script is at, and what it leaves.
LEMMA Heads ==
  /\ Head(ToLock) = "mkdir" /\ Head(ToName) = "agent.id" /\ Head(ToClaim) = "claimed"
  /\ Head(<<"running">>) = "running" /\ Head(<<"rmdir", "done">>) = "rmdir"
  /\ Head(<<"rmdir", "failed">>) = "rmdir" /\ Head(ReleaseOps) = "rmdir"
  /\ Head(<<"unlock", "rm", "pending">>) = "unlock" /\ Head(<<"unlock", "pending">>) = "unlock"
  /\ Head(<<"done">>) = "done" /\ Head(<<"failed">>) = "failed"
  /\ Head(<<"rm", "pending">>) = "rm" /\ Head(ToOffer) = "pending"
  BY DEF ToLock, ToName, ToClaim, ReleaseOps, ToOffer

LEMMA Tails ==
  /\ Tail(ToLock) = ToName /\ Tail(ToName) = ToClaim
  /\ Tail(<<"rmdir", "done">>) = <<"done">> /\ Tail(<<"rmdir", "failed">>) = <<"failed">>
  /\ Tail(ReleaseOps) = <<"rm", "pending">>
  /\ Tail(<<"unlock", "rm", "pending">>) = <<"rm", "pending">>
  /\ Tail(<<"unlock", "pending">>) = ToOffer
  /\ Tail(<<"rm", "pending">>) = ToOffer
  BY DEF ToLock, ToName, ToClaim, ReleaseOps, ToOffer

LEMMA Lens ==
  /\ Len(ToLock) = 3 /\ Len(ToName) = 2 /\ Len(ToClaim) = 1 /\ Len(ReleaseOps) = 3
  /\ \A s \in Owning \cup Resetting : Len(s) = 1 <=> s = <<"running">>
  /\ Len(ToOffer) = 1 /\ \A s \in Unlocked : Len(s) = 1 <=> s # <<"rm", "pending">>
  BY DEF ToLock, ToName, ToClaim, ReleaseOps, ToOffer, Owning, Resetting, Unlocked

LEMMA Types ==
  /\ ToLock \in Seq(FileOp) /\ ToOffer \in Seq(FileOp) /\ ReleaseOps \in Seq(FileOp)
  /\ <<"running">> \in Seq(FileOp) /\ <<"rmdir", "done">> \in Seq(FileOp)
  /\ <<"rmdir", "failed">> \in Seq(FileOp) /\ <<"unlock", "pending">> \in Seq(FileOp)
  /\ <<"unlock", "rm", "pending">> \in Seq(FileOp)
  BY DEF ToLock, ReleaseOps, ToOffer, FileOp

\* No form of a script is that of one which has ended.
LEMMA Forms == <<>> \notin {ToLock, ToName, ToClaim, ToOffer} \cup Owning \cup Resetting \cup Unlocked
<1>1. \A s \in {ToLock, ToName, ToClaim, ToOffer} : Len(s) # 0
  BY Lens
<1>2. \A s \in Owning \cup Resetting \cup Unlocked : Len(s) # 0
  BY DEF ReleaseOps, Owning, Resetting, Unlocked
<1>3. QED
  BY <1>1, <1>2

LEMMA InitIInv == Init => IInv
<1> SUFFICES ASSUME Init PROVE IInv
  OBVIOUS
<1>1. TypeOK
  BY DEF Init, TypeOK, Ended, Script, Active
<1>2. Busy = {}
  BY DEF Init, Busy, Actors, Live, Idle, Ended, Script
<1>3. Undisturbed /\ NewUnlocked /\ NoSecond /\ Claimable
  BY <1>2 DEF Init, Undisturbed, NewUnlocked, NoSecond, Claimable, Active
<1>4. ClaimsOne
  BY DEF Init, ClaimsOne, OwnsActive, Active
<1>5. QED
  BY <1>1, <1>3, <1>4 DEF IInv

-----------------------------------------------------------------------------
(* What a script that can go on finds.                                     *)

\* A busy agent or operator is at a job that fits what it has still to do.
LEMMA BusyFits ==
  ASSUME IInv, NEW x \in Actors, ~Idle(x)
  PROVE  /\ x \in Busy /\ x \notin dead /\ todo[x].job \in Jobs
         /\ FitsJob(x, todo[x].ops, todo[x].job)
  BY OperatorAssumption DEF IInv, TypeOK, Busy, Actors, Live, Undisturbed

\* An operation other than mkdir finds nobody else at its job: whoever waits
\* for the lock there has just looked, and is not overtaken.
LEMMA NobodyElse ==
  ASSUME IInv, Quiet, NEW x \in Actors, ~Idle(x), todo[x].ops # ToLock,
         ~Overtakes(x, todo[x].job)
  PROVE  \A y \in Busy \ {x} : todo[y].job # todo[x].job
<1> SUFFICES ASSUME NEW y \in Busy, y # x, todo[y].job = todo[x].job
             PROVE  FALSE
  OBVIOUS
<1>1. todo[y].ops = ToLock
  BY BusyFits DEF IInv, Undisturbed
<1>2. y # Operator
  <2>1. FitsJob(y, todo[y].ops, todo[y].job)
    BY DEF IInv, Undisturbed
  <2>2. ToLock \notin {ToName, ToClaim, ToOffer} \cup Owning \cup Resetting \cup Unlocked
    BY Lens, Heads DEF Owning, Resetting, Unlocked
  <2>3. QED
    BY <1>1, <2>1, <2>2 DEF FitsJob
<1>3. y \in Live \ {x} /\ Does(y, "mkdir")
  BY <1>1, <1>2, Heads DEF Busy, Actors, Live, Does
<1>4. QED
  BY <1>3 DEF Overtakes

\* A step of one that concerns one job: the others stay undisturbed if those
\* at that job do and the one that moves fits what it has come to.
LEMMA Moves ==
  ASSUME IInv, NEW x \in Actors, NEW j \in Jobs, NEW t,
         t = Ended \/ (t.job = j /\ FitsJob(x, t.ops, j)'),
         \A y \in Busy \ {x} : todo[y].job = j =>
            /\ FitsJob(y, todo[y].ops, j)'
            /\ t = Ended \/ ToLock \in {t.ops, todo[y].ops},
         \A k \in Jobs \ {j} : status'[k] = status[k] /\ lock'[k] = lock[k] /\ owner'[k] = owner[k],
         todo' = [todo EXCEPT ![x] = t], dead' = dead
  PROVE  Undisturbed'
<1> USE DEF IInv, TypeOK
<1>1. Actors' = Actors /\ x \in Agents \cup {Operator} /\ Actors \subseteq Agents \cup {Operator}
  BY DEF Actors, Live
<1>2. \A y \in Actors \ {x} : todo'[y] = todo[y]
  BY <1>1
<1>3. todo'[x] = t
  BY <1>1
<1>4. \A y \in Busy' : y # x => y \in Busy
  BY <1>1, <1>2 DEF Busy, Idle
<1>5. x \in Busy' => t # Ended
  <2>1. Ended.ops = <<>>
    BY DEF Ended, Script
  <2>2. x \in Busy' => ~Idle(x)'
    BY DEF Busy
  <2>3. QED
    BY <1>3, <2>1, <2>2 DEF Idle
<1>6. ASSUME NEW y \in Busy'
      PROVE  todo'[y].job \in Jobs /\ FitsJob(y, todo[y].ops, todo[y].job)'
  <2>1. CASE y = x
    BY <1>3, <1>5, <1>6, <2>1
  <2>2. CASE y # x /\ todo[y].job = j
    BY <1>1, <1>2, <1>4, <1>6, <2>2 DEF Busy
  <2>3. CASE y # x /\ todo[y].job # j
    <3>1. y \in Busy /\ todo'[y] = todo[y]
      BY <1>1, <1>2, <1>4, <1>6, <2>3 DEF Busy
    <3>2. todo[y].job \in Jobs /\ FitsJob(y, todo[y].ops, todo[y].job)
      BY <3>1 DEF Undisturbed
    <3>3. QED
      BY <2>3, <3>1, <3>2 DEF FitsJob
  <2>4. QED
    BY <2>1, <2>2, <2>3
<1>7. ASSUME NEW y \in Busy', NEW z \in Busy', y # z, todo'[y].job = todo'[z].job
      PROVE  ToLock \in {todo'[y].ops, todo'[z].ops}
  <2>1. CASE y = x
    BY <1>1, <1>2, <1>3, <1>4, <1>5, <1>7, <2>1 DEF Busy
  <2>2. CASE z = x
    BY <1>1, <1>2, <1>3, <1>4, <1>5, <1>7, <2>2 DEF Busy
  <2>3. CASE y # x /\ z # x
    BY <1>1, <1>2, <1>4, <1>7, <2>3 DEF Busy, Undisturbed
  <2>4. QED
    BY <2>1, <2>2, <2>3
<1>8. QED
  BY <1>6, <1>7 DEF Undisturbed

\* A claim that has the lock keeps its place while others move.
LEMMA HeldKept ==
  ASSUME IInv, NEW x \in Actors, todo[x].ops \notin {ToName, ToClaim}, NEW t,
         todo' = [todo EXCEPT ![x] = t], NEW j \in Jobs, Held(j)
  PROVE  Held(j)'
<1>1. PICK a \in Agents : todo[a].job = j /\ todo[a].ops \in {ToName, ToClaim}
  BY DEF Held
<1>2. todo'[a] = todo[a]
  BY <1>1 DEF IInv, TypeOK
<1>3. QED
  BY <1>1, <1>2 DEF Held

-----------------------------------------------------------------------------
(* Scripts begin.                                                          *)

\* A script that begins where it fits, and where nobody else is unless it only
\* tries for the lock, keeps the invariant.
LEMMA Begins ==
  ASSUME IInv, NEW x \in Actors, Idle(x), NEW j \in Jobs,
         NEW ops \in {ToLock} \cup Owning \cup Resetting,
         FitsJob(x, ops, j), ops = ToLock => x \in Live /\ ~OwnsActive(x),
         \A y \in Busy \ {x} : todo[y].job = j => ops = ToLock,
         Run(x, j, ops), UNCHANGED <<status, lock, owner, dead>>
  PROVE  IInv'
<1> DEFINE t == Script(j, ops)
<1>1. todo' = [todo EXCEPT ![x] = t] /\ t.job = j /\ t.ops = ops
  BY DEF Run, Script
<1>2. /\ x \in Agents \cup {Operator} /\ todo'[x].ops = ops
      /\ todo \in [Agents \cup {Operator} -> [job : Jobs \cup {"none"}, ops : Seq(FileOp)]]
  BY <1>1 DEF IInv, TypeOK, Actors, Live
<1>3. Undisturbed'
  <2>1. FitsJob(x, ops, j)'
    BY DEF FitsJob
  <2>2. ASSUME NEW y \in Busy \ {x}, todo[y].job = j
        PROVE  FitsJob(y, todo[y].ops, j)' /\ ToLock \in {ops, todo[y].ops}
    <3>1. FitsJob(y, todo[y].ops, j) /\ ops = ToLock
      BY <2>2 DEF IInv, Undisturbed
    <3>2. todo'[y] = todo[y]
      BY <1>1, <1>2, <2>2 DEF Busy, Actors, Live
    <3>3. QED
      BY <3>1, <3>2 DEF FitsJob
  <2> HIDE DEF t
  <2>3. QED
    BY <1>1, <2>1, <2>2, Moves
<1>4. TypeOK'
  <2>1. ops \in Seq(FileOp)
    BY Types DEF Owning, Resetting
  <2>2. QED
    BY <1>1, <1>2, <2>1 DEF IInv, TypeOK, Script
<1>5. ClaimsOne'
  <2>1. ASSUME NEW a \in Live, todo'[a].ops \in Claiming
        PROVE  ~OwnsActive(a)
    <3>1. CASE a = x
      <4>1. Claiming \cap (Owning \cup Resetting) = {}
        BY Lens, Heads DEF Claiming, Owning, Resetting
      <4>2. ops = ToLock
        BY <1>2, <2>1, <3>1, <4>1
      <4>3. QED
        BY <3>1, <4>2
    <3>2. CASE a # x
      BY <1>1, <1>2, <2>1, <3>2 DEF IInv, ClaimsOne, Live
    <3>3. QED
      BY <3>1, <3>2
  <2>2. QED
    BY <2>1 DEF ClaimsOne, OwnsActive, Live
<1>6. NewUnlocked' /\ NoSecond'
  BY DEF IInv, NewUnlocked, NoSecond
<1>7. Claimable'
  <2>1. todo[x].ops \notin {ToName, ToClaim}
    BY Forms DEF Idle
  <2>2. QED
    BY <1>1, <2>1, HeldKept DEF IInv, Claimable
<1>8. QED
  BY <1>3, <1>4, <1>5, <1>6, <1>7 DEF IInv

LEMMA AgentStartsStep ==
  ASSUME IInv, Quiet, NEW a \in Agents, NEW j \in Jobs, AgentStarts(a, j)
  PROVE  IInv'
<1>1. MayAct(a) /\ a \in Live /\ a \in Actors /\ Idle(a)
  BY DEF AgentStarts, Claim, Start, Finish, Fail, Release, Begin, Owned, MayAct, Live, Actors
<1>2. todo[Operator].job # j /\ a # Operator
  BY OperatorAssumption DEF AgentStarts
<1>3. CASE Claim(a, j)
  BY <1>1, <1>2, <1>3, Begins DEF Claim, MayClaim, FitsJob, ToLock
<1>4. CASE Start(a, j) \/ Finish(a, j) \/ Fail(a, j) \/ Release(a, j)
  <2>1. PICK ops \in Owning : Run(a, j, ops) /\ UNCHANGED <<status, lock, owner, dead>>
    BY <1>4 DEF Start, Finish, Fail, Release, Begin, Owning
  <2>2. status[j] \in Active /\ lock[j] /\ owner[j] = a
    BY <1>4 DEF Start, Finish, Fail, Release, Begin, Owned, Active
  <2>3. ASSUME NEW y \in Busy \ {a}, todo[y].job = j
        PROVE  FALSE
    <3>1. FitsJob(y, todo[y].ops, j) /\ y # Operator
      BY <1>2, <2>3 DEF IInv, Undisturbed
    <3>2. QED
      BY <2>2, <2>3, <3>1 DEF FitsJob, Active
  <2>4. FitsJob(a, ops, j)
    BY <1>2, <2>2 DEF FitsJob
  <2>5. ops # ToLock
    BY Lens, Heads DEF Owning
  <2>6. QED
    BY <1>1, <2>1, <2>3, <2>4, <2>5, Begins
<1>5. QED
  BY <1>3, <1>4 DEF AgentStarts

LEMMA TakeStep ==
  ASSUME IInv, Quiet, NEW j \in Jobs, ResetOrphan(j) \/ ResetCorrupt(j) \/ Reap(j)
  PROVE  IInv'
<1>1. PICK ops \in Resetting : Take(j, ops)
  BY DEF ResetOrphan, ResetCorrupt, Reap, Resetting
<1>2. Operator \in Actors /\ Idle(Operator) /\ FitsJob(Operator, ops, j)
  BY <1>1 DEF Take, MayAct, Actors, FitsJob
<1>3. \A y \in Busy \ {Operator} : todo[y].job # j
  BY <1>1 DEF Take, Alone, Busy, Actors
<1>4. ops # ToLock
  BY Lens, Heads DEF Resetting
<1>5. QED
  BY <1>1, <1>2, <1>3, <1>4, Begins DEF Take

LEMMA CreateStep ==
  ASSUME IInv, NEW j \in Jobs, Create(j)
  PROVE  IInv'
<1> DEFINE t == Script(j, ToOffer)
<1>1. /\ Operator \in Actors /\ Idle(Operator) /\ status[j] = "none"
      /\ status' = [status EXCEPT ![j] = ""]
      /\ todo' = [todo EXCEPT ![Operator] = t] /\ UNCHANGED <<lock, owner, dead>>
  BY DEF Create, MayAct, Actors, Run, ToOffer
<1>2. t.job = j /\ t.ops = ToOffer
  BY DEF Script
<1>3. status \in [Jobs -> {"none", "", "pending", "done", "failed"} \cup Active]
  BY DEF IInv, TypeOK
<1>4. ~lock[j]
  BY <1>1 DEF IInv, NewUnlocked
<1>5. Undisturbed'
  <2>1. \A y \in Busy \ {Operator} : todo[y].job # j
    BY <1>1 DEF IInv, Undisturbed, FitsJob, Active
  <2>2. FitsJob(Operator, ToOffer, j)'
    BY <1>1, <1>3, <1>4 DEF FitsJob
  <2>3. \A k \in Jobs \ {j} : status'[k] = status[k] /\ lock'[k] = lock[k] /\ owner'[k] = owner[k]
    BY <1>1, <1>3
  <2> HIDE DEF t
  <2>4. QED
    BY <1>1, <1>2, <2>1, <2>2, <2>3, Moves
<1>6. TypeOK'
  BY <1>1, <1>3, Types DEF IInv, TypeOK, Script
<1>7. ClaimsOne'
  <2>1. \A a \in Live : todo'[a] = todo[a]
    BY <1>1, OperatorAssumption DEF IInv, TypeOK, Live
  <2>2. \A a \in Live : ~OwnsActive(a) => ~OwnsActive(a)'
    BY <1>1, <1>3 DEF OwnsActive, Active
  <2>3. QED
    BY <1>1, <2>1, <2>2 DEF IInv, ClaimsOne, Live
<1>8. NewUnlocked' /\ NoSecond'
  BY <1>1, <1>3, <1>4 DEF IInv, NewUnlocked, NoSecond, Active
<1>9. Claimable'
  <2>1. todo[Operator].ops \notin {ToName, ToClaim}
    BY <1>1, Forms DEF Idle
  <2>2. \A k \in Jobs : status'[k] = "pending" => status[k] = "pending"
    BY <1>1, <1>3
  <2> HIDE DEF t
  <2>3. QED
    BY <1>1, <2>1, <2>2, HeldKept DEF IInv, Claimable
<1>10. QED
  BY <1>5, <1>6, <1>7, <1>8, <1>9 DEF IInv

-----------------------------------------------------------------------------
(* Scripts go on.                                                          *)

\* Which scripts an operation belongs to.
LEMMA AtOp ==
  ASSUME NEW x \in Actors, NEW j, FitsJob(x, todo[x].ops, j)
  PROVE  /\ Does(x, "mkdir") => todo[x].ops = ToLock
         /\ Does(x, "rmdir") => todo[x].ops \in {<<"rmdir", "done">>, <<"rmdir", "failed">>, ReleaseOps}
         /\ Does(x, "unlock") => todo[x].ops \in {<<"unlock", "rm", "pending">>, <<"unlock", "pending">>}
         /\ Does(x, "agent.id") => todo[x].ops = ToName
         /\ Does(x, "rm") => todo[x].ops = <<"rm", "pending">>
         /\ Does(x, "claimed") => todo[x].ops = ToClaim
         /\ Does(x, "running") => todo[x].ops = <<"running">>
         /\ Does(x, "done") => todo[x].ops = <<"done">>
         /\ Does(x, "failed") => todo[x].ops = <<"failed">>
         /\ Does(x, "pending") => todo[x].ops = ToOffer
<1>1. todo[x].ops \in {ToLock, ToName, ToClaim, <<"running">>, <<"rmdir", "done">>, <<"rmdir", "failed">>,
        ReleaseOps, <<"unlock", "rm", "pending">>, <<"unlock", "pending">>, <<"done">>, <<"failed">>,
        <<"rm", "pending">>, ToOffer}
  BY DEF FitsJob, Owning, Resetting, Unlocked
<1>2. \A op : Does(x, op) => Head(todo[x].ops) = op
  BY DEF Does
<1>3. QED
  BY <1>1, <1>2, Heads

\* What the steps of scripts have in common.
LEMMA StepType ==
  ASSUME IInv, NEW x \in Actors, ~Idle(x),
         todo' = [todo EXCEPT ![x] = Ended] \/ todo' = [todo EXCEPT ![x] = Left(x)]
  PROVE  todo' \in [Agents \cup {Operator} -> [job : Jobs \cup {"none"}, ops : Seq(FileOp)]]
<1>1. x \in Agents \cup {Operator}
  BY DEF IInv, TypeOK, Actors, Live
<1>2. todo[x] \in [job : Jobs \cup {"none"}, ops : Seq(FileOp)]
  BY <1>1 DEF IInv, TypeOK
<1>3. Tail(todo[x].ops) \in Seq(FileOp)
  BY <1>2 DEF Idle
<1>4. Ended \in [job : Jobs \cup {"none"}, ops : Seq(FileOp)]
  BY DEF Ended, Script
<1>5. Script(todo[x].job, Tail(todo[x].ops)) \in [job : Jobs \cup {"none"}, ops : Seq(FileOp)]
  BY <1>2, <1>3 DEF Script
<1>6. Left(x) \in [job : Jobs \cup {"none"}, ops : Seq(FileOp)]
  BY <1>4, <1>5 DEF Left
<1>7. QED
  BY <1>1, <1>4, <1>6 DEF IInv, TypeOK

\* A claim under way stays its agent's only one unless a job becomes active.
LEMMA ClaimsKept ==
  ASSUME IInv, NEW x \in Actors, NEW t, todo' = [todo EXCEPT ![x] = t], dead' = dead,
         t.ops \in Claiming => todo[x].ops \in Claiming,
         \A j \in Jobs, a \in Live : owner'[j] = a /\ status'[j] \in Active =>
            (owner[j] = a /\ status[j] \in Active) \/ (a = x /\ t.ops \notin Claiming)
  PROVE  ClaimsOne'
<1> SUFFICES ASSUME NEW a \in Live, todo'[a].ops \in Claiming, NEW j \in Jobs,
                    owner'[j] = a, status'[j] \in Active
             PROVE  FALSE
  BY DEF ClaimsOne, OwnsActive, Live, Active
<1>1. todo'[a] = IF a = x THEN t ELSE todo[a]
  BY DEF IInv, TypeOK, Live
<1>2. todo[a].ops \in Claiming /\ owner[j] = a /\ status[j] \in Active
  BY <1>1
<1>3. QED
  BY <1>2 DEF IInv, ClaimsOne, OwnsActive

LEMMA MkdirStep ==
  ASSUME IInv, Quiet, NEW x \in Actors, ~Overtakes(x, todo[x].job), MkdirLock(x)
  PROVE  IInv'
<1>0. PICK j, t : j = todo[x].job /\ t = IF lock[j] THEN Ended ELSE Left(x)
  OBVIOUS
<1>1. /\ Does(x, "mkdir") /\ ~Idle(x)
      /\ lock' = [lock EXCEPT ![j] = TRUE] /\ todo' = [todo EXCEPT ![x] = t]
      /\ UNCHANGED <<status, owner, dead>>
  BY <1>0 DEF MkdirLock, Does
<1>2. j \in Jobs /\ FitsJob(x, todo[x].ops, j) /\ todo[x].ops = ToLock /\ x \in Busy
  BY <1>0, <1>1, BusyFits, AtOp
<1>3. x # Operator /\ status[j] = "pending"
  <2>1. ToLock \notin {ToName, ToClaim, ToOffer} \cup Owning \cup Resetting \cup Unlocked
    BY Lens, Heads DEF Owning, Resetting, Unlocked
  <2>2. QED
    BY <1>2, <2>1 DEF FitsJob
<1>4. x \in Live /\ x \in Agents
  BY <1>3 DEF Actors, Live
<1>5. Left(x) = Script(j, ToName)
  <2>1. Len(todo[x].ops) # 1 /\ Tail(todo[x].ops) = ToName
    BY <1>2, Lens, Tails
  <2>2. QED
    BY <1>0, <2>1 DEF Left
<1>6. lock[j] => t.ops = <<>>
  BY <1>0 DEF Ended, Script
<1>7. ~lock[j] => t.job = j /\ t.ops = ToName
  BY <1>0, <1>5 DEF Script
<1>8. lock \in [Jobs -> BOOLEAN] /\ lock' \in [Jobs -> BOOLEAN] /\ lock'[j]
  BY <1>1, <1>2 DEF IInv, TypeOK
<1>9. t = Ended \/ (~lock[j] /\ t.job = j /\ t.ops = ToName)
  BY <1>0, <1>7
<1>10. TypeOK'
  BY <1>0, <1>1, <1>8, StepType DEF IInv, TypeOK
<1>11. Undisturbed'
  <2>1. ASSUME NEW y \in Busy \ {x}, todo[y].job = j
        PROVE  /\ FitsJob(y, todo[y].ops, j)'
               /\ t = Ended \/ ToLock \in {t.ops, todo[y].ops}
    <3>1. FitsJob(y, todo[y].ops, j) /\ todo'[y] = todo[y]
      BY <1>1, <2>1 DEF IInv, Undisturbed, TypeOK, Busy, Actors, Live
    <3>2. y # Operator /\ todo[y].ops \in {ToLock, ToName, ToClaim}
      BY <1>3, <3>1 DEF FitsJob, Active
    <3>3. todo[y].ops # ToLock => lock[j]
      BY <1>3, <3>1 DEF FitsJob, Active
    <3>4. FitsJob(y, todo[y].ops, j)'
      BY <1>1, <1>3, <1>8, <3>1, <3>2 DEF FitsJob, Active
    <3>5. QED
      BY <1>9, <3>3, <3>4
  <2>2. t # Ended => FitsJob(x, t.ops, j)'
    BY <1>1, <1>3, <1>8, <1>9 DEF FitsJob
  <2>3. \A k \in Jobs \ {j} : status'[k] = status[k] /\ lock'[k] = lock[k] /\ owner'[k] = owner[k]
    BY <1>1, <1>8
  <2>4. t = Ended \/ (t.job = j /\ FitsJob(x, t.ops, j)')
    BY <1>9, <2>2
  <2>5. QED
    BY <1>1, <1>2, <2>1, <2>3, <2>4, Moves
<1>12. ClaimsOne'
  <2>1. todo[x].ops \in Claiming
    BY <1>2 DEF Claiming
  <2>2. QED
    BY <1>1, <2>1, ClaimsKept
<1>13. NewUnlocked' /\ NoSecond'
  BY <1>1, <1>3, <1>8 DEF IInv, NewUnlocked, NoSecond
<1>14. Claimable'
  <2> SUFFICES ASSUME NEW k \in Jobs, status'[k] = "pending", lock'[k]
               PROVE  Held(k)'
    BY DEF Claimable
  <2>1. CASE lock[k]
    <3>1. Held(k)
      BY <1>1, <2>1 DEF IInv, Claimable
    <3>2. todo[x].ops \notin {ToName, ToClaim}
      BY <1>2, Lens
    <3>3. QED
      BY <1>1, <3>1, <3>2, HeldKept
  <2>2. CASE ~lock[k]
    <3>1. k = j
      BY <1>1, <1>8, <2>2
    <3>2. todo'[x] = t
      BY <1>1, <1>4 DEF IInv, TypeOK
    <3>3. QED
      BY <1>4, <1>6, <1>7, <2>2, <3>1, <3>2 DEF Held, Ended, Script
  <2>3. QED
    BY <2>1, <2>2
<1>15. QED
  BY <1>10, <1>11, <1>12, <1>13, <1>14 DEF IInv

\* Past its mkdir a script is alone at its job.
LEMMA GoesOn ==
  ASSUME IInv, Quiet, NEW x \in Actors, ~Idle(x), todo[x].ops # ToLock,
         NEW j, j = todo[x].job, ~Overtakes(x, j),
         NEW t, t = Ended \/ (t.job = j /\ FitsJob(x, t.ops, j)'),
         \A k \in Jobs \ {j} : status'[k] = status[k] /\ lock'[k] = lock[k] /\ owner'[k] = owner[k],
         todo' = [todo EXCEPT ![x] = t], dead' = dead
  PROVE  Undisturbed'
<1>1. j \in Jobs
  BY BusyFits
<1>2. \A y \in Busy \ {x} : todo[y].job # j
  BY NobodyElse
<1>3. QED
  BY <1>1, <1>2, Moves

LEMMA RmdirStep ==
  ASSUME IInv, Quiet, NEW x \in Actors, ~Overtakes(x, todo[x].job), RmdirLock(x)
  PROVE  IInv'
<1>0. PICK j, t : /\ j = todo[x].job
                  /\ t = IF Does(x, "rmdir") /\ ~lock[j] THEN Ended ELSE Left(x)
  OBVIOUS
<1>1. /\ Does(x, "rmdir") \/ Does(x, "unlock")
      /\ ~Idle(x) /\ lock' = [lock EXCEPT ![j] = FALSE] /\ todo' = [todo EXCEPT ![x] = t]
      /\ UNCHANGED <<status, owner, dead>>
  BY <1>0 DEF RmdirLock, Does
<1>2. j \in Jobs /\ FitsJob(x, todo[x].ops, j) /\ x \in Busy
  BY <1>0, <1>1, BusyFits
<1>3. todo[x].ops \in {<<"rmdir", "done">>, <<"rmdir", "failed">>, ReleaseOps,
                       <<"unlock", "rm", "pending">>, <<"unlock", "pending">>}
  BY <1>1, <1>2, AtOp
<1>4. todo[x].ops \notin Claiming \cup Unlocked \cup {ToOffer}
  BY <1>3, Lens, Heads DEF Claiming, Unlocked, ReleaseOps, ToLock, ToName
<1>5. status[j] \in Active
  BY <1>2, <1>4 DEF FitsJob, Claiming
<1>6. t = Ended \/ (t.job = j /\ t.ops \in Unlocked \cup {ToOffer})
  <2>1. Len(todo[x].ops) # 1
    BY <1>3, Lens
  <2>2. Tail(todo[x].ops) \in Unlocked \cup {ToOffer}
    BY <1>3, Tails DEF Unlocked
  <2>3. QED
    BY <1>0, <2>1, <2>2 DEF Left, Script
<1>7. lock \in [Jobs -> BOOLEAN] /\ lock' \in [Jobs -> BOOLEAN] /\ ~lock'[j]
  BY <1>1, <1>2 DEF IInv, TypeOK
<1>8. TypeOK'
  BY <1>0, <1>1, <1>7, StepType DEF IInv, TypeOK
<1>9. Undisturbed'
  <2>1. t = Ended \/ (t.job = j /\ FitsJob(x, t.ops, j)')
    BY <1>1, <1>5, <1>6, <1>7 DEF FitsJob
  <2>2. \A k \in Jobs \ {j} : status'[k] = status[k] /\ lock'[k] = lock[k] /\ owner'[k] = owner[k]
    BY <1>1, <1>7
  <2>3. todo[x].ops # ToLock
    BY <1>4 DEF Claiming
  <2>4. QED
    BY <1>0, <1>1, <2>1, <2>2, <2>3, GoesOn
<1>10. t.ops \notin Claiming
  <2>1. Claiming \cap (Unlocked \cup {ToOffer}) = {}
    BY Lens, Heads DEF Claiming, Unlocked, ToName
  <2>2. Ended.ops \notin Claiming
    BY Forms DEF Ended, Script, Claiming
  <2>3. QED
    BY <1>6, <2>1, <2>2
<1>11. ClaimsOne'
  BY <1>1, <1>10, ClaimsKept
<1>12. NewUnlocked' /\ NoSecond'
  BY <1>1, <1>7 DEF IInv, NewUnlocked, NoSecond
<1>13. Claimable'
  <2> SUFFICES ASSUME NEW k \in Jobs, status'[k] = "pending", lock'[k]
               PROVE  Held(k)'
    BY DEF Claimable
  <2>1. lock[k] /\ status[k] = "pending"
    BY <1>1, <1>7
  <2>2. Held(k)
    BY <2>1 DEF IInv, Claimable
  <2>3. QED
    BY <1>1, <1>4, <2>2, HeldKept DEF Claiming
<1>14. QED
  BY <1>8, <1>9, <1>11, <1>12, <1>13 DEF IInv

\* agent.id is written by the claim that has the lock, ...
LEMMA NameStep ==
  ASSUME IInv, Quiet, NEW x \in Actors, ~Overtakes(x, todo[x].job), WriteAgent(x), Does(x, "agent.id")
  PROVE  IInv'
<1>0. PICK j, t : j = todo[x].job /\ t = Left(x)
  OBVIOUS
<1>1. ~Does(x, "rm")
  BY DEF Does
<1>2. /\ ~Idle(x) /\ owner' = [owner EXCEPT ![j] = x] /\ todo' = [todo EXCEPT ![x] = t]
      /\ UNCHANGED <<status, lock, dead>>
  BY <1>0, <1>1 DEF WriteAgent, Does
<1>3. j \in Jobs /\ FitsJob(x, todo[x].ops, j) /\ x \in Busy
  BY <1>0, <1>2, BusyFits
<1>4. todo[x].ops = ToName
  BY <1>3, AtOp
<1>5. x # Operator /\ status[j] = "pending" /\ lock[j]
  <2>1. ToName \notin {ToLock, ToClaim, ToOffer} \cup Owning \cup Resetting \cup Unlocked
    BY Lens, Heads DEF Owning, Resetting, Unlocked
  <2>2. QED
    BY <1>3, <1>4, <2>1 DEF FitsJob
<1>6. x \in Live /\ x \in Agents
  BY <1>5 DEF Actors, Live
<1>7. t = Script(j, ToClaim)
  <2>1. Len(todo[x].ops) # 1 /\ Tail(todo[x].ops) = ToClaim
    BY <1>4, Lens, Tails
  <2>2. QED
    BY <1>0, <2>1 DEF Left
<1>8. t.job = j /\ t.ops = ToClaim
  BY <1>7 DEF Script
<1>9. /\ owner \in [Jobs -> Agents \cup {"none"}] /\ owner' \in [Jobs -> Agents \cup {"none"}]
      /\ owner'[j] = x /\ \A k \in Jobs \ {j} : owner'[k] = owner[k]
  BY <1>2, <1>3, <1>6 DEF IInv, TypeOK
<1>10. TypeOK'
  BY <1>0, <1>2, <1>9, StepType DEF IInv, TypeOK
<1>11. Undisturbed'
  <2>1. FitsJob(x, t.ops, j)'
    BY <1>2, <1>5, <1>8, <1>9 DEF FitsJob
  <2>2. \A k \in Jobs \ {j} : status'[k] = status[k] /\ lock'[k] = lock[k] /\ owner'[k] = owner[k]
    BY <1>2, <1>9
  <2>3. todo[x].ops # ToLock
    BY <1>4, Lens
  <2>4. QED
    BY <1>0, <1>2, <1>8, <2>1, <2>2, <2>3, GoesOn
<1>12. ClaimsOne'
  <2>1. todo[x].ops \in Claiming
    BY <1>4 DEF Claiming
  <2>2. \A k \in Jobs, a \in Live : owner'[k] = a /\ status'[k] \in Active
                                      => owner[k] = a /\ status[k] \in Active
    BY <1>2, <1>5, <1>9 DEF Active
  <2>3. QED
    BY <1>2, <2>1, <2>2, ClaimsKept
<1>13. NewUnlocked'
  BY <1>2 DEF IInv, NewUnlocked
<1>14. NoSecond'
  BY <1>2, <1>5, <1>9 DEF IInv, NoSecond, Active
<1>15. Claimable'
  <2> SUFFICES ASSUME NEW k \in Jobs, status'[k] = "pending", lock'[k]
               PROVE  Held(k)'
    BY DEF Claimable
  <2>1. PICK a \in Agents : todo[a].job = k /\ todo[a].ops \in {ToName, ToClaim}
    BY <1>2 DEF IInv, Claimable, Held
  <2>2. todo'[a] = IF a = x THEN t ELSE todo[a]
    BY <1>2 DEF IInv, TypeOK
  <2>3. QED
    BY <1>0, <1>8, <2>1, <2>2 DEF Held
<1>16. QED
  BY <1>10, <1>11, <1>12, <1>13, <1>14, <1>15 DEF IInv

\* ... and removed when the lock has been given back.
LEMMA RmStep ==
  ASSUME IInv, Quiet, NEW x \in Actors, ~Overtakes(x, todo[x].job), WriteAgent(x), Does(x, "rm")
  PROVE  IInv'
<1>0. PICK j, t : j = todo[x].job /\ t = Left(x)
  OBVIOUS
<1>1. /\ ~Idle(x) /\ owner' = [owner EXCEPT ![j] = "none"] /\ todo' = [todo EXCEPT ![x] = t]
      /\ UNCHANGED <<status, lock, dead>>
  BY <1>0 DEF WriteAgent, Does
<1>2. j \in Jobs /\ FitsJob(x, todo[x].ops, j) /\ x \in Busy
  BY <1>0, <1>1, BusyFits
<1>3. todo[x].ops = <<"rm", "pending">>
  BY <1>2, AtOp
<1>4. todo[x].ops \notin Claiming \cup Owning \cup Resetting \cup {ToOffer}
  BY <1>3, Lens, Heads DEF Claiming, Owning, Resetting
<1>5. status[j] \in Active /\ ~lock[j]
  BY <1>2, <1>4 DEF FitsJob, Claiming
<1>6. t = Script(j, ToOffer)
  <2>1. Len(todo[x].ops) # 1 /\ Tail(todo[x].ops) = ToOffer
    BY <1>3, Tails
  <2>2. QED
    BY <1>0, <2>1 DEF Left
<1>7. t.job = j /\ t.ops = ToOffer
  BY <1>6 DEF Script
<1>8. /\ owner \in [Jobs -> Agents \cup {"none"}] /\ owner' \in [Jobs -> Agents \cup {"none"}]
      /\ owner'[j] = "none" /\ \A k \in Jobs \ {j} : owner'[k] = owner[k]
  BY <1>1, <1>2 DEF IInv, TypeOK
<1>9. TypeOK'
  BY <1>0, <1>1, <1>8, StepType DEF IInv, TypeOK
<1>10. Undisturbed'
  <2>1. FitsJob(x, t.ops, j)'
    BY <1>1, <1>5, <1>7, <1>8 DEF FitsJob
  <2>2. \A k \in Jobs \ {j} : status'[k] = status[k] /\ lock'[k] = lock[k] /\ owner'[k] = owner[k]
    BY <1>1, <1>8
  <2>3. todo[x].ops # ToLock
    BY <1>4 DEF Claiming
  <2>4. QED
    BY <1>0, <1>1, <1>7, <2>1, <2>2, <2>3, GoesOn
<1>11. ClaimsOne'
  <2>1. t.ops \notin Claiming
    BY <1>7, Lens, Heads DEF Claiming
  <2>2. ASSUME NEW k \in Jobs, NEW a \in Live, owner'[k] = a, status'[k] \in Active
        PROVE  owner[k] = a /\ status[k] \in Active
    BY <1>1, <1>8, <2>2, NameAssumption DEF Live
  <2>3. t.ops \in Claiming => todo[x].ops \in Claiming
    BY <2>1
  <2>4. QED
    BY <1>1, <2>2, <2>3, ClaimsKept
<1>12. NewUnlocked'
  BY <1>1 DEF IInv, NewUnlocked
<1>13. NoSecond'
  BY <1>1, <1>8, NameAssumption DEF IInv, NoSecond
<1>14. Claimable'
  BY <1>1, <1>4, HeldKept DEF IInv, Claimable, Claiming
<1>15. QED
  BY <1>9, <1>10, <1>11, <1>12, <1>13, <1>14 DEF IInv

\* A status is the last thing a script writes.
LEMMA StatusStep ==
  ASSUME IInv, Quiet, NEW x \in Actors, ~Overtakes(x, todo[x].job), WriteStatus(x)
  PROVE  IInv'
<1>j. PICK j : j = todo[x].job
  OBVIOUS
<1>0. PICK s \in {"pending", "claimed", "running", "done", "failed"} :
        /\ j = todo[x].job /\ Does(x, s)
        /\ status' = [status EXCEPT ![j] = s] /\ todo' = [todo EXCEPT ![x] = Left(x)]
        /\ UNCHANGED <<lock, owner, dead>>
  BY <1>j DEF WriteStatus
<1>1. ~Idle(x)
  BY <1>0 DEF Does
<1>2. j \in Jobs /\ FitsJob(x, todo[x].ops, j) /\ x \in Busy
  BY <1>0, <1>1, BusyFits
<1>3. /\ s = "claimed" => todo[x].ops = ToClaim
      /\ s = "running" => todo[x].ops = <<"running">>
      /\ s \in {"done", "failed"} => todo[x].ops \in {<<"done">>, <<"failed">>}
      /\ s = "pending" => todo[x].ops = ToOffer
  BY <1>0, <1>2, AtOp
<1>4. todo[x].ops \in {ToClaim, <<"running">>, <<"done">>, <<"failed">>, ToOffer}
  BY <1>3
<1>5. Left(x) = Ended
  <2>1. Len(todo[x].ops) = 1
    BY <1>4, Lens
  <2>2. QED
    BY <2>1 DEF Left
<1>6. todo' = [todo EXCEPT ![x] = Ended] /\ Ended.ops = <<>>
  BY <1>0, <1>5 DEF Ended, Script
<1>7. s = "claimed" => x # Operator /\ owner[j] = x
  <2>1. ToClaim \notin {ToLock, ToName, ToOffer} \cup Owning \cup Resetting \cup Unlocked
    BY Lens, Heads DEF Owning, Resetting, Unlocked
  <2>2. QED
    BY <1>2, <1>3, <2>1 DEF FitsJob
<1>8. s = "running" => status[j] \in Active
  <2>1. <<"running">> \notin {ToLock, ToName, ToClaim, ToOffer}
    BY Lens, Heads
  <2>2. QED
    BY <1>2, <1>3, <2>1 DEF FitsJob, Unlocked
<1>9. s = "pending" => ~lock[j]
  <2>1. ToOffer \notin {ToLock, ToName, ToClaim} \cup Owning \cup Resetting
    BY Lens, Heads DEF Owning, Resetting
  <2>2. QED
    BY <1>2, <1>3, <2>1 DEF FitsJob
<1>10. /\ status' \in [Jobs -> {"none", "", "pending", "done", "failed"} \cup Active]
       /\ status'[j] = s /\ \A k \in Jobs \ {j} : status'[k] = status[k]
  BY <1>0, <1>2 DEF IInv, TypeOK, Active
<1>11. TypeOK'
  BY <1>0, <1>1, <1>10, StepType DEF IInv, TypeOK
<1>12. Undisturbed'
  <2>1. \A k \in Jobs \ {j} : status'[k] = status[k] /\ lock'[k] = lock[k] /\ owner'[k] = owner[k]
    BY <1>0, <1>10
  <2>2. todo[x].ops # ToLock
    BY <1>4, Lens, Heads
  <2>3. QED
    BY <1>0, <1>1, <1>6, <2>1, <2>2, GoesOn
<1>13. ClaimsOne'
  <2>1. Ended.ops \notin Claiming
    BY <1>6, Forms DEF Claiming
  <2>2. ASSUME NEW k \in Jobs, NEW a \in Live, owner'[k] = a, status'[k] \in Active
        PROVE  (owner[k] = a /\ status[k] \in Active) \/ (a = x /\ Ended.ops \notin Claiming)
    BY <1>0, <1>7, <1>8, <1>10, <2>1, <2>2 DEF Active
  <2>3. Ended.ops \in Claiming => todo[x].ops \in Claiming
    BY <2>1
  <2>4. todo' = [todo EXCEPT ![x] = Ended] /\ dead' = dead
    BY <1>0, <1>6
  <2>5. QED
    BY <2>2, <2>3, <2>4, ClaimsKept
<1>14. NewUnlocked'
  BY <1>0, <1>10 DEF IInv, NewUnlocked
<1>15. NoSecond'
  <2>1. s = "claimed" => ~OwnsActive(x)
    BY <1>3, <1>7 DEF IInv, ClaimsOne, Claiming, Actors
  <2>2. CASE s = "claimed"
    <3>1. owner[j] = x /\ \A k \in Jobs : ~(owner[k] = x /\ status[k] \in Active)
      BY <1>7, <2>1, <2>2 DEF OwnsActive
    <3>2. \A k \in Jobs : owner[k] = owner[j] /\ status'[k] \in Active => k = j
      BY <1>10, <3>1
    <3>3. QED
      BY <1>0, <1>10, <3>2 DEF IInv, NoSecond
  <2>3. CASE s # "claimed"
    BY <1>0, <1>8, <1>10, <2>3 DEF IInv, NoSecond, Active
  <2>4. QED
    BY <2>2, <2>3
<1>16. Claimable'
  <2> SUFFICES ASSUME NEW k \in Jobs, status'[k] = "pending", lock'[k]
               PROVE  Held(k)'
    BY DEF Claimable
  <2>1. k # j /\ status[k] = "pending" /\ lock[k]
    BY <1>0, <1>9, <1>10
  <2>2. PICK a \in Agents : todo[a].job = k /\ todo[a].ops \in {ToName, ToClaim}
    BY <2>1 DEF IInv, Claimable, Held
  <2>3. todo'[a] = todo[a]
    BY <1>0, <1>6, <2>1, <2>2 DEF IInv, TypeOK
  <2>4. QED
    BY <2>2, <2>3 DEF Held
<1>17. QED
  BY <1>11, <1>12, <1>13, <1>14, <1>15, <1>16 DEF IInv

\* An agent that dies leaves its script where it is.
LEMMA DieStep ==
  ASSUME IInv, NEW a \in Agents, Die(a)
  PROVE  IInv'
<1>1. dead' = dead \cup {a} /\ UNCHANGED <<status, lock, owner, todo>>
  BY DEF Die
<1>2. Live' \subseteq Live /\ Actors' \subseteq Actors /\ Busy' \subseteq Busy
  BY <1>1 DEF Live, Actors, Busy, Idle
<1>3. TypeOK'
  BY <1>1 DEF IInv, TypeOK
<1>4. Undisturbed'
  BY <1>1, <1>2 DEF IInv, Undisturbed, FitsJob
<1>5. ClaimsOne' /\ NewUnlocked' /\ NoSecond' /\ Claimable'
  BY <1>1, <1>2 DEF IInv, ClaimsOne, OwnsActive, NewUnlocked, NoSecond, Claimable, Held
<1>6. QED
  BY <1>3, <1>4, <1>5 DEF IInv

\* Under Quiet every step keeps the invariant.
LEMMA StepIInv == Quiet /\ IInv /\ [Next]_vars => IInv'
<1> SUFFICES ASSUME Quiet, IInv, [Next]_vars PROVE IInv'
  OBVIOUS
<1>1. ASSUME NEW j \in Jobs, Create(j) \/ ResetOrphan(j) \/ ResetCorrupt(j) \/ Reap(j)
      PROVE  IInv'
  BY <1>1, CreateStep, TakeStep
<1>2. ASSUME NEW a \in Agents, Die(a)
      PROVE  IInv'
  BY <1>2, DieStep
<1>3. ASSUME NEW a \in Agents, NEW j \in Jobs, AgentStarts(a, j)
      PROVE  IInv'
  BY <1>3, AgentStartsStep
<1>4. ASSUME NEW x \in Agents \cup {Operator}, Step(x)
      PROVE  IInv'
  <2>1. x \in Actors /\ ~Overtakes(x, todo[x].job)
    BY <1>4, OperatorAssumption
       DEF Step, MkdirLock, RmdirLock, WriteAgent, WriteStatus, Does, Actors, Live
  <2>2. CASE MkdirLock(x)
    BY <2>1, <2>2, MkdirStep
  <2>3. CASE RmdirLock(x)
    BY <2>1, <2>3, RmdirStep
  <2>4. CASE WriteAgent(x)
    BY <2>1, <2>4, NameStep, RmStep DEF WriteAgent
  <2>5. CASE WriteStatus(x)
    BY <2>1, <2>5, StatusStep
  <2>6. QED
    BY <1>4, <2>2, <2>3, <2>4, <2>5 DEF Step
<1>5. CASE UNCHANGED vars
  <2>1. UNCHANGED <<status, lock, owner, todo, dead>>
    BY <1>5 DEF vars
  <2>2. Live' = Live /\ Actors' = Actors /\ Busy' = Busy
    BY <2>1 DEF Live, Actors, Busy, Idle
  <2>3. TypeOK' /\ Undisturbed'
    BY <2>1, <2>2 DEF IInv, TypeOK, Undisturbed, FitsJob
  <2>4. ClaimsOne' /\ NewUnlocked' /\ NoSecond' /\ Claimable'
    BY <2>1, <2>2 DEF IInv, ClaimsOne, OwnsActive, NewUnlocked, NoSecond, Claimable, Held
  <2>5. QED
    BY <2>3, <2>4 DEF IInv
<1>6. QED
  BY <1>1, <1>2, <1>3, <1>4, <1>5 DEF Next

\* No step changes the status of a job that is done or has failed.
LEMMA StepFinished ==
  ASSUME IInv, [Next]_vars, NEW j \in Jobs, status[j] \in {"done", "failed"}
  PROVE  status'[j] = status[j]
<1>1. ASSUME NEW x \in Agents \cup {Operator}, WriteStatus(x)
      PROVE  status'[j] = status[j]
  <2>1. PICK s : status' = [status EXCEPT ![todo[x].job] = s] /\ ~Idle(x) /\ x \notin dead
    BY <1>1 DEF WriteStatus, Does
  <2>2. x \in Actors
    BY <2>1 DEF Actors, Live
  <2>3. FitsJob(x, todo[x].ops, todo[x].job) /\ todo[x].job \in Jobs
    BY <2>1, <2>2, BusyFits
  <2>4. status[todo[x].job] \notin {"done", "failed"}
    BY <2>3 DEF FitsJob, Active
  <2>5. QED
    BY <2>1, <2>4 DEF IInv, TypeOK
<1>2. ASSUME NEW k \in Jobs, Create(k)
      PROVE  status'[j] = status[j]
  BY <1>2 DEF Create, IInv, TypeOK
<1>3. ASSUME NEW k \in Jobs, ResetOrphan(k) \/ ResetCorrupt(k) \/ Reap(k)
      PROVE  status'[j] = status[j]
  BY <1>3 DEF ResetOrphan, ResetCorrupt, Reap, Take
<1>4. ASSUME NEW a \in Agents, NEW k \in Jobs, AgentStarts(a, k)
      PROVE  status'[j] = status[j]
  BY <1>4 DEF AgentStarts, Claim, Start, Finish, Fail, Release, Begin
<1>5. ASSUME NEW x \in Agents \cup {Operator}, MkdirLock(x) \/ RmdirLock(x) \/ WriteAgent(x)
      PROVE  status'[j] = status[j]
  BY <1>5 DEF MkdirLock, RmdirLock, WriteAgent
<1>6. ASSUME NEW a \in Agents, Die(a)
      PROVE  status'[j] = status[j]
  BY <1>6 DEF Die
<1>7. CASE UNCHANGED vars
  BY <1>7 DEF vars
<1>8. QED
  BY <1>1, <1>2, <1>3, <1>4, <1>5, <1>6, <1>7 DEF Next, Step

-----------------------------------------------------------------------------
(* What holds of every Quiet queue.                                        *)

\* The strengthened invariant: what a script found when it looked at a job
\* (job-claim, job-reset-orphans) is still so at each operation it has left.
THEOREM Inductive == ASSUME Quiet PROVE Spec => []IInv
  BY InitIInv, StepIInv, PTL DEF Spec

\* A job is not done twice: its status stays when it is done or has failed.
THEOREM FinishedStaysHolds == ASSUME Quiet PROVE Spec => FinishedStays
<1>1. IInv /\ [Next]_vars =>
        [\A j \in Jobs : status[j] \in {"done", "failed"} => status'[j] = status[j]]_vars
  BY StepFinished
<1>2. QED
  BY <1>1, Inductive, PTL DEF Spec, FinishedStays

\* Whoever died and whatever the operator has reset, a pending job is locked
\* only by a claim that made its lock.
THEOREM ClaimableHolds == ASSUME Quiet PROVE Spec => []Claimable
<1>1. IInv => Claimable
  BY DEF IInv
<1>2. QED
  BY <1>1, Inductive, PTL

\* No agent has two active jobs.
THEOREM OneActiveHolds == ASSUME Quiet PROVE Spec => []OneActive
<1>1. IInv => OneActive
  <2> SUFFICES ASSUME IInv, NEW a \in Agents
               PROVE  Cardinality({j \in Jobs : owner[j] = a /\ status[j] \in Active}) <= 1
    BY DEF OneActive
  <2> DEFINE S == {j \in Jobs : owner[j] = a /\ status[j] \in Active}
  <2>1. \A j, k \in S : j = k
    BY DEF IInv, NoSecond
  <2> SUFFICES Cardinality(S) <= 1
    OBVIOUS
  <2> HIDE DEF S
  <2>2. CASE S = {}
    BY <2>2, FS_EmptySet
  <2>3. CASE S # {}
    <3>1. PICK j : S = {j}
      BY <2>1, <2>3
    <3>2. Cardinality({j}) = 1
      BY FS_Singleton
    <3>3. QED
      BY <3>1, <3>2
  <2>4. QED
    BY <2>2, <2>3
<1>2. QED
  BY <1>1, Inductive, PTL
===============================================================================
