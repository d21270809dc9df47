------------------------------- MODULE JobQueue -------------------------------
(***************************************************************************)
(* The job queue of the agent workspace (src/agentws/bin): a directory for *)
(* each job, with the files status and agent.id and the directory lock,    *)
(* which shell scripts of several processes test and change.               *)
(*                                                                         *)
(* A script looks at a job, and then it does a list of file operations,    *)
(* one after the other; it ends at a mkdir or rmdir that fails.  An agent  *)
(* runs one script at a time.  It may die at any moment, and its script    *)
(* with it.  The operator runs job-reset-orphans and job-reap.             *)
(***************************************************************************)
EXTENDS Naturals, Sequences, FiniteSets

CONSTANTS
  Agents,
  Jobs,
  Operator,   \* who runs job-create, job-reset-orphans and job-reap
  Quiet       \* no claim is overtaken between its look and its mkdir, and the
              \* operator lets alone a job that an agent's script is at

ASSUME QuietAssumption == Quiet \in BOOLEAN
ASSUME OperatorAssumption == Operator \notin Agents
\* "none" stands for no agent.id.
ASSUME NameAssumption == "none" \notin Agents

VARIABLES
  status,   \* the file status; "none" before the directory, "" before the file
  lock,     \* whether the directory lock is there
  owner,    \* the agent in the file agent.id, or "none"
  todo,     \* what is left of the script that an agent or the operator runs
  dead      \* the agents that have exited

vars == <<status, lock, owner, todo, dead>>

Active == {"claimed", "running"}

\* A script at a job; at no job when it has ended.
Script(j, ops) == [job |-> j, ops |-> ops]
Ended          == Script("none", <<>>)
Idle(x)        == todo[x].ops = <<>>
Live           == Agents \ dead
MayAct(x)      == Idle(x) /\ x \notin dead

Init ==
  /\ status = [j \in Jobs |-> "none"]
  /\ lock = [j \in Jobs |-> FALSE]
  /\ owner = [j \in Jobs |-> "none"]
  /\ todo = [x \in Agents \cup {Operator} |-> Ended]
  /\ dead = {}

Run(x, j, ops) == todo' = [todo EXCEPT ![x] = Script(j, ops)]
Left(x)        == IF Len(todo[x].ops) = 1 THEN Ended
                  ELSE Script(todo[x].job, Tail(todo[x].ops))

-----------------------------------------------------------------------------
(***************************************************************************)
(* job-create: the directory first, the status last.                       *)
(***************************************************************************)
Create(j) ==
  /\ MayAct(Operator) /\ status[j] = "none"
  /\ status' = [status EXCEPT ![j] = ""]
  /\ Run(Operator, j, <<"pending">>)
  /\ UNCHANGED <<lock, owner, dead>>

(***************************************************************************)
(* job-claim: an agent that has an active job claims no other.             *)
(***************************************************************************)
OwnsActive(a) == \E j \in Jobs : owner[j] = a /\ status[j] \in Active

\* Mutant: the scan looks for running jobs only.
MutMayClaim(a, j) == status[j] = "pending" /\ ~\E k \in Jobs : owner[k] = a /\ status[k] = "running"
MayClaim(a, j)    == status[j] = "pending" /\ ~OwnsActive(a)

Claim(a, j) ==
  /\ MayAct(a) /\ MayClaim(a, j)
  /\ Run(a, j, <<"mkdir", "agent.id", "claimed">>)
  /\ UNCHANGED <<status, lock, owner, dead>>

(***************************************************************************)
(* The scripts of the owner of an active job.  They read the status, the   *)
(* lock and agent.id, in this order; nobody else writes an agent's name,   *)
(* so what they saw first was still so when they read it last.             *)
(***************************************************************************)
\*
\* Mutant: agent.id is not compared.
MutOwned(a, j, from) == MayAct(a) /\ status[j] \in from /\ lock[j]

Owned(a, j, from) ==
  /\ MayAct(a)
  /\ status[j] \in from /\ lock[j] /\ owner[j] = a

\* Mutant: the status is written before the lock is given back.
MutReleaseOps == <<"pending", "rmdir", "rm">>
ReleaseOps    == <<"rmdir", "rm", "pending">>

Begin(a, j, from, ops) ==
  Owned(a, j, from) /\ Run(a, j, ops) /\ UNCHANGED <<status, lock, owner, dead>>

Start(a, j)   == Begin(a, j, {"claimed"}, <<"running">>)
Finish(a, j)  == Begin(a, j, {"running"}, <<"rmdir", "done">>)
Fail(a, j)    == Begin(a, j, Active, <<"rmdir", "failed">>)
Release(a, j) == Begin(a, j, Active, ReleaseOps)

(***************************************************************************)
(* The operator.  job-reset-orphans takes the active jobs of dead agents,  *)
(* and those without an owner; job-reap takes any whose lock is old.       *)
(***************************************************************************)
Alone(j) == Quiet => \A a \in Live : todo[a].job # j

Take(j, ops) ==
  /\ MayAct(Operator) /\ status[j] \in Active /\ Alone(j)
  /\ Run(Operator, j, ops)
  /\ UNCHANGED <<status, lock, owner, dead>>

ResetOrphan(j)  == owner[j] \in dead /\ Take(j, <<"unlock", "rm", "pending">>)
ResetCorrupt(j) == owner[j] = "none" /\ Take(j, <<"unlock", "pending">>)
Reap(j)         == lock[j] /\ Take(j, ReleaseOps)

-----------------------------------------------------------------------------
(***************************************************************************)
(* The next operation of a script.                                         *)
(***************************************************************************)
Does(x, op) == ~Idle(x) /\ x \notin dead /\ Head(todo[x].ops) = op

MkdirLock(x) ==
  LET j == todo[x].job IN
  /\ Does(x, "mkdir")
  /\ lock' = [lock EXCEPT ![j] = TRUE]
  /\ todo' = [todo EXCEPT ![x] = IF lock[j] THEN Ended ELSE Left(x)]
  /\ UNCHANGED <<status, owner, dead>>

RmdirLock(x) ==
  LET j == todo[x].job IN
  /\ Does(x, "rmdir") \/ Does(x, "unlock")
  /\ lock' = [lock EXCEPT ![j] = FALSE]
  /\ todo' = [todo EXCEPT ![x] = IF Does(x, "rmdir") /\ ~lock[j] THEN Ended ELSE Left(x)]
  /\ UNCHANGED <<status, owner, dead>>

WriteAgent(x) ==
  /\ Does(x, "agent.id") \/ Does(x, "rm")
  /\ owner' = [owner EXCEPT ![todo[x].job] = IF Does(x, "rm") THEN "none" ELSE x]
  /\ todo' = [todo EXCEPT ![x] = Left(x)]
  /\ UNCHANGED <<status, lock, dead>>

WriteStatus(x) ==
  \E s \in {"pending", "claimed", "running", "done", "failed"} :
    /\ Does(x, s)
    /\ status' = [status EXCEPT ![todo[x].job] = s]
    /\ todo' = [todo EXCEPT ![x] = Left(x)]
    /\ UNCHANGED <<lock, owner, dead>>

Die(a) == a \in Live /\ dead' = dead \cup {a} /\ UNCHANGED <<status, lock, owner, todo>>

\* With Quiet, nothing happens at a job between the look and the mkdir of a
\* claim, and no agent's script begins at a job that the operator is at.
Overtakes(x, j) == Quiet /\ \E a \in Live \ {x} : todo[a].job = j /\ Does(a, "mkdir")

AgentStarts(a, j) ==
  /\ Quiet => todo[Operator].job # j
  /\ ~Overtakes(a, j)
  /\ Claim(a, j) \/ Start(a, j) \/ Finish(a, j) \/ Fail(a, j) \/ Release(a, j)
Step(x) ==
  /\ ~Overtakes(x, todo[x].job)
  /\ MkdirLock(x) \/ RmdirLock(x) \/ WriteAgent(x) \/ WriteStatus(x)

Next ==
  \/ \E j \in Jobs : Create(j) \/ ResetOrphan(j) \/ ResetCorrupt(j) \/ Reap(j)
  \/ \E a \in Agents : Die(a) \/ \E j \in Jobs : AgentStarts(a, j)
  \/ \E x \in Agents \cup {Operator} : Step(x)

Spec == Init /\ [][Next]_vars

-----------------------------------------------------------------------------
(***************************************************************************)
(* Properties.                                                             *)
(***************************************************************************)
\* A claim of the job that has made its lock and has more to do.
ToName  == <<"agent.id", "claimed">>
ToClaim == <<"claimed">>
Held(j) == \E a \in Agents : todo[a].job = j /\ todo[a].ops \in {ToName, ToClaim}

\* A job that has been done or has failed is never handed out again
\* (job-claim: "cannot claim job from status ... (expected: pending)").
FinishedStays ==
  [][\A j \in Jobs : status[j] \in {"done", "failed"} => status'[j] = status[j]]_vars

\* A pending job can be claimed: its lock is there only while the claim that
\* made it, and that may have been killed, is at it (job-claim, job-release,
\* job-reset-orphans).
Claimable == \A j \in Jobs : status[j] = "pending" /\ lock[j] => Held(j)

\* An agent never owns two active jobs, whoever resets and takes over jobs
\* in between (job-claim's scan before it claims).
OneActive ==
  \A a \in Agents : Cardinality({j \in Jobs : owner[j] = a /\ status[j] \in Active}) <= 1

-----------------------------------------------------------------------------
(***************************************************************************)
(* The inductive invariant behind them, for a Quiet queue.                 *)
(***************************************************************************)
\* What is left of a script, and what its job is like then.
ToLock    == <<"mkdir", "agent.id", "claimed">>
Claiming  == {ToLock, ToName, ToClaim}
Owning    == {<<"running">>, <<"rmdir", "done">>, <<"rmdir", "failed">>, ReleaseOps}
Resetting == {<<"unlock", "rm", "pending">>, <<"unlock", "pending">>, ReleaseOps}
Unlocked  == {<<"done">>, <<"failed">>, <<"rm", "pending">>}
ToOffer   == <<"pending">>

FitsJob(x, ops, j) ==
  \/ ops = ToLock /\ x # Operator /\ status[j] = "pending"
  \/ ops = ToName /\ x # Operator /\ status[j] = "pending" /\ lock[j]
  \/ ops = ToClaim /\ x # Operator /\ status[j] = "pending" /\ lock[j] /\ owner[j] = x
  \/ ops \in Owning /\ x # Operator /\ status[j] \in Active /\ owner[j] = x
  \/ ops \in Resetting /\ x = Operator /\ status[j] \in Active
  \/ ops \in Unlocked /\ status[j] \in Active /\ ~lock[j]
  \/ ops = ToOffer /\ status[j] \in Active \cup {""} /\ ~lock[j]

Actors == Live \cup {Operator}
Busy   == {x \in Actors : ~Idle(x)}

\* A script that can still go on finds its job as it left it, and nobody else
\* is at that job but to try for its lock.
Undisturbed ==
  /\ \A x \in Busy : todo[x].job \in Jobs /\ FitsJob(x, todo[x].ops, todo[x].job)
  /\ \A x, y \in Busy : x # y /\ todo[x].job = todo[y].job =>
                        ToLock \in {todo[x].ops, todo[y].ops}

\* A claim under way is its agent's only one.
ClaimsOne == \A a \in Live : todo[a].ops \in Claiming => ~OwnsActive(a)

FileOp == {"mkdir", "rmdir", "unlock", "agent.id", "rm",
           "pending", "claimed", "running", "done", "failed"}
TypeOK ==
  /\ status \in [Jobs -> {"none", "", "pending", "done", "failed"} \cup Active]
  /\ lock \in [Jobs -> BOOLEAN] /\ owner \in [Jobs -> Agents \cup {"none"}]
  /\ dead \subseteq Agents
  /\ todo \in [Agents \cup {Operator} -> [job : Jobs \cup {"none"}, ops : Seq(FileOp)]]

\* A job is made without a lock; two active jobs of one agent are the same.
NewUnlocked == \A j \in Jobs : status[j] \in {"none", ""} => ~lock[j]
NoSecond    == \A j, k \in Jobs : owner[j] \in Agents /\ owner[j] = owner[k]
                 /\ status[j] \in Active /\ status[k] \in Active => j = k

IInv == TypeOK /\ Undisturbed /\ ClaimsOne /\ NewUnlocked /\ NoSecond /\ Claimable
===============================================================================
