# TPA in TLA+

Models, model-checking runs and proofs of TPA, the transputer-style process and
channel runtime of this repository: cooperative processes on the harts of
Erbium and ET-SoC-1, which communicate over rendezvous channels through memory
that no hardware keeps coherent; of the networks that run on it as programs of
such processes; of the planner's placement of their messages in memory; and of
the job queue of the agent workspace. Paths below are relative to the
repository.

## 1. The system

| Component | State it keeps | Operations | What makes it correct |
|---|---|---|---|
| Channels, `tpa/lib/src/channel.c` | `state`, `buf`, `len`, `turn`, two storage pointers | `tpa_channel_send`, `tpa_channel_recv` | a rendezvous: each message delivered once, in order, unchanged while it is read; both sides complete |
| Processes, `tpa/lib/src/process.c` | state, continuation, mailbox (its own cache line), slot table | register, wait, publish, complete a wait, mark failed | a published message survives until it is taken |
| Scheduler, `tpa/lib/src/scheduler.c` | per hart: linked run queue; ready words, `armed`, `bell` | push, pop, set/take ready bits, arm, ring | the queue is a list without repetitions; no wakeup is lost |
| Runtime, `tpa/lib/src/tpa_runtime.c` | `init_state`, `live_procs`, `failed`, current process per hart | `tpa_init`, `tpa_boot_hart`, `tpa_reload`, `tpa_step`, `tpa_wake`, `tpa_fail` | one initialisation; every woken process runs; the end is noticed everywhere |
| Device main loop, `tpa-device/runtime/tpa_scheduler.c` | `tpa_reported` | `tpa_scheduler_main`, `tpa_hart_main` | a true verdict, once; no hart left asleep |
| HAL, `tpa/hal/erbium`, `tpa/hal/etsoc1` | hardware credits, caches | atomics, flush, evict, wake, wait | evictions and flushes reach the level the two harts share |
| YOLOv5n programs, `yolov5n/` | per process: the buffers of its arena, its place in its continuations | receive, run (pack, multiply, concatenate, add, pool, upsample), send, report | what reaches the sink is the reference network's maps; no buffer read after it was overwritten or past its end; the program ends |
| YOLOv8n programs, `yolov8n/` | the same | point by point C2f and Detect, dense and sparse; checkers | every value used was computed, from the right pixels |
| Planner, placement, `planner/src/tpa_planner/edge_plan.py` | roots, objects, offsets | roots, reachability, first fit | two messages in the same bytes are never in use at once |
| Planner, mapping, `map_program.py` | - | map processes to harts, schedule | not modelled, section 8 |
| Agent job queue, `agentws/bin` | a directory per job: status, lock, owner | create, claim, start, done, fail, release, reap, reset | one active job per agent, a finished job stays finished, no job stuck |
| Image generation, host launcher, boot code, other kernels, tools | - | - | not modelled, section 8 |

How they interact. `tpa_step` runs a continuation and interprets the operation
it returns. A send or receive goes to the channel, which parks the process or
serves the one parked at the other end; serving it ends in
`runtime_wake_slot`, which sets a ready bit of the peer's hart with a global
atomic and, if that hart is armed and its bell is not rung, sends a credit.
The peer's hart consumes the credit, takes the ready bits in `tpa_reload`,
completes the process's wait (the mailbox is read here) and queues it. There
is no preemption and there are no timeouts; nothing is persisted. What is hard
is the interleaving of harts, of their caches, and the end of a run.

A network program is a `.tpp` file: processes of some kinds, and connections
with a port at each end and a capacity. Image generation makes each connection
a channel; the planner gives each message a place in shared memory and lets
messages overlap when the graph orders their uses. A process receives its
inputs, runs its stage in one continuation, and sends its outputs. What is hard
is that maps of different nodes have equal shapes, that a stage re-uses a few
buffers under many names, that patch blocks and arenas have hand-written
sizes, that the packing code deals with 16 pixels or 8 bytes at a time, and that
the order of receives and sends must not close a circle.

The job queue has no process of its own: scripts that several agents run at
once test and change the files of a job, and an agent may die between two of
those changes.

## 2. Modules

* **Channel** - one channel with `process.c`'s waits and mailbox. Each shared
  access of `channel_send_handoff` and `channel_recv_handoff` is an action,
  named for it (`ClaimTx`, `Offer`, `ParkTx`, `PublishTx`, `DeliverTx`,
  `PublishMsg`, `ReleaseTx`, `WakeRx` ...); a failed compare-exchange retries, so
  load and exchange are one action. Buffers are model-level names and a message
  is its number.
* **Rendezvous** - what a channel promises; `Channel` implements it under the
  mapping at the end of `Channel.tla` (`Met` counts the claims of the later side).
* **MailboxCache** - the same hand-off over an L1 per hart, an L2 per shire and
  memory; every line may be displaced at any moment. Actions follow the
  order of stores, flushes and evictions in `channel.c` and `process.c`.
* **Doorbell** - one hart's loop in full (`tpa_scheduler_main`, `tpa_reload`,
  `tpa_step`) against wakers on other harts, one action per shared access.
* **RunQueue** - the intrusive list with its `next` pointers, and all that
  pushes or pops: boot, yield, ready bits. `fifo` is a history variable.
* **Lifecycle** - several harts from `main` to the verdict: `tpa_init`,
  registration, stops, failures, `channel_bug`, the report.
* **TensorKernels** - the layer kernels of `yolov5n/` reduced to which source
  pixel each byte of a packed row comes from (`PackedPos`, `TapSource`, `Smear`),
  what they write, and when they refuse. `Flaws` of a stage is what
  that says of its layers: layers with pixels computed from a wrong tap, layers
  that overrun a scratch block, layers that return -1.
* **Stages** - a stage's step list over named buffers. A buffer's value is the
  node of the reference graph it holds (`?` when no node is computed by that
  operation from those inputs), its shape, and the sites that spoilt it or
  what it was computed from.
* **Yolov5n** - the eleven stages `p0` to `p10`, each with its layers, the
  kernels and constants of its file, its arena and its steps, and the graph of
  the model they are meant to compute.
* **EdgePlan** - roots, edge objects, reachability and the first-fit search of
  `edge_plan.py`, as recursive functions of a program. `WellFormed` is what
  image generation hands to the planner.
* **Network** - a program: the state is each process's next operation and
  buffers, who has given up (`failed`), and what has been reported (`verdict`).
  `Meet` passes a message when both sides have come to a connection (the
  channel as `Rendezvous` promises it), `RunStage` is the run continuation,
  `CheckAll` a sink's. `TensorError` is the run in which the tensor unit reports an
  error in a kernel that multiplies: the kernel returns -1 and the stage gives up
  (`GiveUp`), with a failure reported but in `p0` to `p3`, whose `quiet` stands for
  the bare `tpa_stop()`. `prog` is the program that runs and never changes;
  `StageFlaws` looks once at each stage of the programs. `WellBuilt` is how the
  continuations of every network process are laid out (section 6). `Later` orders
  the connections by when the processes at their ends come to them (`OneOrder`).
* **Dataflow** - what a network computes, without its interleavings: what each
  process holds at each of its operations, as equations (`Solves`); their
  solution, found in rounds (`Flow`); what makes a solution right (`Right`); and
  what follows for every execution (`Determinate`, `EndsWell`; theorems only).
* **Yolov5nPrograms** - the processes and the three `.tpp` programs of YOLOv5n:
  sources, stages, forks, sinks.
* **Yolov8nPoints**, **Yolov8nC2f**, **Yolov8n** - the point by point
  convolutions through small patches with valid marks; the six `*_c2f_detect.c`
  files with their constants; the twelve `.tpp` programs.
* **JobQueue** - a script looks at a job and then does its list of
  file operations, each an action; agents die between any two of them.
* **MC\*** - finite instances. **\*Proofs** - theorems about the module of that
  name (section 7); each inductive invariant stands in the module itself.

The modules divide the runtime along the interfaces of its files, and each
relies on what another shows:

* `Doorbell` lets a waker wake only a parked process that nobody else is
  waking; `Channel` shows this of channel operations (`NoStrayWake`), and for
  `tpa_wake` it is the contract of its caller (once for each `tpa_block`).
* `RunQueue` allows the wake to come before the process has stored its state,
  since both `tests/tpa_queue/wake.c` and the channels publish first.
* `Channel` takes memory as coherent; `MailboxCache` shows what that costs.
* `Channel` takes for granted that a ready bit gets its process to run, which
  is `WakeDelivered` of `Doorbell`.
* `Network` takes a channel for a rendezvous that passes the whole message when both
  sides are there. That is what `Channel` implements, given messages that fit,
  which `MessagesFit` shows of these programs.
* `Network` gives every process its own copy of a message; `StorageKept` shows that
  the planner's overlapping buffers keep it.

## 3. Runs

| Run | Instance | Shows |
|---|---|---|
| `doorbell` | 2 processes in 2 ready words, 2 wakers, 3 calls | `NoLostWakeup`, `WakeAccounted`, `QueueExact`, `IInv`; `WakeDelivered`, `LeavesWhenOver` |
| `channel` | every buffer configuration, 5 messages | `Protocol`, `NoStrayWake`, `Intact`, `IInv`; refinement of `Rendezvous` with its liveness |
| `mailbox` | 2 harts, 1 shire, with and without storage, 3 messages | `Received`, `OneWriter`, `PostKept` |
| `mailbox_erbium` | eviction to L1 | `Received` fails (finding 1) |
| `mailbox_fabric` | 2 shires, eviction to L2 | `Received` fails (finding 2) |
| `runqueue` | 4 processes | `Linked`, `QueueExact`, `WakeMeetsWait`; `NeverOvertaken`; `ReadyRuns`, `WokenRuns` |
| `lifecycle` | 2 harts, 3 processes, 2 failures | `StartsOnce`, `LiveExact`, `VerdictTrue`; `AllStart`, `AllEnd` |
| `yolo` | all 15 programs in their real sizes; those of YOLOv5n also with 2 tensor errors | `NothingMiswired`, `MessagesFit`, `OtherKernelsExact`, `ScratchFits`, `Delivered`, `StorageKept`, `InOneOrder`, `FlowRight`, `NeverStuck`, `PassEarned`; `Completes` |
| `yolo_heads` | the YOLOv5n demo | `SinksExact` fails (findings 3 to 6) |
| `sparse_detect` | the sparse YOLOv8n program of P5 | `DetectReadsComputed` fails (finding 7) |
| `jobs` | 2 agents, 2 jobs, the operator, `Quiet` | `Claimable`, `OneActive`; `FinishedStays` |
| `jobs_claim` | 2 agents, 1 job, not `Quiet` | `FinishedStays` fails (finding 8) |

The type invariants are theorems (`TypeCorrect`, or a part of `Inductive`, section 7);
the runs `doorbell` and `channel` check them too, as parts of `IInv`.

Bounds and why they are enough.

* `doorbell`: two wakers suffice for one to ring the bell for the other; two
  words for a bit set behind the scan; three calls for a bell that outlives
  its credit plus a later wake. `CreditMax` is small but above the number of
  credits that can be posted (`CreditAssumption`), so no run and no proof here says
  what happens when the 16-bit counter of the hardware wraps. A hart that is armed
  and finds work at once does not consume the credit of that wake; 65,536 such
  credits without a sleep in between would lose every pending wake. `InitCredits` is
  what the start-up broadcasts may leave.
* `channel`: a cycle of the two storage buffers takes two messages and the
  sender's two buffers another two; the fifth message meets each again.
* `mailbox`: three messages re-use a buffer and, with storage, a turn.
* `runqueue`: four nodes give a list with a middle. No bound on steps.
* `lifecycle`: two harts race for `init_state`, `live_procs` and
  `tpa_reported`; one has two processes, so it may run on while the other
  sleeps. Two failures let one hart hang and the other fail after it.
* `yolo`: nothing is bounded but the number of tensor errors (below). Programs,
  connections, lengths, layers, arenas and maps are those of the code, so a circle
  of waits or a buffer too short would be the program's own. A stage's kernels are looked at once, as constants, because
  they depend on nothing but the layer and the file. Three things are sampled.
  `ProbedRows` has the first three and the last two output rows of a map, which
  is enough where the channels of a layer fill whole words and either its rows
  are whole blocks or its walk divides every index: `PackedExact` shows the other
  rows right. Where rows are not whole blocks the block runs over the end of the
  first row already (`RowWalkRunsOn`), and those layers, with layer 0, are among the
  known sites. The in-place concatenation is looked at for its first pixels,
  from which `ConcatEverywhere` gets the rest. `ExactRight` looks at the first
  two columns and the last one of its rows, which nothing but the form of the
  code justifies: its columns between are all computed in the same way.
  `NothingMiswired` is independent of the step lists: a buffer's node comes
  from the reference graph, whose edges are those of the model's layers.
  `OtherKernelsExact` and `ScratchFits` name the sites of findings 3 to 7 as
  exceptions, in the constants `KnownSites` and `KnownSpills`, so that they
  speak of everything else; the runs of the findings have no exceptions.
  Each program has a bound on its tensor errors, `errors`: 0 for the 15 programs
  as they are, for which `Completes` says that they end with a pass, and 2 for the copies
  of the three YOLOv5n programs in `MCErring` (the YOLOv8n kernels do not use the
  tensor unit). One error keeps every pass of a program with a sink back. The second
  makes the cases that one cannot: a failure reported by one stage while another stops
  in silence, a silent stop behind another, and, in the downstream program, `p10`'s
  pass before or after failures of both `p6` and `p8`. No stage here gives up by itself,
  since every guard holds and every length is right; a tensor error may come in any
  stage that multiplies. So the errors are what `NeverStuck` and `PassEarned` are
  about. The safety properties before them are checked with errors, too.
* `jobs`: two agents race for a lock while one may die; a second job lets an
  agent own one while it is reset and claim another. A third agent only adds a
  second loser of the same mkdir.

`CHECK_DEADLOCK FALSE` stands where the system really stops: all messages sent
(`channel`, the `mailbox` runs), all harts out of their loops (`doorbell`,
`lifecycle`), all agents dead or every job finished (`jobs`), and where a stage has
given up and those behind it wait for ever (`yolo`). There `NeverStuck` says that nothing
else brings a network to a halt, and `Completes` that nothing does without tensor
errors; the end is a step of its own (`Done`).

## 4. Fairness

A hart executes its instructions, so a step that stays possible is taken: weak
fairness of each hart's next step (`Doorbell`, `RunQueue`, `Lifecycle`) and of
each side's pending operation (`Channel`). A continuation returns; a program's
choice to issue a further operation, to wake, to fail or to stop is not fair.
Nothing is assumed of the order of harts. `Network` needs only that some process goes
on as long as one can (weak fairness of `Next`), since every program is finite.
`JobQueue` has no liveness property: nobody has to run a script, and an agent
that dies leaves a job until the operator resets it.

## 5. Findings

1. **Erbium evicts nothing.** `cache_evict_line` (`hal_erbium.c:217`) leaves
   the destination field of `evict_va` 0, which the programmer's manual
   calls a NOP. A receiver parked with its emptied mailbox clean in L1 then
   reads `msg_ready` 0 after its wake. `cache_evict_l1d_to_l2`, used for large
   ranges, encodes the field. An emulator without caches does not show it.
2. **ET-SoC-1 evicts to L2 only**, which two shires do not share: the same
   stale mailbox is read from the receiver's L2 when a channel crosses shires,
   which `docs/design/TPA_IMPL.md` promises to support.

Both are shown by `Received` with a counterexample in which nothing but the
ordinary hand-off happens, and both disappear with an eviction that reaches
the shared level (`mailbox`).

3. **p0 concatenates in place** (`yolov5n_p0.c:173`). `b_buf` and `cat_buf` are
   both `buf0`; pixel 0 of the result overwrites pixel 1 of the input.
4. **Layer 0 keeps bytes of the next pixel.** `vec_copy_bytes` copies 8 bytes
   where a tap of layer 0 has 3; where the next tap lies outside the image
   nothing overwrites the other 5, which should be padding.
5. **p8 and p10 pack blocks over the ends of rows** (`yolov5n_p10.c:673`): widths
   of 40 and 20 are no multiples of 16, and only the first pixel's row is computed.
6. **Layer 42's patch rows are longer than their block** (`yolov5n_p5.c:39`): 16
   rows of 320 bytes in 16 times 288, at the end of the arena.
7. **The sparse C2f computes too few points**: 3 by 3 around each sample,
   while Detect, two 3x3 layers deep, reads 5 by 5. The checkers expect hashes
   taken from such runs.
8. **A finished job can be claimed** (`agentws/bin/job-claim:86`). The status is
   read before the mkdir and not again; if the job was claimed and ended in
   between, the lock is free and the job runs a second time.

Findings 3 to 6 spoil the maps that reach the demo's sink, which `SinksExact`
says are exact; the counterexample names the sites in `bad`. All were found by reading
the definitions against the code that generates the test cases, and the trace
of `yolo_heads` is one ordinary run of the demo. (TLC prints the whole program in
every state; what changes is `pc`, `mem` and `verdict`.)

## 6. Assumptions

* Global atomics and fences make the accesses to ready words, `armed`, `bell`,
  `state` and the counters sequentially consistent.
* The channel descriptor is coherent: a hart reads its plain fields only after
  a global atomic on the same line, which is assumed to drop its cached copy.
  If it does not, `len`, `buf` and `turn` are exposed as the mailbox is.
* A hart's run queue is its own memory (`RunQueue`). In the code the entries of
  neighbouring harts share a cache line (`scheduler.c:13`), and each hart flushes
  it under the lock of its own entry; this is safe only if a write-back carries
  no more than the bytes the hart has written, which the manual leaves open.
* Programs keep to `Stable` (`Channel.tla`): a sender that runs on while its
  receiver reads must not refill the buffer being read, so without storage it
  needs two buffers, and it cannot work in place in a single one. A program
  that waits for a reply before it refills (`tests/tpa_msg/race.c`) needs less.
* Messages fit the channel; other lengths end in `channel_bug`. (`MessagesFit`
  shows it of the network programs.)
* Numbers are left out of `TensorKernels`: a layer with the right taps,
  weights, lookup tables and requantisation computes the right node. The kernels
  that are compiled in but not called for any layer are left out too.
* `EdgePlan` places all messages in one pool, and takes objects of equal size in
  the order of their process numbers or against it. A schedule may start equal
  producers in other orders; these are two of them.
* A program's outside sources send what the image holds, and the sink's maps stay
  where they are for the host (`keeps`).
* A tensor error comes in some kernel of a stage and the stage's buffers are then of
  no use to anybody, since it sends nothing: what it has written before is left out.
  `TEST_FAIL` is a marker on Erbium and the other processes go on; on ET-SoC-1 it
  ends the run. `Network` lets them go on, which includes an end at any point.
* `JobQueue`: writing a short file, mkdir and rmdir are atomic, and an agent
  identifier is not used again after its agent has exited; none of them is `none`
  (`NameAssumption`), which stands for a missing `agent.id`. `Quiet` says that
  nothing happens at a job between the look and the mkdir of a claim (finding 8
  without it), and that the operator resets or reaps no job that a live
  agent's script is at. Without the second, a reset that writes `pending` last
  undoes what the owner has written meanwhile; job-reap leaves this to a long
  time limit.
* `Network` takes programs that are `WellBuilt` (`ProgramsAssumption`). The graph
  has no cycle, since `map_program.py:716` refuses one; each port is connected,
  and an input once; a process receives all its inputs, then computes, then sends,
  once on each port; and of the processes with inputs only what the planner takes
  for a forwarder sends on what it received or sends without having computed. The `.tpp` files and the
  continuations of `yolov5n/` and `yolov8n/` are of this form: TLC evaluates the
  assumption on all 15 programs. A process that computed on one input while it
  waits for another, or that sent on a message under another kind than
  `fork2`, would break it, and with it the placement.

## 7. Proofs

Checked by TLAPS for every value of the constants that satisfies the named
assumptions in the modules.

* **DoorbellProofs** - `TypeCorrect`; `Inductive`: `IInv` is an invariant;
  `NoLostWakeupHolds`, `WakeAccountedHolds`, `QueueExactHolds`. That no wakeup is
  lost is not inductive. What is: a set bell is backed by a credit, by a waker
  about to post one, or by a hart on its way to take the bell (`BellBacked`); a
  ready bit that the armed hart's scan has passed is backed by a bell, a credit or
  a waker (`ReadyBacked`); the end of the run likewise (`OverBacked`); and the
  credits never wrap (`CreditBound`). A stalled hart without a credit has neither
  a taken bell nor one just consumed, so somebody is on his way.
* **ChannelProofs** - `TypeCorrect`, `Inductive`, `ProtocolHolds`,
  `NoStrayWakeHolds`, `IntactHolds` and `Implements` (`Spec => Abs!Safety`).
  Ownership of the channel (`Protocol`) and of wakes (`NoStrayWake`) are inductive
  together. `Intact` needs where each message lives (`Home`), that turns
  follow deliveries (`Turns`), and that both sides count alike (`Counts`): a
  sender can be at most one message ahead, and the parity of the buffers does
  the rest.
* **MailboxCacheProofs** - `TypeCorrect`, `OneWriterHolds` and `PostKeptHolds`
  for every part and layout: they rest on `WInv`, that a dirty copy is one of a line
  its hart has stored to and not flushed yet (`DirtOK`), and that the protocol
  gives each line one such hart at a time. `Inductive` and `ReceivedHolds` have the
  hypotheses `EvictDest = "L2"` and `~TwoShires`; without the first the run
  `mailbox_erbium` is a counterexample, without the second `mailbox_fabric`.
  `IInv` adds that a clean line of the L2 is what memory holds (`L2Clean`),
  and for each phase of the hand-off where the last value of the message is
  (`Fresh`, then `Settled`) and that its reader has no old copy (`Sees`).
* **RunQueueProofs** - `Inductive`, `LinkedHolds`, `QueueExactHolds`,
  `WakeMeetsWaitHolds`. The list is a list only because no linked node is
  pushed (`Once`), which rests on a ready bit being taken only for a waiting
  process (`WakeMeetsWait`) and on the hart's place in its loop (`PhaseOK`).
  `NeverOvertakenHolds`, an action property: a queued process keeps its place or
  comes one nearer to the head, and from the head it runs. So it waits only for
  those in front of it, once for each, however often they yield; what is left of
  `ReadyRuns` is that the hart goes on.
* **LifecycleProofs** - `Inductive`, `TypeCorrect`, `StartsOnceHolds`,
  `LiveExactHolds`, `VerdictTrueHolds`, and `VerdictFinal`, an action property: a
  reported verdict is never replaced. The counter is exact from the moment
  the initialising hart sets it, before it publishes (`LiveCounts`), which needs
  that this hart is the only one (`OneStarter`) and that nothing has moved before
  (`Fresh`). The verdict is true because a hart leaves its loop only after
  it has seen the end (`SawOver`) and `failed` tells of every failure
  (`FailedExact`).
* **JobQueueProofs** - `Inductive`, `ClaimableHolds`, `OneActiveHolds` and
  `FinishedStaysHolds`, all under `Quiet`, for any number of agents and jobs.
  Without `Quiet` the run `jobs_claim` refutes the last. What is inductive is that
  what is left of each live script fits its job, and that nobody else is at that
  job but to try for its lock (`Undisturbed`). An agent killed between any two
  operations leaves a job that this says nothing of, which is why `Claimable`
  has its exception for the claim that made the lock.
* **EdgePlanProofs** - `Descendants`: `Reachability` is the transitive closure of
  the connections, so as many rounds as there are processes are enough;
  `PlanSound`: first fit puts two messages into the same bytes only if `Disjoint`
  says so, for every acyclic program and both orders of equal objects. The lemmas
  on the way show that the three recursive functions are well defined: `ReachRule`;
  `RootRule`, resolve_root ends since a forwarder's input comes before it;
  `PlanPlaces`, there is always a first object left and an offset for it.
  `SearchEnds`: the loop of the code, which jumps from one conflicting object's
  end to the next, only goes forward, never past the offset that `Offset`
  chooses, and stops there; it does not matter which conflict it finds first.
* **NetworkProofs** - `Inductive`, `TypeCorrect` and `StorageKeptHolds`, for every
  set of well-built programs and every interleaving. `StorageKept` is not
  inductive; what is: whatever has been received has been sent (`SentFirst`), and
  a process that has all its inputs comes after a send of each process that it is
  reachable from (`InOrder`). By `PlanSound` the producer of one message comes
  after every consumer of the other. When it begins to write it has its inputs,
  so each of those consumers has sent. A consumer that has sent has
  computed, and reads its input again only to send it on; then it is a forwarder,
  whoever gets that message is a consumer too, has sent, so has received it.
  `NeverStuckHolds`: in a program with one order of connections
  (`InOneOrder`) there is no circle of waits, whatever the stages compute. When
  nobody can go on, take, of the connections not yet passed at both ends, one
  that none of the others comes before. Its two processes wait at it, and it is ready; or its
  sender has given up and has reported so (`SentMeets`); or its sender is one of
  `p0` to `p3`, which stop without a report when a kernel returns -1: the exception that
  the property names. Tensor errors, in any number, are included.
  `PassEarnedHolds`: a reported pass comes from a process that is behind none of those
  that have given up. Who has given up has stopped before its sends, so nothing
  of what it makes gets through to anybody, directly or through other stages, and who
  waits for it has not come to its own run, check or send (`Cut`, inductive). A pass
  is reported only behind a run or a check of a process that has all its
  inputs and has not given up (`Announced`), so by `Cut` no stage it is behind has.
  `DeterminateHolds`: every execution follows any solution of the program's
  equations, operation by operation, because a receive gets what the solution says
  its sender holds at that send, and a run is a function of what is held. So the
  order in which a scheduler takes the processes changes no buffer, message or
  check. `NothingMiswiredHolds`, `OtherKernelsExactHolds`,
  `MessagesFitHolds`, `DeliveredHolds` and `EndsWellHolds` carry what is
  right of the solution over to all executions. The last says that, where no tensor
  error comes (`prog.errors = 0`), a network comes to rest only at its end, with a pass
  and nothing else reported: what `Completes` says, but for that it comes to rest.

  The hypotheses `InOneOrder` and `FlowRight` of these theorems are facts about a
  program's text: they speak of `prog` alone, which never changes. They are not assumptions
  of a module, since they are false of some well-built programs (a fork that copies
  in the wrong order, a swapped connection). TLC evaluates both for each
  of the 15 programs of the repository, as invariants of the run `yolo`. A further
  `.tpp` file needs this evaluation and no exploration of its interleavings.

  The kernels, for every layer of the stated form: `PackedExact`, each slot
  of a packed row holds the pixel of its own tap (the slots lie next to each other,
  so the copy of a later tap spoils no earlier one, and the block's walk comes to the
  pixel's own row and column); `CommonStaysInside`, the guards of
  `yolov5n_common.c` are enough for the scratch block; `MaxPoolExact`, the two passes
  of the pooling cover the 5 by 5 window on maps of every size.

Lemmas are proved from the library's facts about finite sets and functions.
Its induction theorems take an operator as a parameter, which none of the provers
can instantiate; `NatSetInduction` of `EdgePlanProofs` states induction for a set
instead, from the well-foundedness of `<`, and is what the facts about
`Reachability`, `RootOf` and `Plan` rest on. No module uses a RECURSIVE operator.

Only model-checked: liveness (fairness and ENABLED are out of the prover's
reach); `InOneOrder` and `FlowRight`, which are facts of the repository's own programs
and false of others; and `ScratchFits`, which is one of each stage's layout (the
blocks of its arena) and fails at the known site. The run `yolo` is complete for
them but for the samples named in section 3. The rounds of `Flow` are evaluated
and not proved to end in a solution: the theorems take any solution, and
`FlowRight` includes that this is one.

## 8. Not modelled, and the plan

In the order in which it matters:

1. `MailboxCache` with two shires and an eviction to memory, which the model does
   not have yet, and `ReceivedHolds` for it.
2. The planner's mapping: the legality of the schedule of `map_program.py` on
   small graphs, and pools of several shires in `EdgePlan`.
3. **CacheRange**: the lines that `tpa_hal_flush` and `tpa_hal_evict` touch, against
   the lines a range has.
4. The run queues of two harts in one cache line, over a cache as in
   `MailboxCache`, with and without byte masks.
5. A wake for a slot whose hart has not booted yet, with `Doorbell`.
6. A hart's own tensor loads and stores against its cache (the evictions around
   `tensor_store` in the YOLOv5n kernels).

Left out for good: image generation (text; what it emits is the initial state
of `Channel`, `Lifecycle` and `Network`), the host launcher (calls into an
external driver), boot code, the assembly of the kernels and the arithmetic of
quantisation (numbers, not control), the depth and attention demos (pipelines in the
manner of the networks, whose stages are one numerical loop each), lookup tables and weights, test
generators, the scripts of the job queue that only list or wait, and `docs/archive`.
