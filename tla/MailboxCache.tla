---------------------------- MODULE MailboxCache ----------------------------
(***************************************************************************)
(* The cache maintenance of one channel whose two processes run on harts   *)
(* of different minions: which lines the runtime flushes and evicts, and   *)
(* when, so that a message crosses caches that no hardware keeps coherent. *)
(* The rendezvous is that of module Channel, in fewer steps.               *)
(*                                                                         *)
(* The hierarchy is that of docs/et-programmers-reference-manual.txt: an   *)
(* L1 per minion, an L2 per shire, and memory behind them (the L3 is on    *)
(* the memory side).  A line is written back and dropped by any level at   *)
(* any moment (Displace).  The receiver's mailbox fills its own line.      *)
(*                                                                         *)
(* The channel descriptor is taken as coherent: a hart reads it only after *)
(* a global atomic on the same line, which is assumed to drop its copy.    *)
(***************************************************************************)
EXTENDS Integers, Sequences, FiniteSets

CONSTANTS
  EvictDest,    \* the level tpa_hal_evict names: L1 on Erbium, L2 on ET-SoC-1
  TwoShires,    \* whether the two harts are in different shires
  Storages,     \* subset of BOOLEAN: with two storage buffers, or with none
  NrMsgs        \* bound: messages sent in a behaviour

ASSUME CacheAssumption ==
  /\ EvictDest \in {"L1", "L2"}
  /\ TwoShires \in BOOLEAN
  /\ Storages \subseteq BOOLEAN
  /\ TwoShires => Storages = {TRUE}     \* fabric channels require storage
  /\ NrMsgs \in Nat

Hart       == {"tx", "rx"}
Shire(h)   == IF TwoShires THEN h ELSE "one"
Shires     == {Shire(h) : h \in Hart}

(* Lines: the mailbox, the sender's two buffers, used in turn, and the     *)
(* channel's storage.  The mailbox holds a buffer's line, or 0 while       *)
(* msg_ready is 0; a buffer holds the number of a message.                 *)
Box       == 0
Own(n)    == 1 + (n % 2)
Stored(t) == 3 + t
Line      == 0 .. 4

Copy     == [here : BOOLEAN, dirty : BOOLEAN, val : Nat]
NoCopy   == [here |-> FALSE, dirty |-> FALSE, val |-> 0]
Clean(v) == [here |-> TRUE, dirty |-> FALSE, val |-> v]
Dirty(v) == [here |-> TRUE, dirty |-> TRUE, val |-> v]

VARIABLES
  l1, l2, mem,          \* the copies of each hart and shire, and memory
  storage,              \* nrbuf is 2; never changes
  chan, chBuf, turn,    \* ch->state, ch->buf, ch->turn
  txpc, sent, txBuf,    \* the sender, its message's number, what it publishes
  rxpc, rxBuf, seen,    \* the receiver, its *bufp (0: null), what it read
  rung                  \* harts whose process has been woken

cacheVars == <<l1, l2, mem>>
chanVars  == <<chan, chBuf, turn>>
txVars    == <<txpc, sent, txBuf>>
rxVars    == <<rxpc, rxBuf, seen>>
vars      == <<cacheVars, storage, chanVars, txVars, rxVars, rung>>

Init ==
  /\ l1 = [h \in Hart |-> [x \in Line |-> NoCopy]]
  /\ l2 = [s \in Shires |-> [x \in Line |-> NoCopy]]
  /\ mem = [x \in Line |-> 0]
  /\ storage \in Storages
  /\ chan = "empty" /\ chBuf = 0 /\ turn = 0
  /\ txpc = "fill" /\ sent = 0 /\ txBuf = 0
  /\ rxpc = "recv" /\ rxBuf = 0 /\ seen = <<>>
  /\ rung = {}

-----------------------------------------------------------------------------
(* The memory hierarchy.                                                   *)

\* What a load by hart h of line x returns.
Value(h, x) == IF l1[h][x].here THEN l1[h][x].val
               ELSE IF l2[Shire(h)][x].here THEN l2[Shire(h)][x].val
               ELSE mem[x]

\* Hart h loads the lines of a set and stores to the lines of a function:
\* lines that miss are allocated in both levels.
Access(h, loads, stores) ==
  /\ l1' = [l1 EXCEPT ![h] = [x \in Line |->
              IF x \in DOMAIN stores THEN Dirty(stores[x])
              ELSE IF x \in loads /\ ~@[x].here THEN Clean(Value(h, x))
              ELSE @[x]]]
  /\ l2' = [l2 EXCEPT ![Shire(h)] = [x \in Line |->
              IF x \in loads \cup DOMAIN stores /\ ~l1[h][x].here /\ ~@[x].here
              THEN Clean(mem[x]) ELSE @[x]]]
  /\ UNCHANGED mem

Load(h, x)     == Access(h, {x}, <<>>)
Store(h, x, v) == Access(h, {}, [y \in {x} |-> v])

\* The level below L1 of hart h receives the value of a dirty line.
WriteBack(h, x) ==
  l2' = [l2 EXCEPT ![Shire(h)][x] = IF l1[h][x].dirty THEN Dirty(l1[h][x].val) ELSE @]

\* tpa_hal_flush of a line, to memory: dirty copies are written through and
\* stay, clean, in every level above.
Flush(h, x) ==
  LET newest == IF l1[h][x].dirty THEN l1[h][x].val ELSE l2[Shire(h)][x].val
      below  == l1[h][x].dirty \/ l2[Shire(h)][x].dirty
  IN /\ l1' = [l1 EXCEPT ![h][x] = IF @.dirty THEN Clean(@.val) ELSE @]
     /\ l2' = [l2 EXCEPT ![Shire(h)][x] = IF below THEN Clean(newest) ELSE @]
     /\ mem' = [mem EXCEPT ![x] = IF below THEN newest ELSE @]

\* tpa_hal_evict of a line: a dirty copy is written back to the level
\* EvictDest and the levels above it drop theirs.  With L1 as the level the
\* instruction does nothing.
Evict(h, x) ==
  /\ l1' = [l1 EXCEPT ![h][x] = IF EvictDest = "L1" THEN @ ELSE NoCopy]
  /\ IF EvictDest = "L1" THEN UNCHANGED l2 ELSE WriteBack(h, x)
  /\ UNCHANGED mem

\* A cache makes room: either level drops a line it holds.
DisplaceL1(h, x) ==
  /\ l1[h][x].here
  /\ WriteBack(h, x)
  /\ l1' = [l1 EXCEPT ![h][x] = NoCopy]
  /\ UNCHANGED <<mem, storage, chanVars, txVars, rxVars, rung>>

DisplaceL2(s, x) ==
  /\ l2[s][x].here
  /\ l2' = [l2 EXCEPT ![s][x] = NoCopy]
  /\ mem' = [mem EXCEPT ![x] = IF l2[s][x].dirty THEN l2[s][x].val ELSE @]
  /\ UNCHANGED <<l1, storage, chanVars, txVars, rxVars, rung>>

-----------------------------------------------------------------------------
(* Storage: channel_copy_to_storage, by either side.                       *)

\* memcpy into the storage buffer whose turn it is.
CopyToStorage(h, from) == Access(h, {from}, [y \in {Stored(turn)} |-> Value(h, from)])

\* The copy is flushed and the turn rotates.
FlushStorage(h) == Flush(h, Stored(turn)) /\ turn' = 1 - turn

-----------------------------------------------------------------------------
(* The sender: its program, then channel_send_handoff.                     *)

TxGoto(from, to) == txpc = from /\ txpc' = to /\ UNCHANGED storage

\* The program writes message sent + 1 and returns tpa_send.
Fill ==
  /\ TxGoto("fill", "flush") /\ sent < NrMsgs
  /\ sent' = sent + 1
  /\ Store("tx", Own(sent + 1), sent + 1)
  /\ UNCHANGED <<txBuf, chanVars, rxVars, rung>>

\* Mutant: the sender leaves its message in its own cache.
MutFlushMsg ==
  /\ TxGoto("flush", "claim")
  /\ UNCHANGED <<cacheVars, sent, txBuf, chanVars, rxVars, rung>>

\* tpa_hal_flush(op->buf, op->len), before the channel is looked at.
FlushMsg ==
  /\ TxGoto("flush", "claim")
  /\ Flush("tx", Own(sent))
  /\ UNCHANGED <<sent, txBuf, chanVars, rxVars, rung>>

\* EMPTY -> TX: offer the buffer and wait.
TxOffer ==
  /\ chan = "empty" /\ TxGoto("claim", "park")
  /\ chan' = "tx" /\ chBuf' = Own(sent)
  /\ UNCHANGED <<cacheVars, turn, sent, txBuf, rxVars, rung>>

TxPark ==
  /\ TxGoto("park", "parked")
  /\ chan' = "waitTx"
  /\ UNCHANGED <<cacheVars, chBuf, turn, sent, txBuf, rxVars, rung>>

\* WAIT_RX -> TX: the receiver waits, deliver to it.
TxClaim ==
  /\ chan = "waitRx" /\ TxGoto("claim", IF storage THEN "copy" ELSE "post")
  /\ chan' = "tx" /\ txBuf' = Own(sent)
  /\ UNCHANGED <<cacheVars, chBuf, turn, sent, rxVars, rung>>

TxCopy ==
  /\ TxGoto("copy", "flushcopy")
  /\ CopyToStorage("tx", Own(sent)) /\ txBuf' = Stored(turn)
  /\ UNCHANGED <<sent, chanVars, rxVars, rung>>

TxFlushCopy ==
  /\ TxGoto("flushcopy", "post")
  /\ FlushStorage("tx")
  /\ UNCHANGED <<chan, chBuf, sent, txBuf, rxVars, rung>>

\* tpa_process_publish_msg: the mailbox is written ...
Post ==
  /\ TxGoto("post", "flushpost")
  /\ Store("tx", Box, txBuf)
  /\ UNCHANGED <<sent, txBuf, chanVars, rxVars, rung>>

\* Mutant: the message is left in the publisher's cache.
MutFlushPost ==
  /\ TxGoto("flushpost", "release")
  /\ UNCHANGED <<cacheVars, sent, txBuf, chanVars, rxVars, rung>>

\* ... and flushed.
FlushPost ==
  /\ TxGoto("flushpost", "release")
  /\ Flush("tx", Box)
  /\ UNCHANGED <<sent, txBuf, chanVars, rxVars, rung>>

\* The channel is EMPTY again and the receiver is woken.
TxRelease ==
  /\ TxGoto("release", "fill")
  /\ chan' = "empty" /\ rung' = rung \cup {"rx"}
  /\ UNCHANGED <<cacheVars, chBuf, turn, sent, txBuf, rxVars>>

\* The parked sender was woken: its send is complete.
TxResume ==
  /\ "tx" \in rung /\ TxGoto("parked", "fill")
  /\ rung' = rung \ {"tx"}
  /\ UNCHANGED <<cacheVars, chanVars, sent, txBuf, rxVars>>

-----------------------------------------------------------------------------
(* The receiver: channel_recv_handoff and tpa_process_complete_wait.       *)

RxGoto(from, to) == rxpc = from /\ rxpc' = to /\ UNCHANGED storage

\* EMPTY -> RX: wait.
RxClaim ==
  /\ chan = "empty" /\ Len(seen) < NrMsgs /\ RxGoto("recv", "clear")
  /\ chan' = "rx"
  /\ UNCHANGED <<cacheVars, chBuf, turn, txVars, rxBuf, seen, rung>>

\* tpa_process_wait_recv: the mailbox is emptied ...
Clear ==
  /\ RxGoto("clear", "flushclear")
  /\ Store("rx", Box, 0)
  /\ UNCHANGED <<chanVars, txVars, rxBuf, seen, rung>>

\* Mutant: the mailbox is left dirty in the receiver's cache.
MutFlushClear ==
  /\ RxGoto("flushclear", "park")
  /\ UNCHANGED <<cacheVars, chanVars, txVars, rxBuf, seen, rung>>

\* ... and flushed, before the sender can see that the receiver waits.
FlushClear ==
  /\ RxGoto("flushclear", "park")
  /\ Flush("rx", Box)
  /\ UNCHANGED <<chanVars, txVars, rxBuf, seen, rung>>

RxPark ==
  /\ RxGoto("park", "settle")
  /\ chan' = "waitRx"
  /\ UNCHANGED <<cacheVars, chBuf, turn, txVars, rxBuf, seen, rung>>

\* tpa_step ends by flushing the process it ran, mailbox included: by now a
\* sender may be publishing into it.
Settle ==
  /\ RxGoto("settle", "parked")
  /\ Flush("rx", Box)
  /\ UNCHANGED <<chanVars, txVars, rxBuf, seen, rung>>

\* tpa_reload completes the woken receiver's wait: the mailbox is evicted,
RxResume ==
  /\ "rx" \in rung /\ RxGoto("parked", "look")
  /\ rung' = rung \ {"rx"}
  /\ Evict("rx", Box)
  /\ UNCHANGED <<chanVars, txVars, rxBuf, seen>>

\* read: an empty one gives the program a null pointer,
Look ==
  /\ RxGoto("look", IF Value("rx", Box) = 0 THEN "tidy" ELSE "drop")
  /\ Load("rx", Box)
  /\ rxBuf' = Value("rx", Box)
  /\ UNCHANGED <<chanVars, txVars, seen, rung>>

\* the message's own lines are evicted,
DropMsg ==
  /\ RxGoto("drop", "tidy")
  /\ Evict("rx", rxBuf)
  /\ UNCHANGED <<chanVars, txVars, rxBuf, seen, rung>>

\* and the mailbox is cleared
Tidy ==
  /\ RxGoto("tidy", "flushtidy")
  /\ Store("rx", Box, 0)
  /\ UNCHANGED <<chanVars, txVars, rxBuf, seen, rung>>

\* and flushed.
FlushTidy ==
  /\ RxGoto("flushtidy", "use")
  /\ Flush("rx", Box)
  /\ UNCHANGED <<chanVars, txVars, rxBuf, seen, rung>>

\* WAIT_TX -> RX: the sender waits, take its message.
RxTake ==
  /\ chan = "waitTx" /\ Len(seen) < NrMsgs /\ RxGoto("recv", "fetch")
  /\ chan' = "rx"
  /\ UNCHANGED <<cacheVars, chBuf, turn, txVars, rxBuf, seen, rung>>

\* tpa_hal_evict(ch->buf, len).
RxFetch ==
  /\ RxGoto("fetch", IF storage THEN "copy" ELSE "release")
  /\ Evict("rx", chBuf) /\ rxBuf' = chBuf
  /\ UNCHANGED <<chanVars, txVars, seen, rung>>

RxCopy ==
  /\ RxGoto("copy", "flushcopy")
  /\ CopyToStorage("rx", chBuf) /\ rxBuf' = Stored(turn)
  /\ UNCHANGED <<chanVars, txVars, seen, rung>>

RxFlushCopy ==
  /\ RxGoto("flushcopy", "release")
  /\ FlushStorage("rx")
  /\ UNCHANGED <<chan, chBuf, txVars, rxBuf, seen, rung>>

\* The channel is EMPTY again and the sender is woken.
RxRelease ==
  /\ RxGoto("release", "use")
  /\ chan' = "empty" /\ rung' = rung \cup {"tx"}
  /\ UNCHANGED <<cacheVars, chBuf, turn, txVars, rxBuf, seen>>

\* The program reads what it was given; a null pointer shows as 0.
Use ==
  /\ RxGoto("use", "recv")
  /\ IF rxBuf = 0 THEN UNCHANGED cacheVars ELSE Load("rx", rxBuf)
  /\ seen' = Append(seen, IF rxBuf = 0 THEN 0 ELSE Value("rx", rxBuf))
  /\ UNCHANGED <<chanVars, txVars, rxBuf, rung>>

-----------------------------------------------------------------------------
TxNext == \/ Fill \/ FlushMsg \/ TxOffer \/ TxPark \/ TxClaim \/ TxCopy
          \/ TxFlushCopy \/ Post \/ FlushPost \/ TxRelease \/ TxResume
RxNext == \/ RxClaim \/ Clear \/ FlushClear \/ RxPark \/ Settle \/ RxResume
          \/ Look \/ DropMsg \/ Tidy \/ FlushTidy \/ RxTake \/ RxFetch
          \/ RxCopy \/ RxFlushCopy \/ RxRelease \/ Use
Displace == \E x \in Line : \/ \E h \in Hart : DisplaceL1(h, x)
                            \/ \E s \in Shires : DisplaceL2(s, x)
Next == TxNext \/ RxNext \/ Displace
Spec == Init /\ [][Next]_vars

-----------------------------------------------------------------------------
\* The type of every variable.
TypeOK ==
  /\ l1 \in [Hart -> [Line -> Copy]] /\ l2 \in [Shires -> [Line -> Copy]]
  /\ mem \in [Line -> Nat] /\ storage \in Storages
  /\ chan \in {"empty", "tx", "waitTx", "rx", "waitRx"}
  /\ chBuf \in Line /\ turn \in {0, 1}
  /\ txpc \in {"fill", "flush", "claim", "park", "parked", "copy", "flushcopy",
               "post", "flushpost", "release"}
  /\ sent \in 0 .. NrMsgs /\ txBuf \in Line
  /\ rxpc \in {"recv", "clear", "flushclear", "park", "settle", "parked", "look",
               "drop", "tidy", "flushtidy", "fetch", "copy", "flushcopy",
               "release", "use"}
  /\ rxBuf \in Line /\ seen \in Seq(Nat)
  /\ rung \subseteq Hart

\* Whatever the caches dropped and kept, the n-th receive gave its program a
\* pointer, not null, and behind it the n-th message: what the flushes and
\* evictions of channel_send_handoff, channel_recv_handoff and
\* tpa_process_complete_wait are for, and what tests/tpa_msg/edge_storage.c
\* asserts of a woken receiver.
Received == \A n \in DOMAIN seen : seen[n] = n

\* Two harts never hold changes of their own to one line: one of them would
\* write over the other's whenever it is displaced.  The mailbox is written
\* by both, and is clean in the receiver's L1 from before WAIT_RX until the
\* message is taken, although tpa_step flushes it in between.
OneWriter == \A x \in Line : ~(l1["tx"][x].dirty /\ l1["rx"][x].dirty)

\* A message published to a receiver that has not looked at it yet.
Posted == txpc = "release" \/ "rx" \in rung \/ rxpc = "look"

\* A published message stays in memory, beyond every cache, until the
\* receiver takes it: nothing the receiver's hart writes back while it is
\* parked replaces it.
PostKept == Posted => mem[Box] # 0

-----------------------------------------------------------------------------
(* The inductive invariants behind these.                                  *)

Delivering == {"copy", "flushcopy", "post", "flushpost", "release"}
Taking     == {"fetch", "copy", "flushcopy", "release"}

\* Who is where, for each state of the channel.
Protocol ==
  /\ chan = "tx" <=> txpc \in {"park"} \cup Delivering
  /\ chan = "rx" <=> rxpc \in {"clear", "flushclear", "park"} \cup Taking
  /\ chan = "waitTx" \/ rxpc \in Taking <=> txpc = "parked" /\ "tx" \notin rung
  /\ chan = "waitRx" \/ txpc \in Delivering
       <=> rxpc \in {"settle", "parked"} /\ "rx" \notin rung
  /\ "tx" \in rung => txpc = "parked"
  /\ "rx" \in rung => rxpc \in {"settle", "parked"}

\* Hart h has stored to line x and not flushed it yet.
Writes(h, x) ==
  \/ h = "tx" /\ txpc = "flush"     /\ x = Own(sent)
  \/ h = "tx" /\ txpc = "flushcopy" /\ x = Stored(turn)
  \/ h = "tx" /\ txpc = "flushpost" /\ x = Box
  \/ h = "rx" /\ rxpc = "flushcopy" /\ x = Stored(turn)
  \/ h = "rx" /\ rxpc \in {"flushclear", "flushtidy"} /\ x = Box

\* A dirty copy is here, and is one of a line that is being written.
DirtOK ==
  /\ \A h \in Hart, x \in Line : l1[h][x].dirty => l1[h][x].here /\ Writes(h, x)
  /\ \A s \in Shires, x \in Line :
       l2[s][x].dirty => l2[s][x].here /\ \E h \in Hart : s = Shire(h) /\ Writes(h, x)

\* What hart h has stored to line x is v, however far down it has moved.
Fresh(h, x, v) ==
  IF l1[h][x].here THEN l1[h][x].dirty /\ l1[h][x].val = v
  ELSE IF l2[Shire(h)][x].dirty THEN l2[Shire(h)][x].val = v
  ELSE mem[x] = v

\* The mailbox holds buffers, and the one that is published until it is taken.
BoxOK ==
  /\ mem[Box] \in Line
  /\ \A h \in Hart : l1[h][Box].val \in Line
  /\ \A s \in Shires : l2[s][Box].val \in Line
  /\ txpc \in {"flushcopy", "post", "flushpost", "release"} => txBuf # 0
  /\ txpc = "flushpost" => Fresh("tx", Box, txBuf)

WInv == TypeOK /\ Protocol /\ DirtOK /\ BoxOK /\ PostKept

\* A message is in memory and in no cache as anything else, but for old clean
\* copies in the L1s.
Settled(x, v) ==
  /\ mem[x] = v
  /\ \A h \in Hart : ~l1[h][x].dirty /\ ~l2[Shire(h)][x].dirty

\* Nor is there an old copy in the L1 of hart h.
Sees(h, x, v) == l1[h][x].here => l1[h][x].val = v

One(b) == IF b THEN 1 ELSE 0
TxBusy == txpc \notin {"fill", "parked"} \/ (txpc = "parked" /\ "tx" \notin rung)
RxHas  == "rx" \in rung \/ rxpc \in {"look", "drop", "tidy", "flushtidy", "use"}
Counts == sent = Len(seen) + One(TxBusy) + One(RxHas)

\* The buffers in which message n may be handed over.
BufOf(n) == {Own(n), Stored(0), Stored(1)}

\* The message of the sender.
TxData ==
  /\ txpc = "flush" => Fresh("tx", Own(sent), sent)
  /\ TxBusy /\ txpc # "flush" => Settled(Own(sent), sent) /\ Sees("tx", Own(sent), sent)
  /\ txpc = "park" \/ chan = "waitTx" \/ rxpc \in Taking => chBuf = Own(sent)
  /\ txpc = "flushcopy" => txBuf = Stored(turn) /\ Fresh("tx", txBuf, sent)
  /\ txpc \in {"post", "flushpost", "release"} => txBuf \in BufOf(sent) /\ Settled(txBuf, sent)
  /\ txpc = "release" => mem[Box] = txBuf

\* The message of the receiver.
RxData ==
  LET n == Len(seen) + 1 IN
  /\ "rx" \in rung \/ rxpc = "look" => mem[Box] \in BufOf(n) /\ Settled(mem[Box], n)
  /\ rxpc = "look" => ~l1["rx"][Box].here
  /\ rxpc = "copy" => Sees("rx", chBuf, n)
  /\ rxpc = "flushcopy" => rxBuf = Stored(turn) /\ Fresh("rx", rxBuf, n)
  /\ rxpc \in {"drop", "tidy", "flushtidy", "release", "use"}
       => rxBuf \in BufOf(n) /\ Settled(rxBuf, n)
  /\ rxpc \in {"tidy", "flushtidy", "release", "use"} => Sees("rx", rxBuf, n)

\* A clean line of the L2 is what memory holds, if there is one L2.
L2Clean == \A s \in Shires, x \in Line :
             l2[s][x].here /\ ~l2[s][x].dirty => l2[s][x].val = mem[x]

IInv == WInv /\ L2Clean /\ Counts /\ TxData /\ RxData /\ Received
=============================================================================
