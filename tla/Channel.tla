------------------------------ MODULE Channel ------------------------------
(***************************************************************************)
(* One channel of tpa/lib/src/channel.c between two processes, with the    *)
(* process operations of tpa/lib/src/process.c that park a process, leave  *)
(* a message in its mailbox and complete its wait.                         *)
(*                                                                         *)
(* The transmitter sends messages 1, 2, ... and the receiver receives      *)
(* them; each runs on its own hart (two processes of one hart have fewer   *)
(* interleavings).  Memory is coherent here: what flush and evict must do  *)
(* for that is the subject of module MailboxCache.  That a ready bit gets  *)
(* its process to run is the subject of module Doorbell.                   *)
(*                                                                         *)
(* A read of the channel state followed by a compare-exchange from the     *)
(* value read is one step: the loop retries when the exchange fails.       *)
(* Lengths are within the capacity, so no channel_bug is reached.          *)
(***************************************************************************)
EXTENDS Integers

CONSTANTS
  Config,   \* the channels studied
  NrMsgs    \* bound: messages sent in a behaviour

(* A channel has 0, 1 or 2 storage buffers, and its program fills messages *)
(* in one workspace buffer, in two of them in turn, or in place in the     *)
(* storage that tpa_send_buf returns.                                      *)
Source    == {"one", "two", "inplace"}
ConfigSet == [nrbuf : 0 .. 2, src : Source]

(* A sender that runs on while the receiver still reads must not refill    *)
(* the buffer being read: without storage it needs two buffers, and it     *)
(* cannot work in place in a single one.                                   *)
Stable(c) == /\ c.nrbuf = 0 => c.src = "two"
             /\ c.nrbuf = 1 => c.src # "inplace"

ASSUME ConfigAssumption == Config \subseteq {c \in ConfigSet : Stable(c)}
ASSUME MsgsAssumption   == NrMsgs \in Nat

NoBuf == "none"                             \* a null pointer
Work(i)    == IF i = 0 THEN "w0" ELSE "w1"   \* the sender's own buffers
Storage(i) == IF i = 0 THEN "b0" ELSE "b1"   \* ch->bufv
Buf        == {"w0", "w1", "b0", "b1"}

VARIABLES
  cfg,            \* the channel's configuration; never changes
  state,          \* ch->state
  chBuf, turn,    \* ch->buf, ch->turn
  mem,            \* the message in each buffer
  txpc, txBuf,    \* the sender, and op->buf
  rxpc, rxBuf,    \* the receiver, and the pointer its operation delivered
  bufp,           \* the receiver's p->bufp: 1 while it waits for a message
  msgReady, msgBuf,   \* the receiver's mailbox
  ready,          \* processes whose ready bit is set
  sent, rcvd      \* operations completed by either side

chanVars == <<state, chBuf, turn>>
txVars   == <<txpc, txBuf, sent>>
rxVars   == <<rxpc, rxBuf, rcvd>>
boxVars  == <<bufp, msgReady, msgBuf>>
vars     == <<cfg, state, chBuf, turn, mem, txpc, txBuf, rxpc, rxBuf, bufp,
              msgReady, msgBuf, ready, sent, rcvd>>

ChState == {"empty", "tx", "waitTx", "rx", "waitRx"}
TxPc    == {"fill", "send", "offer", "park", "publish", "parked",
            "deliver", "message", "release", "wake", "self"}
RxPc    == {"recv", "park", "publish", "parked", "take", "release", "wake", "self", "use"}

Init ==
  /\ cfg \in Config
  /\ state = "empty" /\ chBuf = NoBuf /\ turn = 0
  /\ mem = [b \in Buf |-> 0]
  /\ txpc = "fill" /\ txBuf = NoBuf
  /\ rxpc = "use" /\ rxBuf = NoBuf
  /\ bufp = 0 /\ msgReady = 0 /\ msgBuf = NoBuf
  /\ ready = {} /\ sent = 0 /\ rcvd = 0

-----------------------------------------------------------------------------
\* channel_rbuf: the storage buffer whose turn it is.
Rbuf == IF cfg.nrbuf = 0 THEN NoBuf ELSE Storage(turn)

\* Mutant: the turn never changes.
MutNoRotate == turn

\* channel_rotate_buf.
Rotated == IF cfg.nrbuf > 1 THEN 1 - turn ELSE turn

\* channel_deliver_buf: without storage the receiver gets the sender's own
\* buffer; with storage the message is copied, unless it is there already.
Deliver(src) ==
  IF cfg.nrbuf = 0 THEN UNCHANGED <<mem, turn>>
  ELSE mem' = [mem EXCEPT ![Rbuf] = mem[src]] /\ turn' = Rotated
Delivered(src) == IF cfg.nrbuf = 0 THEN src ELSE Rbuf

\* The buffer the program prepares its next message in.
FillBuf == IF cfg.src = "inplace" THEN Rbuf
           ELSE Work(IF cfg.src = "two" THEN sent % 2 ELSE 0)

-----------------------------------------------------------------------------
(* The transmitter: channel_send_handoff.                                  *)

\* The program fills the next message and returns tpa_send.
Fill ==
  /\ txpc = "fill" /\ sent < NrMsgs
  /\ txBuf' = FillBuf
  /\ mem' = [mem EXCEPT ![FillBuf] = sent + 1]
  /\ txpc' = "send"
  /\ UNCHANGED <<cfg, chanVars, sent, rxVars, boxVars, ready>>

\* EMPTY -> TX: nobody waits, the sender will; WAIT_RX -> TX: it delivers.
\* In the states TX and RX it spins.
ClaimTx(from, to) ==
  /\ txpc = "send" /\ state = from
  /\ state' = "tx"
  /\ txpc' = to
  /\ UNCHANGED <<cfg, chBuf, turn, mem, txBuf, sent, rxVars, boxVars, ready>>

\* ch->buf = op->buf; ch->len = op->len.
Offer ==
  /\ txpc = "offer"
  /\ chBuf' = txBuf
  /\ txpc' = "park"
  /\ UNCHANGED <<cfg, state, turn, mem, txBuf, sent, rxVars, boxVars, ready>>

\* tpa_process_wait_send: from here on the process is TPA_PROCESS_WAIT.
ParkTx ==
  /\ txpc = "park"
  /\ txpc' = "publish"
  /\ UNCHANGED <<cfg, chanVars, mem, txBuf, sent, rxVars, boxVars, ready>>

\* Mutant: the sender offers its message and runs on without waiting.
MutPublishTx ==
  /\ txpc = "publish"
  /\ state' = "waitTx"
  /\ txpc' = "self"
  /\ UNCHANGED <<cfg, chBuf, turn, mem, txBuf, sent, rxVars, boxVars, ready>>

\* channel_set_state(ch, WAIT_TX).
PublishTx ==
  /\ txpc = "publish"
  /\ state' = "waitTx"
  /\ txpc' = "parked"
  /\ UNCHANGED <<cfg, chBuf, turn, mem, txBuf, sent, rxVars, boxVars, ready>>

\* channel_deliver_buf(ch, op->buf).
DeliverTx ==
  /\ txpc = "deliver"
  /\ Deliver(txBuf)
  /\ txBuf' = Delivered(txBuf)
  /\ txpc' = "message"
  /\ UNCHANGED <<cfg, state, chBuf, sent, rxVars, boxVars, ready>>

\* Mutant: the mailbox is filled and not marked ready.
MutPublishMsg ==
  /\ txpc = "message"
  /\ msgBuf' = txBuf
  /\ txpc' = "release"
  /\ UNCHANGED <<cfg, chanVars, mem, txBuf, sent, rxVars, bufp, msgReady, ready>>

\* tpa_process_publish_msg on the receiver.
PublishMsg ==
  /\ txpc = "message"
  /\ msgReady' = 1 /\ msgBuf' = txBuf
  /\ txpc' = "release"
  /\ UNCHANGED <<cfg, chanVars, mem, txBuf, sent, rxVars, bufp, ready>>

\* channel_set_state(ch, EMPTY), before the receiver is woken.
ReleaseTx ==
  /\ txpc = "release"
  /\ state' = "empty"
  /\ txpc' = "wake"
  /\ UNCHANGED <<cfg, chBuf, turn, mem, txBuf, sent, rxVars, boxVars, ready>>

\* wake_ep(&ch->rx).
WakeRx ==
  /\ txpc = "wake"
  /\ ready' = ready \cup {"rx"}
  /\ txpc' = "self"
  /\ UNCHANGED <<cfg, chanVars, mem, txBuf, sent, rxVars, boxVars>>

\* Mutant: the running sender also gets a ready bit.
MutContinueTx ==
  /\ txpc = "self"
  /\ sent' = sent + 1
  /\ txpc' = "fill"
  /\ ready' = ready \cup {"tx"}
  /\ UNCHANGED <<cfg, chanVars, mem, txBuf, rxVars, boxVars>>

\* run_proc(p, op->next): the sender is queued and runs its continuation.
ContinueTx ==
  /\ txpc = "self"
  /\ sent' = sent + 1
  /\ txpc' = "fill"
  /\ UNCHANGED <<cfg, chanVars, mem, txBuf, rxVars, boxVars, ready>>

\* A reload on its hart finds the ready bit of the parked sender.
ResumeTx ==
  /\ txpc = "parked" /\ "tx" \in ready
  /\ ready' = ready \ {"tx"}
  /\ sent' = sent + 1
  /\ txpc' = "fill"
  /\ UNCHANGED <<cfg, chanVars, mem, txBuf, rxVars, boxVars>>

-----------------------------------------------------------------------------
(* The receiver: channel_recv_handoff.                                     *)

\* The program has done with its message and returns tpa_recv.
Recv ==
  /\ rxpc = "use" /\ rcvd < NrMsgs
  /\ rxBuf' = NoBuf
  /\ rxpc' = "recv"
  /\ UNCHANGED <<cfg, chanVars, mem, txVars, rcvd, boxVars, ready>>

\* Mutant: the state is tested and not exchanged.
MutClaimRx(from, to) ==
  /\ rxpc = "recv" /\ state = from
  /\ rxpc' = to
  /\ UNCHANGED <<cfg, chanVars, mem, txVars, rxBuf, rcvd, boxVars, ready>>

\* EMPTY -> RX: the receiver will wait; WAIT_TX -> RX: it takes the message.
ClaimRx(from, to) ==
  /\ rxpc = "recv" /\ state = from
  /\ state' = "rx"
  /\ rxpc' = to
  /\ UNCHANGED <<cfg, chBuf, turn, mem, txVars, rxBuf, rcvd, boxVars, ready>>

\* tpa_process_wait_recv: an empty mailbox, then TPA_PROCESS_WAIT.
ParkRx ==
  /\ rxpc = "park"
  /\ bufp' = 1 /\ msgReady' = 0 /\ msgBuf' = NoBuf
  /\ rxpc' = "publish"
  /\ UNCHANGED <<cfg, chanVars, mem, txVars, rxBuf, rcvd, ready>>

\* channel_set_state(ch, WAIT_RX).
PublishRx ==
  /\ rxpc = "publish"
  /\ state' = "waitRx"
  /\ rxpc' = "parked"
  /\ UNCHANGED <<cfg, chBuf, turn, mem, txVars, rxBuf, rcvd, boxVars, ready>>

\* channel_deliver_buf(ch, ch->buf) and *op->bufp = buf.
Take ==
  /\ rxpc = "take"
  /\ Deliver(chBuf)
  /\ rxBuf' = Delivered(chBuf)
  /\ rxpc' = "release"
  /\ UNCHANGED <<cfg, state, chBuf, txVars, rcvd, boxVars, ready>>

\* channel_set_state(ch, EMPTY), before the sender is woken.
ReleaseRx ==
  /\ rxpc = "release"
  /\ state' = "empty"
  /\ rxpc' = "wake"
  /\ UNCHANGED <<cfg, chBuf, turn, mem, txVars, rxBuf, rcvd, boxVars, ready>>

\* wake_ep(&ch->tx).
WakeTx ==
  /\ rxpc = "wake"
  /\ ready' = ready \cup {"tx"}
  /\ rxpc' = "self"
  /\ UNCHANGED <<cfg, chanVars, mem, txVars, rxBuf, rcvd, boxVars>>

\* tpa_process_complete_wait: only a process with a bufp takes its mailbox;
\* a mailbox that is not ready delivers a null pointer.
Complete ==
  /\ rxBuf' = IF bufp = 0 THEN rxBuf ELSE IF msgReady = 1 THEN msgBuf ELSE NoBuf
  /\ bufp' = 0
  /\ IF bufp = 0 THEN UNCHANGED <<msgReady, msgBuf>> ELSE msgReady' = 0 /\ msgBuf' = NoBuf

\* run_proc(p, op->next): complete_wait, then the continuation reads.
ContinueRx ==
  /\ rxpc = "self"
  /\ Complete
  /\ rcvd' = rcvd + 1
  /\ rxpc' = "use"
  /\ UNCHANGED <<cfg, chanVars, mem, txVars, ready>>

\* A reload on its hart finds the ready bit of the parked receiver.
ResumeRx ==
  /\ rxpc = "parked" /\ "rx" \in ready
  /\ Complete
  /\ ready' = ready \ {"rx"}
  /\ rcvd' = rcvd + 1
  /\ rxpc' = "use"
  /\ UNCHANGED <<cfg, chanVars, mem, txVars>>

-----------------------------------------------------------------------------
TxOp == \/ ClaimTx("empty", "offer") \/ ClaimTx("waitRx", "deliver")
        \/ Offer \/ ParkTx \/ PublishTx
        \/ DeliverTx \/ PublishMsg \/ ReleaseTx \/ WakeRx \/ ContinueTx
        \/ ResumeTx
RxOp == \/ ClaimRx("empty", "park") \/ ClaimRx("waitTx", "take")
        \/ ParkRx \/ PublishRx
        \/ Take \/ ReleaseRx \/ WakeTx \/ ContinueRx
        \/ ResumeRx

Next == Fill \/ TxOp \/ Recv \/ RxOp

\* Harts run: an operation that a process has issued is carried on with.
\* Whether a program issues another one is its own choice.
Spec == Init /\ [][Next]_vars /\ WF_vars(TxOp) /\ WF_vars(RxOp)

-----------------------------------------------------------------------------
(* Properties.                                                             *)

\* Type invariant.
TypeOK ==
  /\ cfg \in Config
  /\ state \in ChState /\ chBuf \in Buf \cup {NoBuf} /\ turn \in {0, 1}
  /\ mem \in [Buf -> Nat]
  /\ txpc \in TxPc /\ txBuf \in Buf \cup {NoBuf}
  /\ rxpc \in RxPc /\ rxBuf \in Buf \cup {NoBuf}
  /\ bufp \in {0, 1} /\ msgReady \in {0, 1} /\ msgBuf \in Buf \cup {NoBuf}
  /\ ready \subseteq {"tx", "rx"}
  /\ sent \in Nat /\ rcvd \in Nat

\* Which control points own the channel in each of its states, and how a
\* parked process is released: by its peer's claim, or by its ready bit.
TxOwns   == {"offer", "park", "publish", "deliver", "message", "release"}
RxOwns   == {"park", "publish", "take", "release"}
TxServes == {"deliver", "message", "release", "wake"}
RxServes == {"take", "release", "wake"}
Protocol ==
  /\ state = "tx" <=> txpc \in TxOwns
  /\ state = "rx" <=> rxpc \in RxOwns
  /\ state = "waitTx" => txpc = "parked" /\ "tx" \notin ready /\ rxpc \notin RxServes
  /\ state = "waitRx" => rxpc = "parked" /\ "rx" \notin ready /\ txpc \notin TxServes
  /\ txpc = "parked" => state = "waitTx" \/ "tx" \in ready \/ rxpc \in RxServes
  /\ rxpc = "parked" => state = "waitRx" \/ "rx" \in ready \/ txpc \in TxServes

\* No stray wake: a ready bit is set, or about to be set, only for a process
\* that is parked and has no ready bit yet.  A second or an early wake would
\* queue the process twice, since tpa_reload does not test for WAIT.
NoStrayWake ==
  /\ "tx" \in ready => txpc = "parked" /\ rxpc \notin RxServes
  /\ "rx" \in ready => rxpc = "parked" /\ txpc \notin TxServes
  /\ rxpc \in RxServes => txpc = "parked"
  /\ txpc \in TxServes => rxpc = "parked"
  /\ ~ ("tx" \in ready /\ "rx" \in ready)

\* What the receiver reads, at any time until its next receive, is the
\* message that was sent in that place, however far the sender has run on.
Intact == rxpc = "use" /\ rcvd > 0 => rxBuf # NoBuf /\ mem[rxBuf] = rcvd

\* Both sides count the same messages, up to those a side has yet to notice.
One(b) == IF b THEN 1 ELSE 0
Counts == rcvd + One(rxpc = "self") + One("rx" \in ready)
            = sent + One(txpc = "self") + One("tx" \in ready)

\* The sender's message is in its buffer until it has been handed over.
Offered   == txpc = "parked" /\ (state = "waitTx" \/ rxpc = "take")
SendReady ==
  /\ txpc \in {"send", "offer", "park", "publish", "deliver", "message"} \/ Offered
       => txBuf \in Buf /\ mem[txBuf] = sent + 1
  /\ txpc \in {"park", "publish"} \/ Offered => chBuf = txBuf
  /\ txpc \in {"send", "offer", "park", "publish", "deliver"} \/ Offered
       => (cfg.src = "two" => txBuf = Work(sent % 2))

\* Message n is read in Home(n): successive messages share a buffer only
\* where the sender cannot have begun to write the next one there.
Home(n) == IF cfg.nrbuf = 0 THEN Work((n - 1) % 2)
           ELSE Storage(IF cfg.nrbuf = 1 THEN 0 ELSE (n - 1) % 2)
Deliveries == rcvd + One(rxpc \in {"release", "wake", "self"}) + One("rx" \in ready)
                + One(txpc \in {"message", "release", "wake"})
Turns      == turn = IF cfg.nrbuf > 1 THEN Deliveries % 2 ELSE 0

\* The message a receiver has been handed is where its program will look: at
\* the end of the wait in the mailbox, after that at the delivered pointer.
Handed ==
  /\ txpc = "message" => txBuf = Home(sent + 1)
  /\ txpc \in {"release", "wake"} \/ "rx" \in ready
       => msgReady = 1 /\ msgBuf = Home(rcvd + 1) /\ mem[msgBuf] = rcvd + 1
  /\ rxpc \in {"release", "wake", "self"} => rxBuf = Home(rcvd + 1) /\ mem[rxBuf] = rcvd + 1
  /\ rxpc = "use" /\ rcvd > 0 => rxBuf = Home(rcvd) /\ mem[rxBuf] = rcvd
  /\ bufp = One(rxpc \in {"publish", "parked"})
  /\ rcvd = 0 /\ rxpc = "use" => rxBuf = NoBuf

\* The inductive invariant behind Intact and IsRendezvous.
IInv == TypeOK /\ Protocol /\ NoStrayWake /\ Counts /\ SendReady /\ Turns /\ Handed

\* The channel as a rendezvous: a message has met its receive once the later
\* side has claimed the channel, and stays met as either side completes it.
SendsIssued == sent + One(txpc # "fill")
RecvsIssued == rcvd + One(rxpc # "use")
TxMet == sent + One(txpc \in TxServes \cup {"self"})
RxMet == rcvd + One(rxpc \in RxServes \cup {"self"})
Met   == IF TxMet > RxMet THEN TxMet ELSE RxMet
Held  == IF rxpc = "use" /\ rxBuf # NoBuf THEN mem[rxBuf] ELSE 0

Abs == INSTANCE Rendezvous WITH
  sends <- SendsIssued, recvs <- RecvsIssued, met <- Met, held <- Held

\* The channel implements Rendezvous: neither side runs on before both have
\* come, messages are received in order and read unchanged, and two sides
\* that want to communicate both complete.
IsRendezvous == Abs!Spec
=============================================================================
