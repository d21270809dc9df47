--------------------------- MODULE ChannelProofs ---------------------------
(***************************************************************************)
(* Proofs about Channel for every set of channel configurations that keep  *)
(* to the buffer discipline and for every number of messages.              *)
(***************************************************************************)
EXTENDS Channel, TLAPS

\* Alternating between two buffers never meets the same one twice running.
LEMMA Parity ==
  ASSUME NEW n \in Nat, NEW m \in Nat, m = n + 1
  PROVE  (n % 2 = 0 /\ m % 2 = 1) \/ (n % 2 = 1 /\ m % 2 = 0)
<1>1. n % 2 \in {0, 1}
  OBVIOUS
<1>2. (n + 1) % 2 = 1 - (n % 2)
  OBVIOUS
<1>3. m % 2 = 1 - (n % 2)
  BY <1>2
<1>4. QED
  BY <1>1, <1>3

LEMMA InitInv == Init => IInv
<1> SUFFICES ASSUME Init PROVE IInv
  OBVIOUS
<1>1. TypeOK
  BY DEF Init, TypeOK, ChState, Buf, TxPc, RxPc
<1>2. Protocol /\ NoStrayWake
  BY DEF Init, Protocol, NoStrayWake, TxOwns, RxOwns, TxServes, RxServes
<1>3. Counts /\ SendReady
  BY DEF Init, Counts, SendReady, Offered, One
<1>4. Turns /\ Handed
  BY DEF Init, Turns, Deliveries, Handed, One
<1>5. QED
  BY <1>1, <1>2, <1>3, <1>4 DEF IInv

\* The buffers of the operators are buffers, as the configuration says.
LEMMA BufferType ==
  ASSUME TypeOK
  PROVE  /\ FillBuf \in Buf
         /\ cfg.nrbuf # 0 => Rbuf \in Buf
         /\ Rotated \in {0, 1}
         /\ cfg.nrbuf \in 0 .. 2 /\ cfg.src \in Source /\ Stable(cfg)
<1>1. cfg \in ConfigSet /\ Stable(cfg)
  BY ConfigAssumption DEF TypeOK
<1>2. cfg.nrbuf \in 0 .. 2 /\ cfg.src \in Source
  BY <1>1 DEF ConfigSet
<1>3. cfg.nrbuf # 0 => Rbuf \in Buf
  BY DEF Rbuf, Storage, Buf
<1>4. FillBuf \in Buf
  <2>1. cfg.src = "inplace" => cfg.nrbuf # 0
    BY <1>1 DEF Stable
  <2>2. QED
    BY <1>3, <2>1 DEF FillBuf, Work, Buf
<1>5. Rotated \in {0, 1}
  BY DEF Rotated, TypeOK
<1>6. QED
  BY <1>1, <1>2, <1>3, <1>4, <1>5

\* A delivery hands on a buffer and leaves the memory well typed.
LEMMA DeliverType ==
  ASSUME TypeOK, NEW src \in Buf, Deliver(src)
  PROVE  Delivered(src) \in Buf /\ mem' \in [Buf -> Nat] /\ turn' \in {0, 1}
<1>1. CASE cfg.nrbuf = 0
  BY <1>1 DEF Deliver, Delivered, TypeOK
<1>2. CASE cfg.nrbuf # 0
  BY <1>2, BufferType DEF Deliver, Delivered, TypeOK
<1>3. QED
  BY <1>1, <1>2

LEMMA TypeStep == IInv /\ [Next]_vars => TypeOK'
<1> SUFFICES ASSUME IInv, [Next]_vars PROVE TypeOK'
  OBVIOUS
<1> USE DEF IInv, TypeOK, ChState, TxPc, RxPc, chanVars, txVars, rxVars, boxVars
<1>1. CASE Fill
  <2>1. txBuf' \in Buf /\ mem' \in [Buf -> Nat]
    BY <1>1, BufferType DEF Fill
  <2>2. QED
    BY <1>1, <2>1 DEF Fill
<1>2. CASE ClaimTx("empty", "offer") \/ ClaimTx("waitRx", "deliver")
  BY <1>2 DEF ClaimTx
<1>3. CASE Offer \/ ParkTx \/ PublishTx
  BY <1>3 DEF Offer, ParkTx, PublishTx
<1>4. CASE DeliverTx
  <2>1. txBuf \in Buf /\ Deliver(txBuf)
    BY <1>4 DEF DeliverTx, SendReady
  <2>2. mem' \in [Buf -> Nat] /\ turn' \in {0, 1} /\ Delivered(txBuf) \in Buf
    BY <2>1, DeliverType
  <2>3. QED
    BY <1>4, <2>2 DEF DeliverTx
<1>5. CASE PublishMsg \/ ReleaseTx
  BY <1>5 DEF PublishMsg, ReleaseTx
<1>a. CASE WakeRx
  BY <1>a DEF WakeRx
<1>b. CASE ContinueTx
  BY <1>b DEF ContinueTx
<1>c. CASE ResumeTx
  BY <1>c DEF ResumeTx
<1>6. CASE Recv
  BY <1>6 DEF Recv
<1>7. CASE ClaimRx("empty", "park") \/ ClaimRx("waitTx", "take")
  BY <1>7 DEF ClaimRx
<1>8. CASE ParkRx \/ PublishRx
  BY <1>8 DEF ParkRx, PublishRx
<1>9. CASE Take
  <2>1. txpc = "parked"
    BY <1>9 DEF Take, NoStrayWake, RxServes
  <2>2. chBuf \in Buf /\ Deliver(chBuf)
    BY <1>9, <2>1 DEF Take, SendReady, Offered
  <2>3. mem' \in [Buf -> Nat] /\ turn' \in {0, 1} /\ Delivered(chBuf) \in Buf
    BY <2>2, DeliverType
  <2>4. QED
    BY <1>9, <2>3 DEF Take
<1>10. CASE ReleaseRx \/ WakeTx
  BY <1>10 DEF ReleaseRx, WakeTx
<1>11. CASE ContinueRx \/ ResumeRx
  <2>1. Complete /\ rcvd' = rcvd + 1 /\ rxpc' = "use"
    BY <1>11 DEF ContinueRx, ResumeRx
  <2>2. rxBuf' \in Buf \cup {NoBuf} /\ msgBuf' \in Buf \cup {NoBuf} /\ bufp' = 0
    BY <2>1 DEF Complete
  <2>3. msgReady' \in {0, 1}
    BY <2>1 DEF Complete
  <2>4. UNCHANGED <<cfg, chanVars, mem, txVars>> /\ ready' \subseteq ready
    BY <1>11 DEF ContinueRx, ResumeRx
  <2>5. QED
    BY <2>1, <2>2, <2>3, <2>4
<1>12. CASE UNCHANGED vars
  BY <1>12 DEF vars
<1>13. QED
  BY <1>1, <1>2, <1>3, <1>4, <1>5, <1>a, <1>b, <1>c, <1>6, <1>7, <1>8, <1>9, <1>10, <1>11, <1>12
     DEF Next, TxOp, RxOp

\* Ownership of the channel and the wakes, one case per group of actions.
LEMMA ProtocolStep == IInv /\ [Next]_vars => (Protocol /\ NoStrayWake)'
<1> SUFFICES ASSUME IInv, [Next]_vars PROVE (Protocol /\ NoStrayWake)'
  OBVIOUS
<1> USE DEF IInv, Protocol, NoStrayWake, TxOwns, RxOwns, TxServes, RxServes,
            chanVars, txVars, rxVars, boxVars
<1>1. CASE Fill
  BY <1>1 DEF Fill
<1>2. CASE ClaimTx("empty", "offer") \/ ClaimTx("waitRx", "deliver")
  BY <1>2 DEF ClaimTx
<1>3. CASE Offer \/ ParkTx \/ PublishTx
  BY <1>3 DEF Offer, ParkTx, PublishTx
<1>4. CASE DeliverTx
  BY <1>4 DEF DeliverTx
<1>5. CASE PublishMsg \/ ReleaseTx
  BY <1>5 DEF PublishMsg, ReleaseTx
<1>6. CASE WakeRx \/ ContinueTx \/ ResumeTx
  BY <1>6 DEF WakeRx, ContinueTx, ResumeTx
<1>7. CASE Recv
  BY <1>7 DEF Recv
<1>8. CASE ClaimRx("empty", "park") \/ ClaimRx("waitTx", "take")
  BY <1>8 DEF ClaimRx
<1>9. CASE ParkRx \/ PublishRx
  BY <1>9 DEF ParkRx, PublishRx
<1>10. CASE Take
  BY <1>10 DEF Take
<1>11. CASE ReleaseRx
  BY <1>11 DEF ReleaseRx
<1>12. CASE WakeTx \/ ContinueRx \/ ResumeRx
  BY <1>12 DEF WakeTx, ContinueRx, ResumeRx
<1>13. CASE UNCHANGED vars
  BY <1>13 DEF vars
<1>14. QED
  BY <1>1, <1>2, <1>3, <1>4, <1>5, <1>6, <1>7, <1>8, <1>9, <1>10, <1>11, <1>12, <1>13
     DEF Next, TxOp, RxOp

LEMMA CountsStep == IInv /\ [Next]_vars => Counts'
<1> SUFFICES ASSUME IInv, [Next]_vars PROVE Counts'
  OBVIOUS
<1>0. sent \in Nat /\ rcvd \in Nat
  BY DEF IInv, TypeOK
<1> USE DEF Counts, One, chanVars, txVars, rxVars, boxVars
<1>1. CASE Fill \/ ClaimTx("empty", "offer") \/ ClaimTx("waitRx", "deliver")
           \/ Offer \/ ParkTx \/ PublishTx \/ DeliverTx \/ PublishMsg \/ ReleaseTx
  BY <1>1 DEF IInv, Fill, ClaimTx, Offer, ParkTx, PublishTx, DeliverTx, PublishMsg, ReleaseTx
<1>2. CASE WakeRx
  BY <1>0, <1>2 DEF IInv, WakeRx, NoStrayWake, TxServes
<1>3. CASE ContinueTx
  BY <1>0, <1>3 DEF IInv, ContinueTx
<1>4. CASE ResumeTx
  BY <1>0, <1>4 DEF IInv, ResumeTx
<1>5. CASE Recv \/ ClaimRx("empty", "park") \/ ClaimRx("waitTx", "take")
           \/ ParkRx \/ PublishRx \/ Take \/ ReleaseRx
  BY <1>5 DEF IInv, Recv, ClaimRx, ParkRx, PublishRx, Take, ReleaseRx
<1>6. CASE WakeTx
  BY <1>0, <1>6 DEF IInv, WakeTx, NoStrayWake, RxServes
<1>7. CASE ContinueRx
  BY <1>0, <1>7 DEF IInv, ContinueRx
<1>8. CASE ResumeRx
  BY <1>0, <1>8 DEF IInv, ResumeRx
<1>9. CASE UNCHANGED vars
  BY <1>9 DEF IInv, vars
<1>10. QED
  BY <1>1, <1>2, <1>3, <1>4, <1>5, <1>6, <1>7, <1>8, <1>9 DEF Next, TxOp, RxOp

-----------------------------------------------------------------------------
(* Where the messages are.                                                 *)

\* While a receiver waits unserved, both sides have completed equally many
\* operations; so they have when the receiver takes a parked sender's message.
LEMMA SameCount ==
  ASSUME IInv, txpc \in {"deliver", "message", "release", "wake"} \/ rxpc = "take"
  PROVE  rcvd = sent
<1>1. sent \in Nat /\ rcvd \in Nat
  BY DEF IInv, TypeOK
<1>2. "rx" \notin ready /\ "tx" \notin ready /\ txpc # "self" /\ rxpc # "self"
  BY DEF IInv, NoStrayWake, TxServes, RxServes
<1>3. QED
  BY <1>1, <1>2 DEF IInv, Counts, One

\* The next message is never written where the previous one is being read.
LEMMA FillApart ==
  ASSUME IInv, txpc = "fill", sent > 0
  PROVE  FillBuf # Home(sent)
<1>1. sent - 1 \in Nat
  BY DEF IInv, TypeOK
<1>2. ((sent - 1) % 2 = 0 /\ sent % 2 = 1) \/ ((sent - 1) % 2 = 1 /\ sent % 2 = 0)
  <2>1. sent \in Nat /\ sent = sent - 1 + 1
    BY DEF IInv, TypeOK
  <2>2. QED
    BY <1>1, <2>1, Parity
<1>3. cfg.nrbuf \in 0 .. 2 /\ Stable(cfg)
  BY BufferType DEF IInv
<1>4. Deliveries = sent
  <2>1. "tx" \notin ready /\ rxpc \notin RxServes
    BY DEF IInv, NoStrayWake, RxServes
  <2>2. QED
    BY <2>1 DEF IInv, TypeOK, Counts, Deliveries, One, RxServes
<1>5. CASE cfg.nrbuf = 0
  <2>1. FillBuf = Work(sent % 2) /\ Home(sent) = Work((sent - 1) % 2)
    BY <1>3, <1>5 DEF FillBuf, Home, Stable
  <2>2. QED
    BY <1>2, <2>1 DEF Work
<1>6. CASE cfg.nrbuf = 1
  BY <1>3, <1>6 DEF FillBuf, Home, Work, Storage, Stable
<1>7. CASE cfg.nrbuf = 2
  <2>1. turn = sent % 2
    BY <1>4, <1>7 DEF IInv, Turns
  <2>2. Home(sent) = Storage((sent - 1) % 2) /\ Rbuf = Storage(sent % 2)
    BY <1>7, <2>1 DEF Home, Rbuf
  <2>3. Rbuf # Home(sent)
    BY <1>2, <2>2 DEF Storage
  <2>4. \A i : Work(i) # Home(sent)
    BY <2>2 DEF Work, Storage
  <2>5. QED
    BY <2>3, <2>4 DEF FillBuf
<1>8. QED
  BY <1>3, <1>5, <1>6, <1>7

\* What a delivery of message n does, when n - 1 messages were delivered.
LEMMA DeliverHome ==
  ASSUME IInv, Deliveries = sent, NEW src \in Buf, mem[src] = sent + 1,
         cfg.src = "two" => src = Work(sent % 2), Deliver(src)
  PROVE  Delivered(src) = Home(sent + 1) /\ mem'[Delivered(src)] = sent + 1
<1>1. sent + 1 - 1 = sent /\ sent \in Nat
  BY DEF IInv, TypeOK
<1>2. cfg.nrbuf \in 0 .. 2 /\ Stable(cfg) /\ (cfg.nrbuf # 0 => Rbuf \in Buf)
  BY BufferType DEF IInv
<1>3. CASE cfg.nrbuf = 0
  BY <1>1, <1>2, <1>3 DEF Deliver, Delivered, Home, Stable
<1>4. CASE cfg.nrbuf # 0
  <2>1. Rbuf = Home(sent + 1)
    BY <1>1, <1>2, <1>4 DEF IInv, Turns, Rbuf, Home
  <2>2. mem'[Rbuf] = sent + 1
    BY <1>2, <1>4 DEF Deliver, IInv, TypeOK
  <2>3. QED
    BY <1>4, <2>1, <2>2 DEF Delivered
<1>5. QED
  BY <1>3, <1>4

LEMMA SendReadyStep == IInv /\ [Next]_vars => SendReady'
<1> SUFFICES ASSUME IInv, [Next]_vars PROVE SendReady'
  OBVIOUS
<1>0. mem \in [Buf -> Nat] /\ FillBuf \in Buf /\ SendReady
  BY BufferType DEF IInv, TypeOK
<1> USE DEF SendReady, Offered, chanVars, txVars, rxVars, boxVars
<1>1. CASE Fill
  <2>1. txBuf' \in Buf /\ mem'[txBuf'] = sent + 1 /\ txpc' = "send" /\ UNCHANGED <<sent, cfg>>
    BY <1>0, <1>1 DEF Fill
  <2>2. cfg.src = "two" => txBuf' = Work(sent % 2)
    BY <1>1 DEF Fill, FillBuf
  <2>3. QED
    BY <2>1, <2>2
<1>2. CASE ClaimTx("empty", "offer") \/ ClaimTx("waitRx", "deliver")
  BY <1>0, <1>2 DEF ClaimTx
<1>3. CASE Offer \/ ParkTx \/ PublishTx
  BY <1>0, <1>3 DEF Offer, ParkTx, PublishTx
<1>4. CASE DeliverTx
  <2>1. /\ txBuf \in Buf /\ mem[txBuf] = sent + 1 /\ (cfg.src = "two" => txBuf = Work(sent % 2))
        /\ Deliver(txBuf) /\ txBuf' = Delivered(txBuf) /\ txpc' = "message" /\ UNCHANGED sent
    BY <1>0, <1>4 DEF DeliverTx
  <2>2. Delivered(txBuf) \in Buf
    BY <2>1, DeliverType DEF IInv
  <2>3. mem'[Delivered(txBuf)] = sent + 1
    <3>1. CASE cfg.nrbuf = 0
      BY <2>1, <3>1 DEF Deliver, Delivered
    <3>2. CASE cfg.nrbuf # 0
      BY <1>0, <2>1, <3>2, BufferType DEF Deliver, Delivered, IInv
    <3>3. QED
      BY <3>1, <3>2
  <2>4. QED
    BY <2>1, <2>2, <2>3
<1>5. CASE PublishMsg \/ ReleaseTx \/ WakeRx \/ ContinueTx \/ ResumeTx
  BY <1>5 DEF PublishMsg, ReleaseTx, WakeRx, ContinueTx, ResumeTx
<1>6. CASE Recv
  BY <1>0, <1>6 DEF Recv
<1>7. CASE ClaimRx("empty", "park") \/ ClaimRx("waitTx", "take")
  BY <1>0, <1>7 DEF ClaimRx, IInv, Protocol
<1>8. CASE ParkRx \/ PublishRx
  BY <1>0, <1>8 DEF ParkRx, PublishRx
<1>9. CASE Take
  <2>1. txpc' = "parked" /\ rxpc' = "release" /\ state' # "waitTx"
    BY <1>9 DEF Take, IInv, NoStrayWake, Protocol, RxServes, RxOwns
  <2>2. QED
    BY <2>1
<1>10. CASE ReleaseRx
  <2>1. txpc' = "parked" /\ rxpc' = "wake" /\ state' = "empty"
    BY <1>10 DEF ReleaseRx, IInv, NoStrayWake, RxServes
  <2>2. QED
    BY <2>1
<1>11. CASE WakeTx \/ ContinueRx \/ ResumeRx
  BY <1>0, <1>11 DEF WakeTx, ContinueRx, ResumeRx
<1>12. CASE UNCHANGED vars
  BY <1>0, <1>12 DEF vars
<1>13. QED
  BY <1>1, <1>2, <1>3, <1>4, <1>5, <1>6, <1>7, <1>8, <1>9, <1>10, <1>11, <1>12
     DEF Next, TxOp, RxOp

LEMMA TurnsStep == IInv /\ [Next]_vars => Turns'
<1> SUFFICES ASSUME IInv, [Next]_vars PROVE Turns'
  OBVIOUS
<1>0. rcvd \in Nat /\ Turns /\ Deliveries \in Nat
  BY DEF IInv, TypeOK, Deliveries, One
<1>a. ASSUME UNCHANGED <<cfg, turn>>, Deliveries' = Deliveries PROVE Turns'
  BY <1>0, <1>a DEF Turns
<1>b. ASSUME UNCHANGED cfg, Deliveries' = Deliveries + 1, NEW src, Deliver(src) PROVE Turns'
  <2>1. CASE cfg.nrbuf > 1
    <3>1. cfg.nrbuf # 0 /\ turn' = 1 - turn
      BY <1>b, <2>1 DEF Deliver, Rotated
    <3>2. turn = Deliveries % 2 /\ Deliveries + 1 \in Nat
      BY <1>0, <2>1 DEF Turns
    <3>3. \/ Deliveries % 2 = 0 /\ (Deliveries + 1) % 2 = 1
          \/ Deliveries % 2 = 1 /\ (Deliveries + 1) % 2 = 0
      BY <1>0, <3>2, Parity
    <3>4. turn' = (Deliveries + 1) % 2
      BY <3>1, <3>2, <3>3
    <3>5. QED
      BY <1>b, <2>1, <3>4 DEF Turns
  <2>2. CASE ~ (cfg.nrbuf > 1)
    BY <1>0, <1>b, <2>2 DEF Turns, Deliver, Rotated
  <2>3. QED
    BY <2>1, <2>2
<1> USE DEF chanVars, txVars, rxVars, boxVars
<1>1. CASE Fill \/ ClaimTx("empty", "offer") \/ ClaimTx("waitRx", "deliver")
           \/ Offer \/ ParkTx \/ PublishTx \/ PublishMsg \/ ReleaseTx \/ ContinueTx
  BY <1>1, <1>a DEF Fill, ClaimTx, Offer, ParkTx, PublishTx, PublishMsg, ReleaseTx, ContinueTx,
     Deliveries
<1>2. CASE ResumeTx
  BY <1>2, <1>a DEF ResumeTx, Deliveries
<1>3. CASE DeliverTx
  <2>1. Deliveries' = Deliveries + 1
    BY <1>0, <1>3 DEF DeliverTx, Deliveries, One
  <2>2. QED
    BY <1>3, <1>b, <2>1 DEF DeliverTx
<1>4. CASE WakeRx
  <2>1. "rx" \notin ready
    BY <1>4 DEF WakeRx, IInv, NoStrayWake, TxServes
  <2>2. Deliveries' = Deliveries
    BY <1>0, <1>4, <2>1 DEF WakeRx, Deliveries, One
  <2>3. QED
    BY <1>4, <1>a, <2>2 DEF WakeRx
<1>5. CASE Recv \/ ClaimRx("empty", "park") \/ ClaimRx("waitTx", "take")
           \/ ParkRx \/ PublishRx \/ ReleaseRx \/ WakeTx
  BY <1>5, <1>a DEF Recv, ClaimRx, ParkRx, PublishRx, ReleaseRx, WakeTx, Deliveries
<1>6. CASE Take
  <2>1. Deliveries' = Deliveries + 1
    BY <1>0, <1>6 DEF Take, Deliveries, One
  <2>2. QED
    BY <1>6, <1>b, <2>1 DEF Take
<1>7. CASE ContinueRx
  <2>1. Deliveries' = Deliveries
    BY <1>0, <1>7 DEF ContinueRx, Deliveries, One
  <2>2. QED
    BY <1>7, <1>a, <2>1 DEF ContinueRx
<1>8. CASE ResumeRx
  <2>1. Deliveries' = Deliveries
    BY <1>0, <1>8 DEF ResumeRx, Deliveries, One
  <2>2. QED
    BY <1>8, <1>a, <2>1 DEF ResumeRx
<1>9. CASE UNCHANGED vars
  BY <1>9, <1>a DEF vars, Deliveries
<1>10. QED
  BY <1>1, <1>2, <1>3, <1>4, <1>5, <1>6, <1>7, <1>8, <1>9 DEF Next, TxOp, RxOp

\* The receiver's mailbox and pointer, one case per group of actions.
LEMMA HandedStep == IInv /\ [Next]_vars => Handed'
<1> SUFFICES ASSUME IInv, [Next]_vars PROVE Handed'
  OBVIOUS
<1>0. /\ sent \in Nat /\ rcvd \in Nat /\ mem \in [Buf -> Nat] /\ Handed
      /\ SendReady /\ Protocol /\ NoStrayWake
  BY DEF IInv, TypeOK
<1>a. ASSUME NEW n PROVE UNCHANGED cfg => Home(n)' = Home(n)
  BY DEF Home
<1>b. UNCHANGED cfg => Home(sent + 1)' = Home(sent' + 1) /\ Home(rcvd + 1)' = Home(rcvd' + 1)
                      /\ Home(rcvd)' = Home(rcvd')
  BY DEF Home
<1> USE DEF Handed, One, chanVars, txVars, rxVars, boxVars
<1>1. CASE Fill
  <2>1. /\ txpc = "fill" /\ txpc' = "send" /\ UNCHANGED <<cfg, sent, rxpc, rxBuf, rcvd, boxVars, ready>>
        /\ mem' = [mem EXCEPT ![FillBuf] = sent + 1]
    BY <1>1 DEF Fill
  <2>2. rxpc \notin {"take", "release", "wake"} /\ "tx" \notin ready
    BY <1>0, <2>1 DEF NoStrayWake, RxServes
  <2>3. rcvd + One(rxpc = "self") + One("rx" \in ready) = sent
    BY <1>0, <2>1, <2>2 DEF IInv, Counts
  <2>4. ASSUME NEW b, NEW k, b = Home(sent), sent > 0, mem[b] = k PROVE mem'[b] = k
    <3>1. b # FillBuf
      BY <2>1, <2>4, FillApart
    <3>2. b \in Buf
      BY <2>4 DEF Home, Work, Storage, Buf
    <3>3. QED
      BY <1>0, <2>1, <2>4, <3>1, <3>2
  <2>5. "rx" \in ready => /\ msgReady' = 1 /\ msgBuf' = Home(rcvd + 1)
                         /\ mem'[msgBuf'] = rcvd + 1
    <3>1. "rx" \in ready => rxpc = "parked" /\ rcvd + 1 = sent /\ sent > 0
      BY <1>0, <2>3 DEF NoStrayWake
    <3>2. QED
      BY <1>0, <2>1, <2>4, <3>1
  <2>6. rxpc = "self" => rxBuf' = Home(rcvd + 1) /\ mem'[rxBuf'] = rcvd + 1
    <3>1. rxpc = "self" => "rx" \notin ready /\ rcvd + 1 = sent /\ sent > 0
      BY <1>0, <2>3 DEF NoStrayWake
    <3>2. QED
      BY <1>0, <2>1, <2>4, <3>1
  <2>7. rxpc = "use" /\ rcvd > 0 => rxBuf' = Home(rcvd) /\ mem'[rxBuf'] = rcvd
    <3>1. rxpc = "use" => "rx" \notin ready /\ rcvd = sent
      BY <1>0, <2>3 DEF NoStrayWake
    <3>2. QED
      BY <1>0, <2>1, <2>4, <3>1
  <2>8. QED
    BY <1>0, <1>b, <2>1, <2>2, <2>5, <2>6, <2>7
<1>2. CASE \/ ClaimTx("empty", "offer") \/ ClaimTx("waitRx", "deliver")
           \/ Offer \/ ParkTx \/ PublishTx
  BY <1>0, <1>2, <1>b DEF ClaimTx, Offer, ParkTx, PublishTx
<1>3. CASE DeliverTx
  <2>1. /\ txpc = "deliver" /\ txpc' = "message" /\ Deliver(txBuf) /\ txBuf' = Delivered(txBuf)
        /\ UNCHANGED <<cfg, sent, rxpc, rxBuf, rcvd, boxVars, ready>>
    BY <1>3 DEF DeliverTx
  <2>2. rxpc = "parked" /\ "rx" \notin ready
    BY <1>0, <2>1 DEF NoStrayWake, TxServes
  <2>3. Deliveries = sent
    BY <1>0, <2>1, <2>2, SameCount DEF Deliveries
  <2>4. /\ txBuf \in Buf /\ mem[txBuf] = sent + 1
        /\ cfg.src = "two" => txBuf = Work(sent % 2)
    BY <1>0, <2>1 DEF SendReady
  <2>5. txBuf' = Home(sent + 1)
    BY <2>1, <2>3, <2>4, DeliverHome
  <2>6. QED
    BY <1>0, <1>b, <2>1, <2>2, <2>5
<1>4. CASE PublishMsg
  <2>1. /\ txpc = "message" /\ txpc' = "release" /\ msgReady' = 1 /\ msgBuf' = txBuf
        /\ UNCHANGED <<cfg, mem, txBuf, sent, rxpc, rxBuf, rcvd, bufp, ready>>
    BY <1>4 DEF PublishMsg
  <2>2. rxpc = "parked" /\ "rx" \notin ready /\ rcvd = sent
    BY <1>0, <2>1, SameCount DEF NoStrayWake, TxServes
  <2>3. txBuf = Home(sent + 1) /\ mem[txBuf] = sent + 1
    BY <1>0, <2>1 DEF SendReady
  <2>4. QED
    BY <1>0, <1>b, <2>1, <2>2, <2>3
<1>5. CASE ReleaseTx \/ WakeRx
  BY <1>0, <1>5, <1>b DEF ReleaseTx, WakeRx
<1>6. CASE ContinueTx \/ ResumeTx
  BY <1>0, <1>6, <1>b DEF ContinueTx, ResumeTx
<1>7. CASE Recv
  BY <1>0, <1>7, <1>b DEF Recv
<1>8. CASE ClaimRx("empty", "park") \/ ClaimRx("waitTx", "take")
  BY <1>0, <1>8, <1>b DEF ClaimRx
<1>9. CASE ParkRx
  <2>1. txpc \notin TxServes /\ "rx" \notin ready
    BY <1>0, <1>9 DEF ParkRx, NoStrayWake
  <2>2. QED
    BY <1>0, <1>9, <1>b, <2>1 DEF ParkRx, TxServes
<1>10. CASE PublishRx
  BY <1>0, <1>10, <1>b DEF PublishRx
<1>11. CASE Take
  <2>1. /\ rxpc = "take" /\ rxpc' = "release" /\ Deliver(chBuf) /\ rxBuf' = Delivered(chBuf)
        /\ UNCHANGED <<cfg, state, txpc, sent, rcvd, boxVars, ready>>
    BY <1>11 DEF Take
  <2>2. txpc = "parked" /\ "rx" \notin ready /\ rcvd = sent
    BY <1>0, <2>1, SameCount DEF NoStrayWake, RxServes
  <2>3. Deliveries = sent
    BY <1>0, <2>1, <2>2 DEF Deliveries
  <2>4. /\ chBuf = txBuf /\ txBuf \in Buf /\ mem[txBuf] = sent + 1
        /\ cfg.src = "two" => txBuf = Work(sent % 2)
    BY <1>0, <2>1, <2>2 DEF SendReady, Offered
  <2>5. rxBuf' = Home(sent + 1) /\ mem'[rxBuf'] = sent + 1
    BY <2>1, <2>3, <2>4, DeliverHome
  <2>6. QED
    BY <1>0, <1>b, <2>1, <2>2, <2>5
<1>12. CASE ReleaseRx \/ WakeTx
  BY <1>0, <1>12, <1>b DEF ReleaseRx, WakeTx
<1>13. CASE ContinueRx
  <2>1. /\ rxpc = "self" /\ rxpc' = "use" /\ Complete /\ rcvd' = rcvd + 1
        /\ UNCHANGED <<cfg, chanVars, mem, txVars, ready>>
    BY <1>13 DEF ContinueRx
  <2>2. bufp = 0 /\ rxBuf = Home(rcvd + 1) /\ mem[rxBuf] = rcvd + 1
    BY <1>0, <2>1
  <2>3. rxBuf' = rxBuf /\ bufp' = 0
    BY <2>1, <2>2 DEF Complete
  <2>4. "rx" \notin ready /\ txpc \notin TxServes
    BY <1>0, <2>1 DEF NoStrayWake
  <2>5. QED
    BY <1>0, <1>b, <2>1, <2>2, <2>3, <2>4 DEF TxServes
<1>14. CASE ResumeRx
  <2>1. /\ rxpc = "parked" /\ rxpc' = "use" /\ Complete /\ rcvd' = rcvd + 1
        /\ "rx" \in ready /\ ready' = ready \ {"rx"}
        /\ UNCHANGED <<cfg, chanVars, mem, txVars>>
    BY <1>14 DEF ResumeRx
  <2>2. bufp = 1 /\ msgReady = 1 /\ msgBuf = Home(rcvd + 1) /\ mem[msgBuf] = rcvd + 1
    BY <1>0, <2>1
  <2>3. rxBuf' = msgBuf /\ bufp' = 0
    BY <2>1, <2>2 DEF Complete
  <2>4. "rx" \notin ready' /\ txpc \notin TxServes
    BY <1>0, <2>1 DEF NoStrayWake
  <2>5. QED
    BY <1>0, <1>b, <2>1, <2>2, <2>3, <2>4 DEF TxServes
<1>15. CASE UNCHANGED vars
  BY <1>0, <1>15, <1>b DEF vars
<1>16. QED
  BY <1>1, <1>2, <1>3, <1>4, <1>5, <1>6, <1>7, <1>8, <1>9, <1>10, <1>11, <1>12, <1>13, <1>14, <1>15
     DEF Next, TxOp, RxOp

LEMMA StepInv == IInv /\ [Next]_vars => IInv'
  BY TypeStep, ProtocolStep, CountsStep, SendReadyStep, TurnsStep, HandedStep DEF IInv

-----------------------------------------------------------------------------
(* The theorems.                                                           *)

\* What the states of the channel, its buffers and the mailbox say of the
\* message that passes, for every configuration and number of messages.
THEOREM Inductive == Spec => []IInv
  BY InitInv, StepInv, PTL DEF Spec

\* Every variable of the channel keeps its type, for every set of channel
\* configurations and number of messages; in particular each copy has a
\* destination buffer and never goes through a null pointer.
THEOREM TypeCorrect == Spec => []TypeOK
<1>1. IInv => TypeOK
  BY DEF IInv
<1>2. QED
  BY <1>1, InitInv, StepInv, PTL DEF Spec

\* Ownership of the channel: its state names the one process that may touch
\* it, and a parked process always has somebody who will release it.
THEOREM ProtocolHolds == Spec => []Protocol
<1>1. IInv => Protocol
  BY DEF IInv
<1>2. QED
  BY <1>1, InitInv, StepInv, PTL DEF Spec

\* A channel operation wakes only a process that is parked, and once: this is
\* what module Doorbell assumes of the wakers, and what keeps tpa_reload from
\* queueing a process that is queued already.
THEOREM NoStrayWakeHolds == Spec => []NoStrayWake
<1>1. IInv => NoStrayWake
  BY DEF IInv
<1>2. QED
  BY <1>1, InitInv, StepInv, PTL DEF Spec

LEMMA HandedBuf == IInv /\ rxpc = "use" /\ rcvd > 0 => rxBuf \in Buf /\ mem[rxBuf] = rcvd
  BY DEF IInv, Handed, Home, Work, Storage, Buf

\* Under the buffer discipline the receiver reads the message that was sent in
\* that place, for as long as it reads and however far the sender has run on.
THEOREM IntactHolds == Spec => []Intact
<1>1. IInv => Intact
  BY HandedBuf DEF Intact, Buf, NoBuf
<1>2. QED
  BY <1>1, InitInv, StepInv, PTL DEF Spec

LEMMA HeldValue == IInv => Held = IF rxpc = "use" THEN rcvd ELSE 0
<1> SUFFICES ASSUME IInv PROVE Held = IF rxpc = "use" THEN rcvd ELSE 0
  OBVIOUS
<1>1. CASE rxpc = "use" /\ rcvd > 0
  BY <1>1, HandedBuf DEF Held, Buf, NoBuf
<1>2. CASE rxpc = "use" /\ ~ (rcvd > 0)
  BY <1>2 DEF Held, IInv, Handed, TypeOK
<1>3. CASE rxpc # "use"
  BY <1>3 DEF Held
<1>4. QED
  BY <1>1, <1>2, <1>3

LEMMA InitRefines == Init => Abs!Init
  BY DEF Init, Abs!Init, SendsIssued, RecvsIssued, Met, TxMet, RxMet, Held, One,
         TxServes, RxServes, NoBuf

\* Each step of the channel is one of the rendezvous or changes nothing there.
LEMMA StepRefines == IInv /\ IInv' /\ [Next]_vars => [Abs!Next]_(Abs!vars)
<1> SUFFICES ASSUME IInv, IInv', [Next]_vars PROVE [Abs!Next]_(Abs!vars)
  OBVIOUS
<1> DEFINE H == IF rxpc = "use" THEN rcvd ELSE 0
<1>0. /\ sent \in Nat /\ rcvd \in Nat /\ Protocol /\ NoStrayWake
      /\ rcvd + One(rxpc = "self") + One("rx" \in ready)
           = sent + One(txpc = "self") + One("tx" \in ready)
  BY DEF IInv, TypeOK, Counts
<1>h. Held = H /\ Held' = H'
  <2>1. (IInv => Held = IF rxpc = "use" THEN rcvd ELSE 0)'
    BY HeldValue, PTL
  <2>2. QED
    BY <2>1, HeldValue
<1> USE DEF SendsIssued, RecvsIssued, Met, TxMet, RxMet, One, TxServes, RxServes,
            chanVars, txVars, rxVars, boxVars
<1>1. CASE Fill
  <2>1. Abs!IssueSend
    BY <1>0, <1>1, <1>h DEF Fill, Abs!IssueSend
  <2>2. QED
    BY <2>1 DEF Abs!Next
<1>2. CASE ClaimTx("waitRx", "deliver")
  <2>1. /\ txpc = "send" /\ txpc' = "deliver" /\ state = "waitRx"
        /\ UNCHANGED <<sent, rxpc, rcvd>>
    BY <1>2 DEF ClaimTx
  <2>2. rxpc = "parked" /\ sent = rcvd
    BY <1>0, <2>1 DEF Protocol, NoStrayWake
  <2>3. Abs!Meet
    BY <1>0, <1>h, <2>1, <2>2 DEF Abs!Meet
  <2>4. QED
    BY <2>3 DEF Abs!Next
<1>3. CASE ClaimRx("waitTx", "take")
  <2>1. /\ rxpc = "recv" /\ rxpc' = "take" /\ state = "waitTx"
        /\ UNCHANGED <<sent, txpc, rcvd>>
    BY <1>3 DEF ClaimRx
  <2>2. txpc = "parked" /\ sent = rcvd
    BY <1>0, <2>1 DEF Protocol, NoStrayWake
  <2>3. Abs!Meet
    BY <1>0, <1>h, <2>1, <2>2 DEF Abs!Meet
  <2>4. QED
    BY <2>3 DEF Abs!Next
<1>4. CASE ContinueTx
  <2>1. Abs!EndSend
    BY <1>0, <1>4, <1>h DEF ContinueTx, Abs!EndSend
  <2>2. QED
    BY <2>1 DEF Abs!Next
<1>5. CASE ResumeTx
  <2>1. /\ txpc = "parked" /\ "tx" \in ready /\ txpc' = "fill" /\ sent' = sent + 1
        /\ UNCHANGED <<rxpc, rcvd>>
    BY <1>5 DEF ResumeTx
  <2>2. rcvd + One(rxpc = "self") = sent + 1
    BY <1>0, <2>1 DEF NoStrayWake
  <2>3. Abs!EndSend
    BY <1>0, <1>h, <2>1, <2>2 DEF Abs!EndSend
  <2>4. QED
    BY <2>3 DEF Abs!Next
<1>6. CASE Recv
  <2>1. Abs!IssueRecv
    BY <1>0, <1>6, <1>h DEF Recv, Abs!IssueRecv
  <2>2. QED
    BY <2>1 DEF Abs!Next
<1>7. CASE ContinueRx
  <2>1. Abs!EndRecv
    BY <1>0, <1>7, <1>h DEF ContinueRx, Abs!EndRecv
  <2>2. QED
    BY <2>1 DEF Abs!Next
<1>8. CASE ResumeRx
  <2>1. /\ rxpc = "parked" /\ "rx" \in ready /\ rxpc' = "use" /\ rcvd' = rcvd + 1
        /\ UNCHANGED <<txpc, sent>>
    BY <1>8 DEF ResumeRx
  <2>2. sent + One(txpc = "self") = rcvd + 1
    BY <1>0, <2>1 DEF NoStrayWake
  <2>3. Abs!EndRecv
    BY <1>0, <1>h, <2>1, <2>2 DEF Abs!EndRecv
  <2>4. QED
    BY <2>3 DEF Abs!Next
<1>9. CASE ClaimTx("empty", "offer") \/ Offer \/ ParkTx \/ PublishTx
           \/ DeliverTx \/ PublishMsg \/ ReleaseTx \/ WakeRx
  <2>1. UNCHANGED <<sent, rxpc, rcvd, SendsIssued, TxMet>>
    BY <1>9 DEF ClaimTx, Offer, ParkTx, PublishTx, DeliverTx, PublishMsg, ReleaseTx, WakeRx
  <2>2. QED
    BY <1>h, <2>1 DEF Abs!vars
<1>10. CASE ClaimRx("empty", "park") \/ ParkRx \/ PublishRx \/ Take \/ ReleaseRx \/ WakeTx
  <2>1. UNCHANGED <<sent, txpc, rcvd, RecvsIssued, RxMet>> /\ H' = H
    BY <1>10 DEF ClaimRx, ParkRx, PublishRx, Take, ReleaseRx, WakeTx
  <2>2. QED
    BY <1>h, <2>1 DEF Abs!vars
<1>11. CASE UNCHANGED vars
  BY <1>11, <1>h DEF vars, Abs!vars
<1>12. QED
  BY <1>1, <1>2, <1>3, <1>4, <1>5, <1>6, <1>7, <1>8, <1>9, <1>10, <1>11 DEF Next, TxOp, RxOp

\* The channel of channel.c, with its mailbox, its storage buffers and its two
\* ways to meet, implements the synchronous rendezvous of Rendezvous.
THEOREM Implements == Spec => Abs!Safety
  BY InitInv, StepInv, InitRefines, StepRefines, PTL DEF Spec, Abs!Safety
=============================================================================
