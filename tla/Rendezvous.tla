----------------------------- MODULE Rendezvous -----------------------------
(***************************************************************************)
(* What a channel of the runtime promises the two processes it connects:   *)
(* message n is handed over when the n-th send and the n-th receive have   *)
(* both been issued, neither side continues before that, and the receiver  *)
(* keeps reading message n until it issues its next receive.               *)
(***************************************************************************)
EXTENDS Naturals

CONSTANT NrMsgs     \* bound: messages sent in a behaviour

VARIABLES
  sends, recvs,     \* operations issued by either side
  met,              \* rendezvous that have taken place
  sent, rcvd,       \* operations completed
  held              \* message the receiver is reading, 0 when none

vars == <<sends, recvs, met, sent, rcvd, held>>

Init == sends = 0 /\ recvs = 0 /\ met = 0 /\ sent = 0 /\ rcvd = 0 /\ held = 0

IssueSend ==
  /\ sends = sent /\ sends < NrMsgs
  /\ sends' = sends + 1
  /\ UNCHANGED <<recvs, met, sent, rcvd, held>>

IssueRecv ==
  /\ recvs = rcvd /\ recvs < NrMsgs
  /\ recvs' = recvs + 1 /\ held' = 0
  /\ UNCHANGED <<sends, met, sent, rcvd>>

Meet ==
  /\ met < sends /\ met < recvs
  /\ met' = met + 1
  /\ UNCHANGED <<sends, recvs, sent, rcvd, held>>

EndSend ==
  /\ sent < met
  /\ sent' = sent + 1
  /\ UNCHANGED <<sends, recvs, met, rcvd, held>>

EndRecv ==
  /\ rcvd < met
  /\ rcvd' = rcvd + 1 /\ held' = rcvd + 1
  /\ UNCHANGED <<sends, recvs, met, sent>>

Next == IssueSend \/ IssueRecv \/ Meet \/ EndSend \/ EndRecv

\* Two processes that want to communicate do, and both then run on.
Fairness == WF_vars(Meet) /\ WF_vars(EndSend) /\ WF_vars(EndRecv)

Safety == Init /\ [][Next]_vars
Spec   == Safety /\ Fairness
=============================================================================
