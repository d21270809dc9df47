----------------------------- MODULE MCDoorbell -----------------------------
(* A hart with two processes in two ready words and two foreign wakers.  *)
EXTENDS Doorbell

MCSlot   == {0, 1}
MCWordOf == [s \in MCSlot |-> s]     \* one slot to a word
=============================================================================
