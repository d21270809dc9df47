----------------------------- MODULE MCRunQueue -----------------------------
(* Four processes on one hart. *)
EXTENDS RunQueue

MCSlot == 0 .. 3
=============================================================================
