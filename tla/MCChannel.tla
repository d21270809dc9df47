----------------------------- MODULE MCChannel -----------------------------
(* Every channel whose program keeps to the buffer discipline of Stable.   *)
EXTENDS Channel

MCConfig == {c \in ConfigSet : Stable(c)}
=============================================================================
