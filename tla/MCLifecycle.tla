---------------------------- MODULE MCLifecycle ----------------------------
(* Two harts, one with a process and one with two. *)
EXTENDS Lifecycle, TLC

CONSTANTS h1, h2, p1, p2, p3
MCHome == p1 :> h1 @@ p2 :> h2 @@ p3 :> h2
=============================================================================
