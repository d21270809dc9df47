------------------------------- MODULE EdgePlan -------------------------------
(***************************************************************************)
(* The planner's placement of the edges of a program in shared memory      *)
(* (src/planner/src/tpa_planner/edge_plan.py).  All the edges that carry   *)
(* one producer's message share one piece of storage, through forwarders;  *)
(* two pieces may overlap when every consumer of one comes before the      *)
(* producer of the other in the graph.                                     *)
(*                                                                         *)
(* A program g has g.kind, the kind of every process, and g.conns, the set *)
(* of its connections [src, sp, dst, dp, bytes].                           *)
(***************************************************************************)
EXTENDS Integers, Sequences, SequencesExt

EDGE_ALIGNMENT_BYTES == 64

IsForwarder(kind) == kind = "fork2"

AlignUp(v) == ((v + EDGE_ALIGNMENT_BYTES - 1) \div EDGE_ALIGNMENT_BYTES) * EDGE_ALIGNMENT_BYTES

Overlap(aOff, aSize, bOff, bSize) == ~(aOff + aSize <= bOff \/ bOff + bSize <= aOff)

-----------------------------------------------------------------------------
(***************************************************************************)
(* Roots.                                                                  *)
(***************************************************************************)
Incoming(g, p) == {c \in g.conns : c.dst = p}
Sources(g)     == {<<c.src, c.sp>> : c \in g.conns}

\* A forwarder's output port passes on the message of another output port.
Forwards(g, s) == IsForwarder(g.kind[s[1]]) /\ Cardinality(Incoming(g, s[1])) = 1
Parent(g, s)   == LET c == CHOOSE c \in Incoming(g, s[1]) : TRUE IN <<c.src, c.sp>>

\* The output port whose message an output port passes on, however far.
RootOf(g) ==
  LET root[s \in Sources(g)] == IF Forwards(g, s) THEN root[Parent(g, s)] ELSE s
  IN root

\* One object for each root: its producer, its consumers, its size.
Members(g) ==
  LET root == RootOf(g) IN
  [r \in {root[s] : s \in Sources(g)} |->
     {c \in g.conns : root[<<c.src, c.sp>>] = r}]

EdgeObjects(g) ==
  LET members == Members(g) IN
  [r \in DOMAIN members |->
     [producer  |-> r[1],
      consumers |-> {c.dst : c \in members[r]},
      bytes     |-> Max({c.bytes : c \in members[r]})]]

-----------------------------------------------------------------------------
(***************************************************************************)
(* Which objects may share memory.                                         *)
(***************************************************************************)
\* The processes next after each process, and those one edge further than some.
Successors(g)     == [p \in DOMAIN g.kind |-> {c.dst : c \in {d \in g.conns : d.src = p}}]
Further(g, S)     == S \cup {c.dst : c \in {d \in g.conns : d.src \in S}}
Onward(g, before) == [p \in DOMAIN g.kind |-> Further(g, before[p])]

\* The processes after each process in the graph.
Reachability(g) ==
  LET all == Cardinality(DOMAIN g.kind)
      reach[n \in 0 .. all] ==
        IF n = 0 THEN Successors(g)
        ELSE LET before == reach[n - 1] IN Onward(g, before)
  IN reach[all]

\* What image generation hands to the planner: numbered processes and ports,
\* and a graph without cycles.
WellFormed(g) ==
  /\ IsFiniteSet(DOMAIN g.kind) /\ IsFiniteSet(g.conns)
  /\ \A c \in g.conns : /\ {c.src, c.dst} \subseteq DOMAIN g.kind
                        /\ c.src \in Int /\ c.sp \in Int /\ c.bytes \in Nat
  /\ \A p \in DOMAIN g.kind : p \notin Reachability(g)[p]

\* Mutant: one consumer of an object is enough.
MutDisjoint(reach, a, b) ==
  \/ \E c \in b.consumers : a.producer \in reach[c]
  \/ \E c \in a.consumers : b.producer \in reach[c]

Disjoint(reach, a, b) ==
  \/ \A c \in b.consumers : a.producer \in reach[c]
  \/ \A c \in a.consumers : b.producer \in reach[c]

-----------------------------------------------------------------------------
(***************************************************************************)
(* First fit, largest first.  Objects of one size are taken in the order   *)
(* in which the schedule starts their producers; it is either "up", with   *)
(* the process numbers, or "down", against them: the result is looked at   *)
(* for both.                                                               *)
(***************************************************************************)
Birth(order, p) == IF order = "up" THEN p ELSE -p

Before(objs, order, a, b) ==
  \/ objs[a].bytes > objs[b].bytes
  \/ /\ objs[a].bytes = objs[b].bytes
     /\ \/ Birth(order, a[1]) < Birth(order, b[1])
        \/ a[1] = b[1] /\ a[2] < b[2]

\* The first of those still to be placed.
First(objs, order, left) == CHOOSE r \in left : \A q \in left : ~Before(objs, order, q, r)

\* The search jumps from the start to the end of each conflicting object in
\* turn, so it ends at 0 or at the end of one of them.
Offset(objs, reach, placed, r) ==
  LET starts == {0} \cup {AlignUp(placed[o] + objs[o].bytes) : o \in DOMAIN placed}
  IN Min({s \in starts : \A o \in DOMAIN placed :
            Overlap(s, objs[r].bytes, placed[o], objs[o].bytes)
              => Disjoint(reach, objs[r], objs[o])})

Place(objs, reach, order, placed) ==
  LET r  == First(objs, order, DOMAIN objs \ DOMAIN placed)
      at == Offset(objs, reach, placed, r)
  IN [o \in DOMAIN placed \cup {r} |-> IF o = r THEN at ELSE placed[o]]

\* Where each root's storage starts, in a program whose processes are all in
\* one pool.
Plan(objs, reach, order) ==
  LET all == Cardinality(DOMAIN objs)
      placed[n \in 0 .. all] ==
        IF n = 0 THEN [o \in {} |-> 0]
        ELSE LET before == placed[n - 1] IN Place(objs, reach, order, before)
  IN placed[all]

\* The pairs of roots that the plan puts in the same bytes.
SharedPairs(g, order) ==
  LET objs == EdgeObjects(g)
      plan == Plan(objs, Reachability(g), order)
  IN {rs \in (DOMAIN objs) \X (DOMAIN objs) :
        /\ rs[1] # rs[2]
        /\ Overlap(plan[rs[1]], objs[rs[1]].bytes, plan[rs[2]], objs[rs[2]].bytes)}
===============================================================================
