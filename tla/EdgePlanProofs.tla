--------------------------- MODULE EdgePlanProofs ---------------------------
(***************************************************************************)
(* Proofs about the planner's placement: in every well-formed program, two *)
(* objects that first fit puts in the same bytes are ordered by the graph. *)
(***************************************************************************)
EXTENDS EdgePlan, WellFoundedInduction, FiniteSetTheorems, TLAPS

-----------------------------------------------------------------------------
(* Induction and finite sets.                                              *)

\* Induction over the naturals, for a set.
LEMMA NatSetInduction ==
  ASSUME NEW S, 0 \in S, \A n \in Nat : n \in S => n + 1 \in S
  PROVE  Nat \subseteq S
<1> DEFINE T == Nat \ S
<1>1. ASSUME T # {} PROVE FALSE
  <2>1. PICK x \in T : \A y \in T : ~(<<y, x>> \in OpToRel(<, Nat))
    BY <1>1, WFMin, NatLessThanWellFounded
  <2>2. \A y \in T : ~(y < x)
    BY <2>1 DEF OpToRel
  <2>3. x # 0 /\ x - 1 \in Nat /\ x - 1 < x
    OBVIOUS
  <2>4. x - 1 \in S
    BY <2>2, <2>3
  <2>5. QED
    BY <2>3, <2>4
<1>2. QED
  BY <1>1

\* A nonempty finite set has a minimal element in a strict order.
LEMMA Minimal ==
  ASSUME NEW S, IsFiniteSet(S), S # {}, NEW R,
         \A x \in S : <<x, x>> \notin R,
         \A x, y, z \in S : <<x, y>> \in R /\ <<y, z>> \in R => <<x, z>> \in R
  PROVE  \E x \in S : \A y \in S : <<y, x>> \notin R
<1> DEFINE Good(T) == T = {} \/ \E x \in T : \A y \in T : <<y, x>> \notin R
           G == {n \in Nat : \A T \in SUBSET S : Cardinality(T) = n => Good(T)}
<1>1. \A T \in SUBSET S : IsFiniteSet(T) /\ Cardinality(T) \in Nat
  BY FS_Subset, FS_CardinalityType
<1>2. 0 \in G
  BY <1>1, FS_EmptySet
<1>3. ASSUME NEW n \in Nat, n \in G PROVE n + 1 \in G
  <2> SUFFICES ASSUME NEW T \in SUBSET S, Cardinality(T) = n + 1, NEW x \in T,
                      \A m \in T : \E y \in T : <<y, m>> \in R
               PROVE FALSE
    BY <1>1, FS_EmptySet
  <2>1. Cardinality(T \ {x}) = n /\ T \ {x} \in SUBSET S
    <3>1. Cardinality(T \ {x}) = Cardinality(T) - 1
      BY <1>1, FS_RemoveElement
    <3>2. QED
      BY <3>1
  <2>2. Good(T \ {x})
    BY <1>3, <2>1
  <2>3. PICK y \in T : <<y, x>> \in R
    OBVIOUS
  <2>4. y \in T \ {x}
    BY <2>3
  <2>5. PICK m \in T \ {x} : \A z \in T \ {x} : <<z, m>> \notin R
    BY <2>2, <2>4
  <2>6. <<x, m>> \in R
    BY <2>5
  <2>7. <<y, m>> \in R
    BY <2>3, <2>6
  <2>8. QED
    BY <2>4, <2>5, <2>7
<1>4. Cardinality(S) \in G
  BY <1>1, <1>2, <1>3, NatSetInduction
<1>5. QED
  BY <1>4

\* Finite nonempty sets of integers have a least and a greatest element.
LEMMA MinMax ==
  ASSUME NEW S \in SUBSET Int, IsFiniteSet(S), S # {}
  PROVE  /\ Min(S) \in S /\ \A y \in S : Min(S) <= y
         /\ Max(S) \in S /\ \A y \in S : Max(S) >= y
<1>1. \E x \in S : \A y \in S : x <= y
  <2> DEFINE R == {e \in S \X S : e[1] < e[2]}
  <2>1. \A x \in S : <<x, x>> \notin R
    OBVIOUS
  <2>2. \A x, y, z \in S : <<x, y>> \in R /\ <<y, z>> \in R => <<x, z>> \in R
    OBVIOUS
  <2>3. \A x, y \in S : x < y => <<x, y>> \in R
    OBVIOUS
  <2> HIDE DEF R
  <2>4. PICK x \in S : \A y \in S : <<y, x>> \notin R
    BY <2>1, <2>2, Minimal
  <2>5. \A y \in S : ~(y < x) /\ x \in Int /\ y \in Int
    BY <2>3, <2>4
  <2>6. \A y \in S : x <= y
    BY <2>5
  <2>7. QED
    BY <2>6
<1>2. \E x \in S : \A y \in S : x >= y
  <2> DEFINE R == {e \in S \X S : e[1] > e[2]}
  <2>1. \A x \in S : <<x, x>> \notin R
    OBVIOUS
  <2>2. \A x, y, z \in S : <<x, y>> \in R /\ <<y, z>> \in R => <<x, z>> \in R
    OBVIOUS
  <2>3. \A x, y \in S : x > y => <<x, y>> \in R
    OBVIOUS
  <2> HIDE DEF R
  <2>4. PICK x \in S : \A y \in S : <<y, x>> \notin R
    BY <2>1, <2>2, Minimal
  <2>5. \A y \in S : ~(y > x) /\ x \in Int /\ y \in Int
    BY <2>3, <2>4
  <2>6. \A y \in S : x >= y
    BY <2>5
  <2>7. QED
    BY <2>6
<1>3. QED
  BY <1>1, <1>2 DEF Min, Max

\* The values of a function on a finite set.
LEMMA FiniteImage ==
  ASSUME NEW S, IsFiniteSet(S), NEW f
  PROVE  IsFiniteSet({f[x] : x \in S})
<1> DEFINE T == {f[x] : x \in S}
           h == [x \in S |-> f[x]]
<1>1. h \in Surjection(S, T)
  BY DEF Surjection
<1>2. QED
  BY <1>1, FS_Surjection

-----------------------------------------------------------------------------
(* Reachability.                                                           *)

\* The recursion of Reachability is well defined.
LEMMA ReachRule ==
  ASSUME NEW g, IsFiniteSet(DOMAIN g.kind)
  PROVE  \E reach :
           /\ Reachability(g) = reach[Cardinality(DOMAIN g.kind)]
           /\ reach[0] = Successors(g)
           /\ \A n \in Nat : n < Cardinality(DOMAIN g.kind) => reach[n + 1] = Onward(g, reach[n])
<1> DEFINE next == Successors(g)
           all  == Cardinality(DOMAIN g.kind)
           Rule(h, m) == h = [n \in 0 .. m |-> IF n = 0 THEN next ELSE Onward(g, h[n - 1])]
           reach == CHOOSE h : Rule(h, all)
           S == {m \in Nat : \E h : Rule(h, m)}
<1> HIDE DEF next
<1>1. all \in Nat
  BY FS_CardinalityType
<1>2. 0 \in S
  <2> DEFINE h == [n \in 0 .. 0 |-> next]
  <2>1. Rule(h, 0)
    OBVIOUS
  <2> HIDE DEF h
  <2>2. QED
    BY <2>1
<1>3. ASSUME NEW m \in Nat, m \in S PROVE m + 1 \in S
  <2>1. PICK h : Rule(h, m)
    BY <1>3
  <2> DEFINE k == [n \in 0 .. m + 1 |-> IF n = m + 1 THEN Onward(g, h[m]) ELSE h[n]]
  <2>2. \A n \in 0 .. m + 1 : k[n] = IF n = 0 THEN next ELSE Onward(g, k[n - 1])
    BY <2>1
  <2>3. Rule(k, m + 1)
    BY <2>2
  <2> HIDE DEF k
  <2>4. QED
    BY <2>3
<1>4. \E h : Rule(h, all)
  <2> HIDE DEF S, all
  <2>1. Nat \subseteq S
    BY <1>2, <1>3, NatSetInduction
  <2>2. QED
    BY <1>1, <2>1 DEF S
<1>5. Rule(reach, all)
  BY <1>4
<1>6. Reachability(g) = reach[all]
  BY DEF Reachability, next
<1> HIDE DEF reach
<1>7. ASSUME NEW n \in Nat, n < all PROVE reach[n + 1] = Onward(g, reach[n])
  <2> HIDE DEF all
  <2>1. n + 1 \in 0 .. all /\ n + 1 # 0 /\ (n + 1) - 1 = n
    BY <1>1, <1>7
  <2>2. reach[n + 1] = Onward(g, reach[(n + 1) - 1])
    BY <1>5, <2>1
  <2>3. QED
    BY <2>1, <2>2
<1>8. reach[0] = next
  BY <1>1, <1>5
<1>9. QED
  BY <1>6, <1>7, <1>8 DEF next

\* As many steps as there are processes are enough: nothing is left out.
LEMMA ReachClosed ==
  ASSUME NEW g, IsFiniteSet(DOMAIN g.kind),
         \A c \in g.conns : {c.src, c.dst} \subseteq DOMAIN g.kind,
         NEW p \in DOMAIN g.kind
  PROVE  /\ Reachability(g)[p] \subseteq DOMAIN g.kind
         /\ \A c \in g.conns : c.src = p \/ c.src \in Reachability(g)[p]
                                 => c.dst \in Reachability(g)[p]
<1> DEFINE D   == DOMAIN g.kind
           all == Cardinality(D)
<1>1. PICK reach : /\ Reachability(g) = reach[all]
                   /\ reach[0] = Successors(g)
                   /\ \A n \in Nat : n < all => reach[n + 1] = Onward(g, reach[n])
  BY ReachRule
<1>2. all \in Nat
  BY FS_CardinalityType
<1>3. \A R \in SUBSET D : /\ IsFiniteSet(R) /\ Cardinality(R) \in Nat
                          /\ Further(g, R) \in SUBSET D /\ R \subseteq Further(g, R)
  BY FS_Subset, FS_CardinalityType DEF Further
<1> DEFINE Fixed(R) == Further(g, R) = R
           S == {m \in Nat : m <= all =>
                   /\ reach[m][p] \in SUBSET D /\ Successors(g)[p] \subseteq reach[m][p]
                   /\ Fixed(reach[m][p]) \/ Cardinality(reach[m][p]) >= m}
<1>4. 0 \in S
  <2>1. reach[0][p] \in SUBSET D /\ reach[0][p] = Successors(g)[p]
    BY <1>1 DEF Successors
  <2>2. QED
    BY <1>3, <2>1
<1>5. ASSUME NEW m \in Nat, m \in S PROVE m + 1 \in S
  <2> SUFFICES ASSUME m + 1 <= all
               PROVE  /\ reach[m + 1][p] \in SUBSET D
                      /\ Successors(g)[p] \subseteq reach[m + 1][p]
                      /\ Fixed(reach[m + 1][p]) \/ Cardinality(reach[m + 1][p]) >= m + 1
    OBVIOUS
  <2> HIDE DEF all, D
  <2>1. reach[m + 1][p] = Further(g, reach[m][p])
    <3>1. reach[m + 1] = Onward(g, reach[m])
      BY <1>1, <1>2
    <3>2. QED
      BY <3>1 DEF Onward
  <2>2. /\ reach[m][p] \in SUBSET D /\ Successors(g)[p] \subseteq reach[m][p]
        /\ Fixed(reach[m][p]) \/ Cardinality(reach[m][p]) >= m
    BY <1>2, <1>5
  <2>3. reach[m + 1][p] \in SUBSET D /\ reach[m][p] \subseteq reach[m + 1][p]
    BY <1>3, <2>1, <2>2
  <2>4. CASE Fixed(reach[m][p])
    BY <2>1, <2>2, <2>4
  <2>5. CASE ~Fixed(reach[m][p])
    <3>1. reach[m][p] # reach[m + 1][p]
      BY <2>1, <2>5
    <3>2. Cardinality(reach[m][p]) < Cardinality(reach[m + 1][p])
      BY <1>3, <2>3, <3>1, FS_Subset
    <3>3. QED
      BY <1>3, <2>2, <2>3, <2>5, <3>2
  <2>6. QED
    BY <2>4, <2>5
<1>6. all \in S
  <2> HIDE DEF S
  <2>1. QED
    BY <1>2, <1>4, <1>5, NatSetInduction
<1>7. Fixed(reach[all][p])
  <2>1. CASE Cardinality(reach[all][p]) >= all
    <3>1. reach[all][p] = D
      BY <1>2, <1>3, <1>6, <2>1, FS_Subset
    <3>2. QED
      BY <1>3, <3>1
  <2>2. QED
    BY <1>2, <1>6, <2>1
<1>8. QED
  BY <1>1, <1>2, <1>6, <1>7 DEF Further, Successors

\* Nothing is in it that need not be.
LEMMA ReachLeast ==
  ASSUME NEW g, IsFiniteSet(DOMAIN g.kind), NEW p \in DOMAIN g.kind, NEW R,
         \A c \in g.conns : c.src = p \/ c.src \in R => c.dst \in R
  PROVE  Reachability(g)[p] \subseteq R
<1> DEFINE all == Cardinality(DOMAIN g.kind)
<1>1. PICK reach : /\ Reachability(g) = reach[all]
                   /\ reach[0] = Successors(g)
                   /\ \A n \in Nat : n < all => reach[n + 1] = Onward(g, reach[n])
  BY ReachRule
<1>2. all \in Nat
  BY FS_CardinalityType
<1> HIDE DEF all
<1> DEFINE S == {m \in Nat : m <= all => reach[m][p] \subseteq R}
<1>3. 0 \in S
  BY <1>1 DEF Successors
<1>4. ASSUME NEW m \in Nat, m \in S PROVE m + 1 \in S
  <2> SUFFICES ASSUME m + 1 <= all PROVE reach[m + 1][p] \subseteq R
    OBVIOUS
  <2>1. reach[m + 1][p] = Further(g, reach[m][p])
    <3>1. reach[m + 1] = Onward(g, reach[m])
      BY <1>1, <1>2
    <3>2. QED
      BY <3>1 DEF Onward
  <2>2. reach[m][p] \subseteq R
    BY <1>2, <1>4
  <2>3. QED
    BY <2>1, <2>2 DEF Further
<1> HIDE DEF S
<1>5. Nat \subseteq S
  BY <1>3, <1>4, NatSetInduction
<1>6. QED
  BY <1>1, <1>2, <1>5 DEF S

\* _build_reachability: the processes after p are the descendants of p, the
\* smallest set that no edge leaves from p or from one of them.
THEOREM Descendants ==
  ASSUME NEW g, WellFormed(g), NEW p \in DOMAIN g.kind
  PROVE  LET Closed(R) == \A c \in g.conns : c.src = p \/ c.src \in R => c.dst \in R
         IN  /\ Closed(Reachability(g)[p])
             /\ \A R : Closed(R) => Reachability(g)[p] \subseteq R
<1>1. \A R : (\A c \in g.conns : c.src = p \/ c.src \in R => c.dst \in R)
               => Reachability(g)[p] \subseteq R
  BY ReachLeast DEF WellFormed
<1>2. QED
  BY <1>1, ReachClosed DEF WellFormed

\* Whoever is after p is the target of an edge from p, or from one after p.
LEMMA ReachLastEdge ==
  ASSUME NEW g, WellFormed(g), NEW p \in DOMAIN g.kind, NEW q \in Reachability(g)[p]
  PROVE  \E c \in g.conns : c.dst = q /\ (c.src = p \/ c.src \in Reachability(g)[p])
<1> DEFINE From(y) == \E c \in g.conns : c.dst = y /\ (c.src = p \/ c.src \in Reachability(g)[p])
           R == {y \in Reachability(g)[p] : From(y)}
<1>1. ASSUME NEW c \in g.conns, c.src = p \/ c.src \in R PROVE c.dst \in R
  BY <1>1, ReachClosed DEF WellFormed
<1> HIDE DEF R
<1>2. Reachability(g)[p] \subseteq R
  BY <1>1, ReachLeast DEF WellFormed
<1>3. QED
  BY <1>2 DEF R

\* One after another is after the first.
LEMMA ReachTransitive ==
  ASSUME NEW g, IsFiniteSet(DOMAIN g.kind),
         \A c \in g.conns : {c.src, c.dst} \subseteq DOMAIN g.kind,
         NEW p \in DOMAIN g.kind, NEW q \in Reachability(g)[p]
  PROVE  Reachability(g)[q] \subseteq Reachability(g)[p]
<1>1. q \in DOMAIN g.kind
  BY ReachClosed
<1>2. \A c \in g.conns : c.src = q \/ c.src \in Reachability(g)[p] => c.dst \in Reachability(g)[p]
  BY ReachClosed
<1>3. QED
  BY <1>1, <1>2, ReachLeast

-----------------------------------------------------------------------------
(* Roots.                                                                  *)

\* The edges of a well-formed program order its output ports strictly.
LEMMA PortOrder ==
  ASSUME NEW g, WellFormed(g)
  PROVE  LET E == {e \in Sources(g) \X Sources(g) : e[2][1] \in Reachability(g)[e[1][1]]}
         IN  /\ IsFiniteSet(Sources(g))
             /\ \A s \in Sources(g) : s[1] \in DOMAIN g.kind /\ s[1] \in Int /\ s[2] \in Int
             /\ \A s \in Sources(g) : <<s, s>> \notin E
             /\ \A s, t, u \in Sources(g) : <<s, t>> \in E /\ <<t, u>> \in E => <<s, u>> \in E
<1> DEFINE E == {e \in Sources(g) \X Sources(g) : e[2][1] \in Reachability(g)[e[1][1]]}
<1>1. IsFiniteSet(Sources(g))
  <2> DEFINE source == [c \in g.conns |-> <<c.src, c.sp>>]
  <2>1. IsFiniteSet({source[c] : c \in g.conns})
    BY FiniteImage DEF WellFormed
  <2>2. QED
    BY <2>1 DEF Sources
<1>2. \A s \in Sources(g) : s[1] \in DOMAIN g.kind /\ s[1] \in Int /\ s[2] \in Int
  BY DEF Sources, WellFormed
<1>3. \A s \in Sources(g) : <<s, s>> \notin E
  BY <1>2 DEF WellFormed
<1>4. ASSUME NEW s \in Sources(g), NEW t \in Sources(g), NEW u \in Sources(g),
             <<s, t>> \in E, <<t, u>> \in E
      PROVE  <<s, u>> \in E
  <2>1. s[1] \in DOMAIN g.kind /\ t[1] \in Reachability(g)[s[1]]
    BY <1>2, <1>4
  <2>2. Reachability(g)[t[1]] \subseteq Reachability(g)[s[1]]
    BY <2>1, ReachTransitive DEF WellFormed
  <2>3. QED
    BY <1>4, <2>2
<1>5. QED
  BY <1>1, <1>2, <1>3, <1>4

\* A forwarder has one input, which comes before it.
LEMMA ParentBefore ==
  ASSUME NEW g, WellFormed(g), NEW s \in Sources(g), Forwards(g, s)
  PROVE  /\ Parent(g, s) \in Sources(g)
         /\ s[1] \in Reachability(g)[Parent(g, s)[1]]
         /\ \A c \in Incoming(g, s[1]) : Parent(g, s) = <<c.src, c.sp>>
<1> DEFINE in == Incoming(g, s[1])
<1>1. IsFiniteSet(in)
  BY FS_Subset DEF Incoming, WellFormed
<1>2. PICK c : in = {c}
  BY <1>1, FS_Singleton DEF Forwards
<1>3. c \in g.conns /\ c.dst = s[1]
  BY <1>2 DEF Incoming
<1>4. Parent(g, s) = <<c.src, c.sp>>
  BY <1>2 DEF Parent
<1>5. c.src \in DOMAIN g.kind
  BY <1>3 DEF WellFormed
<1>6. s[1] \in Reachability(g)[c.src]
  BY <1>3, <1>5, ReachClosed DEF WellFormed
<1>7. QED
  BY <1>2, <1>3, <1>4, <1>6 DEF Sources

\* resolve_root ends: its recursion is well defined.
LEMMA RootRule ==
  ASSUME NEW g, WellFormed(g)
  PROVE  RootOf(g) = [s \in Sources(g) |->
                        IF Forwards(g, s) THEN RootOf(g)[Parent(g, s)] ELSE s]
<1> DEFINE all == Cardinality(Sources(g))
           E == {e \in Sources(g) \X Sources(g) : e[2][1] \in Reachability(g)[e[1][1]]}
           Rule(h, A) == h = [s \in A |-> IF Forwards(g, s) THEN h[Parent(g, s)] ELSE s]
           Good(A) == /\ A \in SUBSET Sources(g)
                      /\ \A s \in A : Forwards(g, s) => Parent(g, s) \in A
                      /\ \E h : Rule(h, A)
           S == {n \in Nat : n <= all => \E A : Good(A) /\ Cardinality(A) = n}
<1>1. /\ IsFiniteSet(Sources(g))
      /\ \A s \in Sources(g) : <<s, s>> \notin E
      /\ \A s, t, u \in Sources(g) : <<s, t>> \in E /\ <<t, u>> \in E => <<s, u>> \in E
  BY PortOrder
<1>2. \A s \in Sources(g) : Forwards(g, s) => <<Parent(g, s), s>> \in E
  BY ParentBefore
<1>3. all \in Nat /\ \A A \in SUBSET Sources(g) : IsFiniteSet(A)
  BY <1>1, FS_CardinalityType, FS_Subset
<1> HIDE DEF E
<1>4. 0 \in S
  <2> DEFINE h == [s \in {} |-> s]
  <2>1. Rule(h, {})
    OBVIOUS
  <2> HIDE DEF h
  <2>2. QED
    BY <2>1, FS_EmptySet
<1>5. ASSUME NEW n \in Nat, n \in S PROVE n + 1 \in S
  <2> SUFFICES ASSUME n + 1 <= all PROVE \E A : Good(A) /\ Cardinality(A) = n + 1
    OBVIOUS
  <2>1. PICK A : Good(A) /\ Cardinality(A) = n
    BY <1>3, <1>5
  <2>2. Sources(g) \ A # {} /\ IsFiniteSet(Sources(g) \ A)
    BY <1>3, <2>1
  <2>3. PICK m \in Sources(g) \ A : \A s \in Sources(g) \ A : <<s, m>> \notin E
    <3> DEFINE left == Sources(g) \ A
    <3>1. \A s \in left : <<s, s>> \notin E
      BY <1>1
    <3>2. \A s, t, u \in left : <<s, t>> \in E /\ <<t, u>> \in E => <<s, u>> \in E
      BY <1>1
    <3>3. left # {} /\ IsFiniteSet(left)
      BY <2>2
    <3> HIDE DEF left
    <3>4. \E m \in left : \A s \in left : <<s, m>> \notin E
      BY <3>1, <3>2, <3>3, Minimal
    <3>5. QED
      BY <3>4 DEF left
  <2>4. Forwards(g, m) => Parent(g, m) \in A
    BY <1>2, <2>3, ParentBefore
  <2>5. PICK h : Rule(h, A)
    BY <2>1
  <2> DEFINE k == [s \in A \cup {m} |-> IF s = m THEN IF Forwards(g, m) THEN h[Parent(g, m)] ELSE m
                                                 ELSE h[s]]
  <2>6. ASSUME NEW s \in A \cup {m}
        PROVE  k[s] = IF Forwards(g, s) THEN k[Parent(g, s)] ELSE s
    <3>1. CASE s = m
      BY <2>3, <2>4, <3>1
    <3>2. CASE s # m
      <4>1. s \in A /\ k[s] = h[s] /\ h[s] = IF Forwards(g, s) THEN h[Parent(g, s)] ELSE s
        BY <2>5, <3>2
      <4>2. Forwards(g, s) => Parent(g, s) \in A /\ k[Parent(g, s)] = h[Parent(g, s)]
        BY <2>1, <2>3, <4>1
      <4>3. QED
        BY <4>1, <4>2
    <3>3. QED
      BY <3>1, <3>2
  <2>7. Rule(k, A \cup {m})
    BY <2>6
  <2> HIDE DEF k
  <2>8. Good(A \cup {m})
    BY <2>1, <2>3, <2>4, <2>7
  <2>9. Cardinality(A \cup {m}) = n + 1
    BY <1>3, <2>1, <2>3, FS_AddElement
  <2>10. QED
    BY <2>8, <2>9
<1>6. \E A : Good(A) /\ Cardinality(A) = all
  <2> HIDE DEF S
  <2>1. all \in S
    BY <1>3, <1>4, <1>5, NatSetInduction
  <2>2. QED
    BY <1>3, <2>1 DEF S
<1>7. \E h : Rule(h, Sources(g))
  BY <1>1, <1>6, FS_Subset
<1>8. Rule(CHOOSE h : Rule(h, Sources(g)), Sources(g))
  BY <1>7
<1>9. RootOf(g) = CHOOSE h : Rule(h, Sources(g))
  BY DEF RootOf
<1>10. QED
  BY <1>8, <1>9

\* The root of a port is a port, and its producer is no forwarder.
LEMMA RootIsSource ==
  ASSUME NEW g, WellFormed(g), NEW s \in Sources(g)
  PROVE  RootOf(g)[s] \in Sources(g) /\ ~Forwards(g, RootOf(g)[s])
<1> DEFINE E == {e \in Sources(g) \X Sources(g) : e[2][1] \in Reachability(g)[e[1][1]]}
           Good(t) == RootOf(g)[t] \in Sources(g) /\ ~Forwards(g, RootOf(g)[t])
           Bad == {t \in Sources(g) : ~Good(t)}
<1>1. /\ IsFiniteSet(Sources(g))
      /\ \A t \in Sources(g) : <<t, t>> \notin E
      /\ \A t, u, v \in Sources(g) : <<t, u>> \in E /\ <<u, v>> \in E => <<t, v>> \in E
  BY PortOrder
<1>2. \A t \in Sources(g) :
        Forwards(g, t) => Parent(g, t) \in Sources(g) /\ <<Parent(g, t), t>> \in E
  BY ParentBefore
<1> HIDE DEF E
<1>3. ASSUME Bad # {} PROVE FALSE
  <2>1. IsFiniteSet(Bad) /\ \A t \in Bad : <<t, t>> \notin E
    BY <1>1, FS_Subset
  <2>2. \A t, u, v \in Bad : <<t, u>> \in E /\ <<u, v>> \in E => <<t, v>> \in E
    BY <1>1
  <2>3. PICK m \in Bad : \A t \in Bad : <<t, m>> \notin E
    <3> HIDE DEF Bad
    <3>1. QED
      BY <1>3, <2>1, <2>2, Minimal
  <2>4. RootOf(g)[m] = IF Forwards(g, m) THEN RootOf(g)[Parent(g, m)] ELSE m
    BY RootRule
  <2>5. QED
    BY <1>2, <2>3, <2>4
<1>4. QED
  BY <1>3

\* Whatever leaves a forwarder belongs to the object that its input belongs to.
LEMMA ForwardedMember ==
  ASSUME NEW g, WellFormed(g), NEW r \in DOMAIN Members(g), NEW c \in Members(g)[r],
         NEW d \in g.conns, d.src = c.dst, Forwards(g, <<d.src, d.sp>>)
  PROVE  d \in Members(g)[r]
<1>1. DOMAIN Members(g) = {RootOf(g)[s] : s \in Sources(g)}
  BY DEF Members
<1>2. Members(g)[r] = {e \in g.conns : RootOf(g)[<<e.src, e.sp>>] = r}
  BY <1>1 DEF Members
<1>3. <<d.src, d.sp>> \in Sources(g) /\ c \in Incoming(g, d.src)
  BY <1>2 DEF Sources, Incoming
<1>4. Parent(g, <<d.src, d.sp>>) = <<c.src, c.sp>>
  BY <1>3, ParentBefore
<1>5. RootOf(g)[<<d.src, d.sp>>] = RootOf(g)[<<c.src, c.sp>>]
  BY <1>3, <1>4, RootRule
<1>6. QED
  BY <1>2, <1>5

-----------------------------------------------------------------------------
(* First fit.                                                              *)

\* What the placement is given: sizes, and the number and the port of each
\* producer.
Sized(objs) ==
  /\ IsFiniteSet(DOMAIN objs)
  /\ \A r \in DOMAIN objs : objs[r].bytes \in Nat /\ r[1] \in Int /\ r[2] \in Int

\* What has been placed so far.
Placed(objs, reach, placed) ==
  /\ DOMAIN placed \subseteq DOMAIN objs
  /\ placed \in [DOMAIN placed -> Nat]
  /\ \A a, b \in DOMAIN placed :
       a # b /\ Overlap(placed[a], objs[a].bytes, placed[b], objs[b].bytes)
         => Disjoint(reach, objs[a], objs[b])

\* Rounding up to the alignment.
LEMMA Aligned == \A v \in Nat : AlignUp(v) \in Nat /\ AlignUp(v) >= v
  BY DEF AlignUp, EDGE_ALIGNMENT_BYTES

\* There is a first one of those still to be placed.
LEMMA FirstIsLeft ==
  ASSUME NEW objs, Sized(objs), NEW order, NEW left \in SUBSET DOMAIN objs, left # {}
  PROVE  First(objs, order, left) \in left
<1> DEFINE R == {e \in left \X left : Before(objs, order, e[1], e[2])}
<1>1. \A r \in left : /\ objs[r].bytes \in Nat /\ r[1] \in Int /\ r[2] \in Int
                      /\ Birth(order, r[1]) \in Int
  BY DEF Sized, Birth
<1>2. \A x \in left : <<x, x>> \notin R
  BY <1>1 DEF Before
<1>3. \A x, y, z \in left : Before(objs, order, x, y) /\ Before(objs, order, y, z)
                              => Before(objs, order, x, z)
  <2> TAKE x, y, z \in left
  <2>1. \A r \in {x, y, z} : objs[r].bytes \in Nat /\ r[1] \in Int /\ r[2] \in Int
                               /\ Birth(order, r[1]) \in Int
    BY <1>1
  <2>2. x[1] = y[1] => Birth(order, x[1]) = Birth(order, y[1])
    OBVIOUS
  <2>3. y[1] = z[1] => Birth(order, y[1]) = Birth(order, z[1])
    OBVIOUS
  <2>4. QED
    BY <2>1, <2>2, <2>3 DEF Before
<1>4. \A x, y \in left : <<x, y>> \in R <=> Before(objs, order, x, y)
  OBVIOUS
<1> HIDE DEF R
<1>5. IsFiniteSet(left)
  BY FS_Subset DEF Sized
<1>6. PICK x \in left : \A y \in left : <<y, x>> \notin R
  BY <1>2, <1>3, <1>4, <1>5, Minimal
<1>7. QED
  BY <1>4, <1>6 DEF First

\* Where the search comes by: the start, and the ends of the placed objects.
Starts(objs, placed) == {0} \cup {AlignUp(placed[o] + objs[o].bytes) : o \in DOMAIN placed}

\* The placed objects that object r cannot be put at offset s for.
Conflicts(objs, reach, placed, r, s) ==
  {o \in DOMAIN placed : /\ Overlap(s, objs[r].bytes, placed[o], objs[o].bytes)
                         /\ ~Disjoint(reach, objs[r], objs[o])}

\* The offset found conflicts with nothing placed before, and is the least
\* such start.
LEMMA OffsetFits ==
  ASSUME NEW objs, Sized(objs), NEW reach, NEW placed, Placed(objs, reach, placed),
         NEW r \in DOMAIN objs
  PROVE  /\ Offset(objs, reach, placed, r) \in Nat
         /\ \A o \in DOMAIN placed :
              Overlap(Offset(objs, reach, placed, r), objs[r].bytes, placed[o], objs[o].bytes)
                => Disjoint(reach, objs[r], objs[o])
         /\ Offset(objs, reach, placed, r) \in Starts(objs, placed)
         /\ \A s \in Starts(objs, placed) :
              Conflicts(objs, reach, placed, r, s) = {} => Offset(objs, reach, placed, r) <= s
<1> DEFINE End(o) == AlignUp(placed[o] + objs[o].bytes)
           starts == {0} \cup {End(o) : o \in DOMAIN placed}
           Free(s) == \A o \in DOMAIN placed :
                        Overlap(s, objs[r].bytes, placed[o], objs[o].bytes)
                          => Disjoint(reach, objs[r], objs[o])
           free == {s \in starts : Free(s)}
<1>1. \A o \in DOMAIN placed : /\ placed[o] \in Nat /\ objs[o].bytes \in Nat
                               /\ End(o) \in Nat /\ End(o) >= placed[o] + objs[o].bytes
  BY Aligned DEF Sized, Placed
<1>2. starts \in SUBSET Nat /\ starts # {}
  BY <1>1
<1>3. IsFiniteSet(starts)
  <2>1. IsFiniteSet(DOMAIN placed)
    BY FS_Subset DEF Sized, Placed
  <2> DEFINE end == [o \in DOMAIN placed |-> End(o)]
  <2>2. IsFiniteSet({end[o] : o \in DOMAIN placed})
    BY <2>1, FiniteImage
  <2> DEFINE ends == {end[o] : o \in DOMAIN placed}
  <2>3. starts = ends \cup {0}
    OBVIOUS
  <2> HIDE DEF starts, ends
  <2>4. QED
    BY <2>2, <2>3, FS_AddElement DEF ends
<1>4. Max(starts) \in starts /\ \A y \in starts : Max(starts) >= y
  <2> HIDE DEF starts
  <2>1. QED
    BY <1>2, <1>3, MinMax
<1>5. Free(Max(starts))
  <2> SUFFICES ASSUME NEW o \in DOMAIN placed
               PROVE  ~Overlap(Max(starts), objs[r].bytes, placed[o], objs[o].bytes)
    OBVIOUS
  <2>1. Max(starts) >= End(o) /\ Max(starts) \in Nat
    BY <1>2, <1>4
  <2>2. QED
    BY <1>1, <2>1 DEF Overlap
<1>6. free \in SUBSET Nat /\ free # {} /\ IsFiniteSet(free)
  BY <1>2, <1>3, <1>4, <1>5, FS_Subset
<1>7. Min(free) \in free /\ \A s \in free : Min(free) <= s
  <2> HIDE DEF free
  <2>1. QED
    BY <1>6, MinMax
<1>8. Offset(objs, reach, placed, r) = Min(free)
  BY DEF Offset
<1>9. \A s \in Starts(objs, placed) : Conflicts(objs, reach, placed, r, s) = {} => s \in free
  BY DEF Starts, Conflicts
<1>10. free \subseteq Starts(objs, placed)
  BY DEF Starts
<1>11. QED
  BY <1>6, <1>7, <1>8, <1>9, <1>10

\* A start is a multiple of the alignment.
LEMMA StartsAligned ==
  ASSUME NEW objs, Sized(objs), NEW reach, NEW placed, Placed(objs, reach, placed)
  PROVE  \A s \in Starts(objs, placed) : s \in Nat /\ AlignUp(s) = s
<1>1. \A v \in Nat : AlignUp(v) \in Nat /\ AlignUp(AlignUp(v)) = AlignUp(v)
  BY DEF AlignUp, EDGE_ALIGNMENT_BYTES
<1>2. \A o \in DOMAIN placed : placed[o] + objs[o].bytes \in Nat
  BY DEF Sized, Placed
<1>3. AlignUp(0) = 0
  BY DEF AlignUp, EDGE_ALIGNMENT_BYTES
<1>4. QED
  BY <1>1, <1>2, <1>3 DEF Starts

\* The search of allocate_edge_objects from any offset that it comes by: while
\* an object conflicts there, it jumps to the end of that object, forwards and
\* not past the offset of the plan; where none does, that offset is reached.
\* So the loop ends, with the least offset that fits, whichever conflicting
\* object it finds first.
THEOREM SearchEnds ==
  ASSUME NEW objs, Sized(objs), NEW reach, NEW placed, Placed(objs, reach, placed),
         NEW r \in DOMAIN objs,
         NEW s \in Starts(objs, placed), s <= Offset(objs, reach, placed, r)
  PROVE  /\ Conflicts(objs, reach, placed, r, s) = {} => s = Offset(objs, reach, placed, r)
         /\ \A o \in Conflicts(objs, reach, placed, r, s) :
              LET next == AlignUp(placed[o] + objs[o].bytes)
              IN /\ next \in Starts(objs, placed) /\ s < next
                 /\ next <= Offset(objs, reach, placed, r)
<1> DEFINE found == Offset(objs, reach, placed, r)
<1>1. /\ found \in Starts(objs, placed) /\ s \in Nat /\ found \in Nat
      /\ AlignUp(s) = s /\ AlignUp(found) = found
  BY OffsetFits, StartsAligned
<1>2. ASSUME Conflicts(objs, reach, placed, r, s) = {} PROVE s = found
  <2>1. found <= s
    BY <1>2, OffsetFits
  <2> HIDE DEF found
  <2>2. QED
    BY <1>1, <2>1 DEF found
<1>3. ASSUME NEW o \in Conflicts(objs, reach, placed, r, s)
      PROVE  LET next == AlignUp(placed[o] + objs[o].bytes)
             IN next \in Starts(objs, placed) /\ s < next /\ next <= found
  <2> DEFINE end == placed[o] + objs[o].bytes
  <2>1. /\ o \in DOMAIN placed /\ ~Disjoint(reach, objs[r], objs[o])
        /\ Overlap(s, objs[r].bytes, placed[o], objs[o].bytes)
    BY DEF Conflicts
  <2>2. /\ placed[o] \in Nat /\ objs[o].bytes \in Nat /\ objs[r].bytes \in Nat
        /\ AlignUp(end) \in Nat /\ AlignUp(end) >= end
    BY <2>1, Aligned DEF Sized, Placed
  <2>3. ~Overlap(found, objs[r].bytes, placed[o], objs[o].bytes)
    BY <2>1, OffsetFits
  <2> HIDE DEF found
  <2>4. s < end /\ end <= found
    BY <1>1, <2>1, <2>2, <2>3 DEF Overlap, found
  <2>5. AlignUp(end) <= AlignUp(found)
    BY <1>1, <2>2, <2>4 DEF AlignUp, EDGE_ALIGNMENT_BYTES
  <2>6. AlignUp(end) \in Starts(objs, placed)
    BY <2>1 DEF Starts
  <2>7. QED
    BY <1>1, <2>2, <2>4, <2>5, <2>6
<1>4. QED
  BY <1>2, <1>3

\* Placing one more keeps what has been placed.
LEMMA PlaceStep ==
  ASSUME NEW objs, Sized(objs), NEW reach, NEW order, NEW placed,
         Placed(objs, reach, placed), DOMAIN placed # DOMAIN objs
  PROVE  /\ Placed(objs, reach, Place(objs, reach, order, placed))
         /\ Cardinality(DOMAIN Place(objs, reach, order, placed)) = Cardinality(DOMAIN placed) + 1
<1> DEFINE left == DOMAIN objs \ DOMAIN placed
           r    == First(objs, order, left)
           at   == Offset(objs, reach, placed, r)
           more == [o \in DOMAIN placed \cup {r} |-> IF o = r THEN at ELSE placed[o]]
<1>1. r \in DOMAIN objs /\ r \notin DOMAIN placed
  <2>1. left \in SUBSET DOMAIN objs /\ left # {}
    BY DEF Placed
  <2> HIDE DEF left
  <2>2. r \in left
    BY <2>1, FirstIsLeft
  <2>3. QED
    BY <2>2 DEF left
<1>2. more = Place(objs, reach, order, placed)
  BY DEF Place
<1>3. /\ at \in Nat
      /\ \A o \in DOMAIN placed : Overlap(at, objs[r].bytes, placed[o], objs[o].bytes)
                                    => Disjoint(reach, objs[r], objs[o])
  BY <1>1, OffsetFits
<1>4. IsFiniteSet(DOMAIN placed)
  BY FS_Subset DEF Sized, Placed
<1>5. Cardinality(DOMAIN placed \cup {r}) = Cardinality(DOMAIN placed) + 1
  BY <1>1, <1>4, FS_AddElement
<1>6. ASSUME NEW a \in DOMAIN more, NEW b \in DOMAIN more, a # b,
             Overlap(more[a], objs[a].bytes, more[b], objs[b].bytes)
      PROVE  Disjoint(reach, objs[a], objs[b])
  <2> HIDE DEF left, r, at
  <2>1. CASE a = r
    BY <1>1, <1>3, <1>6, <2>1
  <2>2. CASE b = r
    <3>1. Overlap(at, objs[r].bytes, placed[a], objs[a].bytes)
      BY <1>1, <1>6, <2>2 DEF Overlap
    <3>2. QED
      BY <1>3, <1>6, <2>2, <3>1 DEF Disjoint
  <2>3. CASE a # r /\ b # r
    BY <1>6, <2>3 DEF Placed
  <2>4. QED
    BY <2>1, <2>2, <2>3
<1> HIDE DEF left, r, at
<1>7. Placed(objs, reach, more)
  BY <1>1, <1>3, <1>6 DEF Placed
<1>8. QED
  BY <1>2, <1>5, <1>7

\* First fit places every object, and two of them in the same bytes only if
\* they are disjoint.
LEMMA PlanPlaces ==
  ASSUME NEW objs, Sized(objs), NEW reach, NEW order
  PROVE  /\ Placed(objs, reach, Plan(objs, reach, order))
         /\ DOMAIN Plan(objs, reach, order) = DOMAIN objs
<1> DEFINE none == [o \in {} |-> 0]
           all  == Cardinality(DOMAIN objs)
           Rule(h, m) ==
             h = [n \in 0 .. m |-> IF n = 0 THEN none ELSE Place(objs, reach, order, h[n - 1])]
           placed == CHOOSE h : Rule(h, all)
<1>1. all \in Nat
  BY FS_CardinalityType DEF Sized
<1>2. \E h : Rule(h, all)
  <2> DEFINE S == {m \in Nat : \E h : Rule(h, m)}
  <2> HIDE DEF none, all
  <2>1. 0 \in S
    <3> DEFINE h == [n \in 0 .. 0 |-> none]
    <3>1. Rule(h, 0)
      OBVIOUS
    <3> HIDE DEF h
    <3>2. QED
      BY <3>1
  <2>2. ASSUME NEW m \in Nat, m \in S PROVE m + 1 \in S
    <3>1. PICK h : Rule(h, m)
      BY <2>2
    <3> DEFINE k == [n \in 0 .. m + 1 |-> IF n = m + 1 THEN Place(objs, reach, order, h[m])
                                                        ELSE h[n]]
    <3>2. \A n \in 0 .. m + 1 :
            k[n] = IF n = 0 THEN none ELSE Place(objs, reach, order, k[n - 1])
      BY <3>1
    <3>3. Rule(k, m + 1)
      BY <3>2
    <3> HIDE DEF k
    <3>4. QED
      BY <3>3
  <2> HIDE DEF S
  <2>3. Nat \subseteq S
    BY <2>1, <2>2, NatSetInduction
  <2>4. QED
    BY <1>1, <2>3 DEF S
<1>3. Rule(placed, all)
  BY <1>2
<1>4. Plan(objs, reach, order) = placed[all]
  BY DEF Plan
<1> HIDE DEF placed
<1> DEFINE S == {m \in Nat : m <= all => /\ Placed(objs, reach, placed[m])
                                         /\ Cardinality(DOMAIN placed[m]) = m}
<1>5. 0 \in S
  <2>1. placed[0] = none
    BY <1>1, <1>3
  <2>2. DOMAIN none = {} /\ Cardinality({}) = 0
    BY FS_EmptySet
  <2>3. Placed(objs, reach, none)
    BY DEF Placed
  <2>4. QED
    BY <2>1, <2>2, <2>3
<1>6. ASSUME NEW m \in Nat, m \in S PROVE m + 1 \in S
  <2> SUFFICES ASSUME m + 1 <= all
               PROVE  /\ Placed(objs, reach, placed[m + 1])
                      /\ Cardinality(DOMAIN placed[m + 1]) = m + 1
    OBVIOUS
  <2>1. placed[m + 1] = Place(objs, reach, order, placed[m])
    <3> HIDE DEF none, all
    <3>1. QED
      BY <1>1, <1>3
  <2>2. Placed(objs, reach, placed[m]) /\ Cardinality(DOMAIN placed[m]) = m /\ m # all
    BY <1>1, <1>6
  <2>3. QED
    BY <2>1, <2>2, PlaceStep
<1>7. Nat \subseteq S
  <2> HIDE DEF S
  <2>1. QED
    BY <1>5, <1>6, NatSetInduction
<1>8. Placed(objs, reach, placed[all]) /\ Cardinality(DOMAIN placed[all]) = all
  BY <1>1, <1>7
<1>9. DOMAIN placed[all] = DOMAIN objs
  BY <1>8, FS_Subset DEF Placed, Sized
<1>10. QED
  BY <1>4, <1>8, <1>9

-----------------------------------------------------------------------------
(* The planner.                                                            *)

\* The objects of a well-formed program can be placed.
LEMMA ObjectsSized == ASSUME NEW g, WellFormed(g) PROVE Sized(EdgeObjects(g))
<1> DEFINE root    == RootOf(g)
           members == Members(g)
           objs    == EdgeObjects(g)
<1>1. DOMAIN members = {root[s] : s \in Sources(g)}
  BY DEF Members
<1>2. DOMAIN objs = DOMAIN members
  BY DEF EdgeObjects
<1>3. IsFiniteSet(DOMAIN objs)
  <2> DEFINE source == [c \in g.conns |-> <<c.src, c.sp>>]
  <2>1. IsFiniteSet({source[c] : c \in g.conns})
    BY FiniteImage DEF WellFormed
  <2>2. Sources(g) = {source[c] : c \in g.conns}
    BY DEF Sources
  <2> HIDE DEF source
  <2>3. QED
    BY <1>1, <1>2, <2>1, <2>2, FiniteImage
<1>4. ASSUME NEW r \in DOMAIN objs PROVE objs[r].bytes \in Nat /\ r[1] \in Int /\ r[2] \in Int
  <2>1. PICK s \in Sources(g) : r = root[s]
    BY <1>1, <1>2
  <2>2. r \in Sources(g)
    BY <2>1, RootIsSource
  <2>3. r[1] \in Int /\ r[2] \in Int
    BY <2>2 DEF Sources, WellFormed
  <2>4. members[r] = {c \in g.conns : root[<<c.src, c.sp>>] = r}
    BY <1>1, <1>2 DEF Members
  <2> DEFINE sizes == {c.bytes : c \in members[r]}
  <2>5. IsFiniteSet(members[r]) /\ members[r] # {}
    BY <2>1, <2>4, FS_Subset DEF WellFormed, Sources
  <2>6. IsFiniteSet(sizes)
    <3> DEFINE size == [c \in members[r] |-> c.bytes]
    <3>1. IsFiniteSet({size[c] : c \in members[r]})
      BY <2>5, FiniteImage
    <3>2. QED
      BY <3>1
  <2>7. sizes \in SUBSET Nat /\ sizes # {}
    <3>1. \A c \in members[r] : c.bytes \in Nat
      BY <2>4 DEF WellFormed
    <3>2. QED
      BY <2>5, <3>1
  <2>8. Max(sizes) \in sizes
    <3> HIDE DEF sizes
    <3>1. QED
      BY <2>6, <2>7, MinMax
  <2>9. objs[r].bytes = Max(sizes)
    BY <1>2 DEF EdgeObjects
  <2>10. QED
    BY <2>3, <2>7, <2>8, <2>9
<1>5. QED
  BY <1>3, <1>4 DEF Sized

\* allocate_edge_objects puts two messages into the same bytes only if every
\* consumer of one comes before the producer of the other in the graph,
\* whatever the program and in whichever order equal objects are taken.
THEOREM PlanSound ==
  ASSUME NEW g, WellFormed(g), NEW order, NEW rs \in SharedPairs(g, order)
  PROVE  Disjoint(Reachability(g), EdgeObjects(g)[rs[1]], EdgeObjects(g)[rs[2]])
<1> DEFINE objs  == EdgeObjects(g)
           reach == Reachability(g)
           plan  == Plan(objs, reach, order)
<1>1. Placed(objs, reach, plan) /\ DOMAIN plan = DOMAIN objs
  BY ObjectsSized, PlanPlaces
<1>2. /\ rs[1] \in DOMAIN objs /\ rs[2] \in DOMAIN objs /\ rs[1] # rs[2]
      /\ Overlap(plan[rs[1]], objs[rs[1]].bytes, plan[rs[2]], objs[rs[2]].bytes)
  BY DEF SharedPairs
<1>3. QED
  BY <1>1, <1>2 DEF Placed
=============================================================================
