-------------------------------- MODULE Stages --------------------------------
(***************************************************************************)
(* What one stage of a network does between receiving its inputs and       *)
(* sending its outputs: a list of steps over named buffers.  A buffer's    *)
(* value says which node of the reference network it holds (or "?"), its   *)
(* shape, and the sites where a kernel spoilt it or something it was       *)
(* computed from.                                                          *)
(***************************************************************************)
EXTENDS TensorKernels, SequencesExt

Value(id, side, c, bad) == [id |-> id, side |-> side, c |-> c, bad |-> bad]
Nothing  == Value("nothing", 0, 0, {})
Bytes(v) == v.side * v.side * v.c

(***************************************************************************)
(* Steps.  Each names its sources with the shape the call assumes of them  *)
(* and its destination with the shape it writes.                           *)
(***************************************************************************)
Step(op, name, srcs, dst, out, n) ==
  [op |-> op, name |-> name, srcs |-> srcs, dst |-> dst, out |-> out, n |-> n,
   sites |-> {}]

Src(buf, side, c) == [buf |-> buf, side |-> side, c |-> c]

Conv1x1(l, src, side, c, dst, n) == Step("1x1", l, <<Src(src, side, c)>>, dst, side, n)
Pair(l, src, side, c, dst, n) == Step("pair", l, <<Src(src, side, c)>>, dst, side, n)
Packed(l, src, side, c, dst, out, n) == Step("packed", l, <<Src(src, side, c)>>, dst, out, n)
Exact(l, src, side, c, dst, n) == Step("exact", l, <<Src(src, side, c)>>, dst, side, n)
Add(lut, skip, body, side, c) ==
  Step("add", lut, <<Src(skip, side, c), Src(body, side, c)>>, body, side, c)
Cat(a, b, side, c, dst) ==
  Step("cat", "", <<Src(a, side, c), Src(b, side, c)>>, dst, side, 2 * c)
Cat4(a, b, c, d, side, each, dst) ==
  Step("cat", "", <<Src(a, side, each), Src(b, side, each), Src(c, side, each),
                    Src(d, side, each)>>, dst, side, 4 * each)
UpCat(top, skip, side, c, dst) ==
  Step("upcat", "", <<Src(top, side \div 2, c), Src(skip, side, c)>>, dst, side, 2 * c)
MaxPool(src, side, c, dst) == Step("pool", "", <<Src(src, side, c)>>, dst, side, c)
\* A convolution computed point by point; sites is what is wrong with its taps.
PointConv(l, src, side, c, dst, out, n, sites) ==
  [Step("point", l, <<Src(src, side, c)>>, dst, out, n) EXCEPT !.sites = sites]
\* A computation whose inside is not looked at.
Compute(name, srcs, dst, side, c) == Step("node", name, srcs, dst, side, c)

IsConv(s)  == s.op \in {"1x1", "pair", "packed", "exact"}
NodeOp(s)  == IF IsConv(s) \/ s.op = "point" THEN "conv" ELSE s.op

\* The node of the reference network computed by this operation from these
\* inputs, if there is one.
NodeOf(net, expr) == LET at == {n \in DOMAIN net : net[n] = expr}
                     IN IF at = {} THEN "?" ELSE CHOOSE n \in at : TRUE

(***************************************************************************)
(* A stage: the lengths it demands of its inputs in the order received,    *)
(* its arena blocks in the order allocated, the peak it declares, its      *)
(* layers and kernels, and its steps.                                      *)
(***************************************************************************)
Stage(name, family, walk, strided, lens, bufs, peak, layers, steps) ==
  [name |-> name, family |-> family, walk |-> walk, strided |-> strided,
   lens |-> lens, bufs |-> bufs, peak |-> peak, layers |-> layers,
   steps |-> steps]

SizeOf(st, buf) == LET at == {i \in DOMAIN st.bufs : st.bufs[i][1] = buf}
                   IN IF at = {} THEN 0 ELSE st.bufs[CHOOSE i \in at : TRUE][2]
Sizes(st)       == [i \in DOMAIN st.bufs |-> st.bufs[i][2]]

\* The scratch block a packing kernel fills.
ScratchOf(st, s) == SizeOf(st, IF s.op = "1x1" THEN "packed"
                               ELSE IF s.srcs[1].side = s.out THEN "patch"
                               ELSE st.strided)

\* A kernel of this step returns -1.
Refuses(st, s) ==
  IsConv(s) /\ ~Guard(st.family, s.op, st.layers[s.name], s.srcs[1].c, ScratchOf(st, s))

\* The step writes past the end of a block of the arena.
Overruns(st, s) ==
  \/ /\ IsConv(s) /\ ~Refuses(st, s)
     /\ PackingBytes(st.family, s.op, st.layers[s.name], s.srcs[1].c) > ScratchOf(st, s)
  \/ /\ \E i \in DOMAIN st.bufs : st.bufs[i][1] = s.dst
     /\ s.n * (IF IsConv(s) THEN RoundUp(s.out * s.out, PIX_BLOCK) ELSE s.out * s.out)
          > SizeOf(st, s.dst)

\* The places where the step itself computes something else than its node.
Spoils(st, s) ==
  CASE IsConv(s) /\ ~ConvRight(st.walk, s.op, st.layers[s.name], s.srcs[1].side, s.out)
         -> {s.name}
    [] IsConv(s) /\ s.n # st.layers[s.name].n -> {s.name}
    [] s.op = "point" -> IF s.srcs[1].c = st.layers[s.name].c /\ s.n = st.layers[s.name].n
                         THEN s.sites ELSE {s.name} \cup s.sites
    [] s.op = "cat" /\ ~ConcatRight(\E i \in DOMAIN s.srcs : s.srcs[i].buf = s.dst,
                                    s.srcs[1].c, s.n, s.out * s.out)
         -> {st.name \o " cat"}
    [] s.op = "pool" /\ ~MaxPoolRight(s.out) -> {st.name \o " pool"}
    [] OTHER -> {}

\* What is wrong with the steps of a stage whatever its inputs are.  What lies
\* past the end of a block is another's, so an overrun is a site too.
Flaws(st) ==
  [i \in DOMAIN st.steps |->
     LET s == st.steps[i]
         overruns == Overruns(st, s)
     IN [spoils   |-> Spoils(st, s) \cup (IF overruns THEN {s.name \o " scratch"} ELSE {}),
         overruns |-> overruns,
         refuses  |-> Refuses(st, s)]]

\* The buffers after one step.
Apply(net, mem, s, spoils) ==
  LET in(i) == IF s.srcs[i].buf \in DOMAIN mem THEN mem[s.srcs[i].buf] ELSE Nothing
      fits  == \A i \in DOMAIN s.srcs :
                 in(i).side = s.srcs[i].side /\ in(i).c = s.srcs[i].c
      expr  == <<NodeOp(s), s.name>> \o [i \in DOMAIN s.srcs |-> in(i).id]
      id    == IF fits THEN NodeOf(net, expr) ELSE "?"
      bad   == spoils \cup UNION {in(i).bad : i \in DOMAIN s.srcs}
  IN (s.dst :> Value(id, s.out, s.n, bad)) @@ mem

\* The buffers after the whole stage, as the only element of a set: a set is
\* evaluated step by step.
RunSteps(net, st, flaws, mem) ==
  FoldLeft(LAMBDA ms, i : {Apply(net, m, st.steps[i], flaws[i].spoils) : m \in ms}, {mem},
           [i \in DOMAIN st.steps |-> i])

\* The stage gives up: a wrong length, a trap of the arena, a kernel's -1.
GivesUp(st, flaws, lens) ==
  \/ lens # st.lens
  \/ ArenaTraps(Sizes(st), st.peak)
  \/ \E i \in DOMAIN flaws : flaws[i].refuses
===============================================================================
