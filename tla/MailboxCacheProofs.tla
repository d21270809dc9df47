-------------------------- MODULE MailboxCacheProofs --------------------------
(***************************************************************************)
(* Proofs about MailboxCache.  The types, that two harts never have        *)
(* changes of their own to one line, and that a published message stays in *)
(* memory hold on every part and in every layout; that what is received is *)
(* right is proved where it is true, on a part whose evictions reach the   *)
(* L2, for harts of one shire.                                             *)
(***************************************************************************)
EXTENDS MailboxCache, TLAPS

CacheType ==
  l1 \in [Hart -> [Line -> Copy]] /\ l2 \in [Shires -> [Line -> Copy]] /\ mem \in [Line -> Nat]

-----------------------------------------------------------------------------
(***************************************************************************)
(* Harts, lines, and what each cache operation changes.                    *)
(***************************************************************************)
LEMMA Places == \A h \in Hart : Shire(h) \in Shires
  BY DEF Shires

LEMMA Lines ==
  /\ \A n \in Nat : Own(n) \in {1, 2} /\ Own(n + 1) # Own(n)
  /\ Stored(0) = 3 /\ Stored(1) = 4
  /\ Line = {0, 1, 2, 3, 4}
  BY DEF Own, Stored, Line

LEMMA ValueType == ASSUME CacheType, NEW h \in Hart, NEW x \in Line PROVE Value(h, x) \in Nat
  BY Places DEF CacheType, Value, Copy

\* Every copy but those of one line in one hart's caches is left alone.
Apart(h, x) ==
  /\ \A g \in Hart, y \in Line : g # h \/ y # x => l1'[g][y] = l1[g][y]
  /\ \A s \in Shires, y \in Line : s # Shire(h) \/ y # x => l2'[s][y] = l2[s][y]
  /\ \A y \in Line : y # x => mem'[y] = mem[y]

Loaded(h, x) ==
  /\ Apart(h, x) /\ mem' = mem
  /\ l1'[h][x] = IF l1[h][x].here THEN l1[h][x] ELSE Clean(Value(h, x))
  /\ l2'[Shire(h)][x] = IF ~l1[h][x].here /\ ~l2[Shire(h)][x].here THEN Clean(mem[x])
                        ELSE l2[Shire(h)][x]

Put(h, x, v) ==
  /\ Apart(h, x) /\ mem' = mem
  /\ l1'[h][x] = Dirty(v)
  /\ l2'[Shire(h)][x] = IF ~l1[h][x].here /\ ~l2[Shire(h)][x].here THEN Clean(mem[x])
                        ELSE l2[Shire(h)][x]

Flushed(h, x) ==
  /\ Apart(h, x)
  /\ l1'[h][x] = IF l1[h][x].dirty THEN Clean(l1[h][x].val) ELSE l1[h][x]
  /\ IF l1[h][x].dirty
     THEN l2'[Shire(h)][x] = Clean(l1[h][x].val) /\ mem'[x] = l1[h][x].val
     ELSE IF l2[Shire(h)][x].dirty
     THEN l2'[Shire(h)][x] = Clean(l2[Shire(h)][x].val) /\ mem'[x] = l2[Shire(h)][x].val
     ELSE l2'[Shire(h)][x] = l2[Shire(h)][x] /\ mem'[x] = mem[x]

Evicted(h, x) ==
  /\ Apart(h, x) /\ mem' = mem
  /\ l1'[h][x] = IF EvictDest = "L1" THEN l1[h][x] ELSE NoCopy
  /\ l2'[Shire(h)][x] = l2[Shire(h)][x]

Dropped(h, x) ==
  /\ Apart(h, x) /\ mem' = mem
  /\ l1'[h][x] = NoCopy
  /\ l2'[Shire(h)][x] = IF l1[h][x].dirty THEN Dirty(l1[h][x].val) ELSE l2[Shire(h)][x]

DroppedL2(s, x) ==
  /\ UNCHANGED l1
  /\ \A t \in Shires, y \in Line : l2'[t][y] = IF t = s /\ y = x THEN NoCopy ELSE l2[t][y]
  /\ \A y \in Line : mem'[y] = IF y = x /\ l2[s][x].dirty THEN l2[s][x].val ELSE mem[y]

Copied(h, x) ==
  /\ mem' = mem
  /\ \A g \in Hart, y \in Line :
       l1'[g][y] = IF g = h /\ y = Stored(turn) THEN Dirty(Value(h, x))
                   ELSE IF g = h /\ y = x /\ ~l1[h][x].here THEN Clean(Value(h, x))
                   ELSE l1[g][y]
  /\ \A s \in Shires, y \in Line :
       l2'[s][y] = IF /\ s = Shire(h) /\ y \in {x, Stored(turn)}
                      /\ ~l1[h][y].here /\ ~l2[s][y].here
                   THEN Clean(mem[y]) ELSE l2[s][y]

LEMMA LoadEffect ==
  ASSUME CacheType, NEW h \in Hart, NEW x \in Line, Load(h, x)
  PROVE  CacheType' /\ Loaded(h, x)
<1>1. Value(h, x) \in Nat /\ Shire(h) \in Shires /\ DOMAIN <<>> = {}
  BY ValueType, Places
<1>2. /\ l1' = [l1 EXCEPT ![h] = [y \in Line |->
                 IF y = x /\ ~l1[h][y].here THEN Clean(Value(h, y)) ELSE l1[h][y]]]
      /\ l2' = [l2 EXCEPT ![Shire(h)] = [y \in Line |->
                 IF y = x /\ ~l1[h][y].here /\ ~l2[Shire(h)][y].here THEN Clean(mem[y])
                 ELSE l2[Shire(h)][y]]]
      /\ mem' = mem
  BY <1>1 DEF Load, Access, CacheType
<1>3. QED
  BY <1>1, <1>2 DEF Loaded, CacheType, Copy, Clean, Apart

LEMMA StoreEffect ==
  ASSUME CacheType, NEW h \in Hart, NEW x \in Line, NEW v \in Nat, Store(h, x, v)
  PROVE  CacheType' /\ Put(h, x, v)
<1>1. Shire(h) \in Shires
  BY Places
<1>2. /\ l1' = [l1 EXCEPT ![h] = [y \in Line |-> IF y = x THEN Dirty(v) ELSE l1[h][y]]]
      /\ l2' = [l2 EXCEPT ![Shire(h)] = [y \in Line |->
                 IF y = x /\ ~l1[h][y].here /\ ~l2[Shire(h)][y].here THEN Clean(mem[y])
                 ELSE l2[Shire(h)][y]]]
      /\ mem' = mem
  BY <1>1 DEF Store, Access, CacheType
<1>3. QED
  BY <1>1, <1>2 DEF Put, CacheType, Copy, Clean, Dirty, Apart

LEMMA FlushEffect ==
  ASSUME CacheType, NEW h \in Hart, NEW x \in Line, Flush(h, x)
  PROVE  CacheType' /\ Flushed(h, x)
<1>1. Shire(h) \in Shires
  BY Places
<1>2. PICK v, b : /\ v = IF l1[h][x].dirty THEN l1[h][x].val ELSE l2[Shire(h)][x].val
                  /\ b = (l1[h][x].dirty \/ l2[Shire(h)][x].dirty)
  OBVIOUS
<1>3. /\ l1' = [l1 EXCEPT ![h][x] = IF l1[h][x].dirty THEN Clean(l1[h][x].val) ELSE l1[h][x]]
      /\ l2' = [l2 EXCEPT ![Shire(h)][x] = IF b THEN Clean(v) ELSE l2[Shire(h)][x]]
      /\ mem' = [mem EXCEPT ![x] = IF b THEN v ELSE mem[x]]
  BY <1>2, Zenon DEF Flush
<1>4. v \in Nat
  BY <1>1, <1>2 DEF CacheType, Copy
<1>5. l1' \in [Hart -> [Line -> Copy]]
  BY <1>3 DEF CacheType, Copy, Clean
<1>6. l2' \in [Shires -> [Line -> Copy]] /\ mem' \in [Line -> Nat]
  BY <1>1, <1>3, <1>4 DEF CacheType, Copy, Clean
<1>7. Apart(h, x) /\ l1'[h][x] = IF l1[h][x].dirty THEN Clean(l1[h][x].val) ELSE l1[h][x]
  BY <1>1, <1>3 DEF CacheType, Apart
<1>8. /\ l2'[Shire(h)][x] = IF b THEN Clean(v) ELSE l2[Shire(h)][x]
      /\ mem'[x] = IF b THEN v ELSE mem[x]
  BY <1>1, <1>3 DEF CacheType
<1>9. QED
  BY <1>2, <1>5, <1>6, <1>7, <1>8 DEF Flushed, CacheType

LEMMA EvictEffect ==
  ASSUME CacheType, NEW h \in Hart, NEW x \in Line, Evict(h, x), ~l1[h][x].dirty
  PROVE  CacheType' /\ Evicted(h, x)
<1>1. Shire(h) \in Shires
  BY Places
<1>2. QED
  BY <1>1 DEF Evicted, Evict, WriteBack, CacheType, Copy, NoCopy, Apart

LEMMA DisplaceL1Effect ==
  ASSUME CacheType, NEW h \in Hart, NEW x \in Line, DisplaceL1(h, x)
  PROVE  CacheType' /\ Dropped(h, x)
<1>1. Shire(h) \in Shires
  BY Places
<1>2. QED
  BY <1>1 DEF Dropped, DisplaceL1, WriteBack, CacheType, Copy, NoCopy, Dirty, Apart

LEMMA DisplaceL2Effect ==
  ASSUME CacheType, NEW s \in Shires, NEW x \in Line, DisplaceL2(s, x)
  PROVE  CacheType' /\ DroppedL2(s, x)
  BY DEF DroppedL2, DisplaceL2, CacheType, Copy, NoCopy

\* The copy into the channel's storage: a load of one line, a store to another.
LEMMA CopyEffect ==
  ASSUME CacheType, NEW h \in Hart, NEW x \in Line, turn \in {0, 1},
         CopyToStorage(h, x)
  PROVE  CacheType' /\ Copied(h, x)
<1>1. Value(h, x) \in Nat /\ Shire(h) \in Shires /\ Stored(turn) \in Line
  BY ValueType, Places, Lines
<1>2. PICK t, v : t = Stored(turn) /\ v = Value(h, x)
  OBVIOUS
<1>3. /\ l1' = [l1 EXCEPT ![h] = [y \in Line |->
                 IF y = t THEN Dirty(v)
                 ELSE IF y = x /\ ~l1[h][y].here THEN Clean(Value(h, y)) ELSE l1[h][y]]]
      /\ l2' = [l2 EXCEPT ![Shire(h)] = [y \in Line |->
                 IF y \in {x, t} /\ ~l1[h][y].here /\ ~l2[Shire(h)][y].here THEN Clean(mem[y])
                 ELSE l2[Shire(h)][y]]]
      /\ mem' = mem
  BY <1>1, <1>2 DEF CopyToStorage, Access, CacheType
<1>4. CacheType'
  BY <1>1, <1>2, <1>3 DEF CacheType, Copy, Clean, Dirty
<1>5. \A g \in Hart, y \in Line :
        l1'[g][y] = IF g = h /\ y = t THEN Dirty(v)
                    ELSE IF g = h /\ y = x /\ ~l1[h][y].here THEN Clean(Value(h, y))
                    ELSE l1[g][y]
  BY <1>3 DEF CacheType
<1>6. \A s \in Shires, y \in Line :
        l2'[s][y] = IF s = Shire(h) /\ y \in {x, t} /\ ~l1[h][y].here /\ ~l2[s][y].here
                    THEN Clean(mem[y]) ELSE l2[s][y]
  BY <1>1, <1>3 DEF CacheType
<1>7. QED
  BY <1>2, <1>3, <1>4, <1>5, <1>6 DEF Copied

-----------------------------------------------------------------------------
(***************************************************************************)
(* What a step does to a line it does not store to.                        *)
(***************************************************************************)
\* The caches move copies about, or a hart of G loads, flushes, evicts or
\* stores, but not to line x.
Calm(G, x) ==
  \/ UNCHANGED cacheVars
  \/ \E h \in Hart, y \in Line : DisplaceL1(h, y)
  \/ \E s \in Shires, y \in Line : DisplaceL2(s, y)
  \/ \E h \in G, y \in Line : \/ Load(h, y) \/ Flush(h, y)
                              \/ Evict(h, y) /\ ~l1[h][y].dirty
                              \/ x # Stored(turn) /\ CopyToStorage(h, y)
                              \/ x # y /\ \E v \in Nat : Store(h, y, v)

\* What a hart has stored stays on its way to memory until the hart goes on.
LEMMA FreshKept ==
  ASSUME CacheType, DirtOK, turn \in {0, 1}, NEW h \in Hart, NEW x \in Line, NEW v,
         \A g \in Hart : Writes(g, x) => g = h, Fresh(h, x, v), Calm(Hart \ {h}, x)
  PROVE  Fresh(h, x, v)'
<1>1. Shire(h) \in Shires /\ \A g \in Hart : l1[g][x].dirty => g = h
  BY Places DEF DirtOK
<1>2. \A s \in Shires : l2[s][x].dirty => s = Shire(h)
  BY DEF DirtOK
<1>3. CASE UNCHANGED cacheVars
  BY <1>3 DEF cacheVars, Fresh
<1>4. ASSUME NEW g \in Hart, NEW y \in Line, DisplaceL1(g, y) PROVE Fresh(h, x, v)'
  <2>1. Dropped(g, y)
    BY <1>4, DisplaceL1Effect
  <2>2. QED
    BY <1>1, <1>4, <2>1 DEF Dropped, Apart, Fresh, NoCopy, Dirty, DirtOK
<1>5. ASSUME NEW s \in Shires, NEW y \in Line, DisplaceL2(s, y) PROVE Fresh(h, x, v)'
  <2>1. DroppedL2(s, y)
    BY <1>5, DisplaceL2Effect
  <2>2. QED
    BY <1>1, <1>2, <1>5, <2>1 DEF DroppedL2, Fresh, NoCopy
<1>6. ASSUME NEW g \in Hart \ {h}, NEW y \in Line, Load(g, y) PROVE Fresh(h, x, v)'
  <2>1. Loaded(g, y)
    BY <1>6, LoadEffect
  <2>2. QED
    BY <1>1, <1>6, <2>1 DEF Loaded, Apart, Fresh, Clean, DirtOK
<1>7. ASSUME NEW g \in Hart \ {h}, NEW y \in Line, Flush(g, y) PROVE Fresh(h, x, v)'
  <2>1. Flushed(g, y)
    BY <1>7, FlushEffect
  <2>2. QED
    <3>1. CASE y # x
      <4>1. /\ l1'[h][x] = l1[h][x] /\ l2'[Shire(h)][x] = l2[Shire(h)][x]
            /\ mem'[x] = mem[x]
        BY <1>1, <2>1, <3>1 DEF Flushed, Apart
      <4>2. QED
        BY <4>1 DEF Fresh
    <3>2. CASE y = x /\ Shire(g) # Shire(h)
      BY <1>1, <1>2, <1>7, <2>1, <3>2, Places DEF Flushed, Apart, Fresh
    <3>3. CASE y = x /\ Shire(g) = Shire(h)
      <4>1. ~l1[g][x].dirty /\ l1'[h][x] = l1[h][x]
        BY <1>1, <1>7, <2>1, <3>3 DEF Flushed, Apart
      <4>2. QED
        BY <1>1, <1>7, <2>1, <3>3, <4>1 DEF Flushed, Fresh, Clean
    <3>4. QED
      BY <3>1, <3>2, <3>3
<1>8. ASSUME NEW g \in Hart \ {h}, NEW y \in Line, Evict(g, y), ~l1[g][y].dirty
      PROVE  Fresh(h, x, v)'
  <2>1. Evicted(g, y)
    BY <1>8, EvictEffect
  <2>2. QED
    BY <1>1, <1>8, <2>1 DEF Evicted, Apart, Fresh
<1>9. ASSUME NEW g \in Hart \ {h}, NEW y \in Line, x # Stored(turn), CopyToStorage(g, y)
      PROVE  Fresh(h, x, v)'
  <2>1. Copied(g, y)
    BY <1>9, CopyEffect
  <2>2. l1'[h][x] = l1[h][x] /\ mem'[x] = mem[x]
    BY <1>9, <2>1 DEF Copied
  <2>3. \/ l2'[Shire(h)][x] = l2[Shire(h)][x]
        \/ ~l2[Shire(h)][x].here /\ l2'[Shire(h)][x] = Clean(mem[x])
    BY <1>1, <1>9, <2>1 DEF Copied
  <2>4. QED
    BY <1>1, <2>2, <2>3 DEF Fresh, Clean, DirtOK
<1>10. ASSUME NEW g \in Hart \ {h}, NEW y \in Line, x # y, NEW w \in Nat, Store(g, y, w)
       PROVE  Fresh(h, x, v)'
  <2>1. Put(g, y, w)
    BY <1>10, StoreEffect
  <2>2. QED
    BY <1>1, <1>10, <2>1 DEF Put, Apart, Fresh
<1>11. QED
  BY <1>3, <1>4, <1>5, <1>6, <1>7, <1>8, <1>9, <1>10 DEF Calm

\* A message in memory stays there.
LEMMA SettledKept ==
  ASSUME CacheType, turn \in {0, 1}, NEW x \in Line, NEW v, Settled(x, v), Calm(Hart, x)
  PROVE  Settled(x, v)'
<1>1. \A h \in Hart : Shire(h) \in Shires
  BY Places
<1>2. \A s \in Shires : ~l2[s][x].dirty
  BY DEF Settled, Shires
<1>3. SUFFICES ASSUME NEW k \in Hart
               PROVE  mem'[x] = v /\ ~l1'[k][x].dirty /\ ~l2'[Shire(k)][x].dirty
  BY DEF Settled, Hart
<1>h. mem[x] = v /\ \A g \in Hart : ~l1[g][x].dirty /\ ~l2[Shire(g)][x].dirty
  BY DEF Settled
<1> DEFINE Goal == mem'[x] = v /\ ~l1'[k][x].dirty /\ ~l2'[Shire(k)][x].dirty
<1>c. CASE UNCHANGED cacheVars
  BY <1>h, <1>c DEF cacheVars
<1>4. ASSUME NEW g \in Hart, NEW y \in Line, DisplaceL1(g, y) PROVE Goal
  <2>1. Dropped(g, y)
    BY <1>4, DisplaceL1Effect
  <2>2. QED
    BY <1>1, <1>h, <1>4, <2>1 DEF Dropped, Apart, NoCopy
<1>5. ASSUME NEW s \in Shires, NEW y \in Line, DisplaceL2(s, y) PROVE Goal
  <2>1. DroppedL2(s, y)
    BY <1>5, DisplaceL2Effect
  <2>2. QED
    BY <1>1, <1>2, <1>h, <1>5, <2>1 DEF DroppedL2, NoCopy
<1>6. ASSUME NEW g \in Hart, NEW y \in Line, Load(g, y) PROVE Goal
  <2>1. Loaded(g, y)
    BY <1>6, LoadEffect
  <2>2. QED
    BY <1>1, <1>h, <1>6, <2>1 DEF Loaded, Apart, Clean
<1>7. ASSUME NEW g \in Hart, NEW y \in Line, Flush(g, y) PROVE Goal
  <2>1. Flushed(g, y)
    BY <1>7, FlushEffect
  <2>2. QED
    BY <1>1, <1>h, <1>7, <2>1 DEF Flushed, Apart, Clean
<1>8. ASSUME NEW g \in Hart, NEW y \in Line, Evict(g, y), ~l1[g][y].dirty PROVE Goal
  <2>1. Evicted(g, y)
    BY <1>8, EvictEffect
  <2>2. QED
    BY <1>1, <1>h, <1>8, <2>1 DEF Evicted, Apart, NoCopy
<1>9. ASSUME NEW g \in Hart, NEW y \in Line, x # Stored(turn), CopyToStorage(g, y)
      PROVE  Goal
  <2>1. Copied(g, y)
    BY <1>9, CopyEffect
  <2>2. mem'[x] = mem[x] /\ (l1'[k][x] = l1[k][x] \/ l1'[k][x] = Clean(Value(g, y)))
    BY <1>9, <2>1 DEF Copied
  <2>3. l2'[Shire(k)][x] = l2[Shire(k)][x] \/ l2'[Shire(k)][x] = Clean(mem[x])
    BY <1>1, <1>9, <2>1 DEF Copied
  <2>4. QED
    BY <1>h, <2>2, <2>3 DEF Clean
<1>10. ASSUME NEW g \in Hart, NEW y \in Line, x # y, NEW w \in Nat, Store(g, y, w)
       PROVE  Goal
  <2>1. Put(g, y, w)
    BY <1>10, StoreEffect
  <2>2. QED
    BY <1>1, <1>h, <1>10, <2>1 DEF Put, Apart, Clean
<1>11. QED
  BY <1>c, <1>4, <1>5, <1>6, <1>7, <1>8, <1>9, <1>10 DEF Calm

\* And a hart that has no other copy of it gets none.
LEMMA SeesKept ==
  ASSUME CacheType, L2Clean, turn \in {0, 1}, NEW h \in Hart, NEW x \in Line, NEW v,
         Settled(x, v), Sees(h, x, v), Calm(Hart, x)
  PROVE  Sees(h, x, v)'
<1>1. \A g \in Hart : Shire(g) \in Shires
  BY Places
<1>2. Value(h, x) = v
  BY <1>1 DEF Value, Settled, Sees, L2Clean
<1>3. SUFFICES ASSUME l1'[h][x].here PROVE l1'[h][x].val = v
  BY DEF Sees
<1>h. l1[h][x].here => l1[h][x].val = v
  BY DEF Sees
<1> DEFINE Goal == l1'[h][x].val = v
<1>c. CASE UNCHANGED cacheVars
  BY <1>3, <1>h, <1>c DEF cacheVars
<1>4. ASSUME NEW g \in Hart, NEW y \in Line, DisplaceL1(g, y) PROVE Goal
  <2>1. Dropped(g, y)
    BY <1>4, DisplaceL1Effect
  <2>2. QED
    BY <1>3, <1>h, <1>4, <2>1 DEF Dropped, Apart, NoCopy
<1>5. ASSUME NEW s \in Shires, NEW y \in Line, DisplaceL2(s, y) PROVE Goal
  <2>1. DroppedL2(s, y)
    BY <1>5, DisplaceL2Effect
  <2>2. QED
    BY <1>3, <1>h, <1>5, <2>1 DEF DroppedL2
<1>6. ASSUME NEW g \in Hart, NEW y \in Line, Load(g, y) PROVE Goal
  <2>1. Loaded(g, y)
    BY <1>6, LoadEffect
  <2>2. QED
    BY <1>2, <1>3, <1>h, <1>6, <2>1 DEF Loaded, Apart, Clean
<1>7. ASSUME NEW g \in Hart, NEW y \in Line, Flush(g, y) PROVE Goal
  <2>1. Flushed(g, y)
    BY <1>7, FlushEffect
  <2>2. QED
    BY <1>3, <1>h, <1>7, <2>1 DEF Flushed, Apart, Settled
<1>8. ASSUME NEW g \in Hart, NEW y \in Line, Evict(g, y), ~l1[g][y].dirty PROVE Goal
  <2>1. Evicted(g, y)
    BY <1>8, EvictEffect
  <2>2. QED
    BY <1>3, <1>h, <1>8, <2>1 DEF Evicted, Apart, NoCopy
<1>9. ASSUME NEW g \in Hart, NEW y \in Line, x # Stored(turn), CopyToStorage(g, y)
      PROVE  Goal
  <2>1. Copied(g, y)
    BY <1>9, CopyEffect
  <2>2. QED
    BY <1>2, <1>3, <1>h, <1>9, <2>1 DEF Copied, Clean
<1>10. ASSUME NEW g \in Hart, NEW y \in Line, x # y, NEW w \in Nat, Store(g, y, w)
       PROVE  Goal
  <2>1. Put(g, y, w)
    BY <1>10, StoreEffect
  <2>2. QED
    BY <1>3, <1>h, <1>10, <2>1 DEF Put, Apart
<1>11. QED
  BY <1>c, <1>4, <1>5, <1>6, <1>7, <1>8, <1>9, <1>10 DEF Calm

-----------------------------------------------------------------------------
(***************************************************************************)
(* Types, and who is where.                                                *)
(***************************************************************************)
LEMMA RxClean ==
  ASSUME DirtOK, rxpc \notin {"flushclear", "flushtidy", "flushcopy"}, NEW x \in Line
  PROVE  ~l1["rx"][x].dirty
  BY DEF DirtOK, Writes, Hart

LEMMA CacheStep == WInv /\ [Next]_vars => CacheType'
<1> SUFFICES ASSUME WInv, [Next]_vars PROVE CacheType'
  OBVIOUS
<1>1. /\ CacheType /\ "tx" \in Hart /\ "rx" \in Hart /\ DirtOK
      /\ sent \in Nat /\ turn \in {0, 1} /\ txBuf \in Nat
      /\ Box \in Line /\ chBuf \in Line /\ rxBuf \in Line /\ txBuf \in Line
  BY CacheAssumption DEF CacheAssumption, WInv, TypeOK, CacheType, Hart, Box, Line
<1>2. /\ Stored(turn) \in Line /\ Own(sent) \in Line
      /\ sent + 1 \in Nat /\ Own(sent + 1) \in Line
  BY <1>1, Lines
<1>3. CASE UNCHANGED cacheVars
  BY <1>1, <1>3 DEF cacheVars, CacheType
<1>4. CASE Fill
  <2>1. Store("tx", Own(sent + 1), sent + 1)
    BY <1>4 DEF Fill
  <2>2. QED
    BY <1>1, <1>2, <2>1, StoreEffect
<1>5. CASE FlushMsg \/ TxFlushCopy \/ FlushPost
  BY <1>1, <1>2, <1>5, FlushEffect DEF FlushMsg, TxFlushCopy, FlushStorage, FlushPost
<1>6. CASE TxCopy
  BY <1>1, <1>2, <1>6, CopyEffect DEF TxCopy
<1>7. CASE Post
  BY <1>1, <1>2, <1>7, StoreEffect DEF Post
<1>8. CASE Clear \/ Tidy
  BY <1>1, <1>2, <1>8, StoreEffect DEF Clear, Tidy
<1>9. CASE FlushClear \/ Settle \/ FlushTidy \/ RxFlushCopy
  BY <1>1, <1>2, <1>9, FlushEffect DEF FlushClear, Settle, FlushTidy, RxFlushCopy, FlushStorage
<1>10. CASE RxResume
  BY <1>1, <1>2, <1>10, RxClean, EvictEffect DEF RxResume, RxGoto
<1>11. CASE DropMsg
  BY <1>1, <1>2, <1>11, RxClean, EvictEffect DEF DropMsg, RxGoto
<1>12. CASE RxFetch
  BY <1>1, <1>2, <1>12, RxClean, EvictEffect DEF RxFetch, RxGoto
<1>13. CASE Look
  BY <1>1, <1>2, <1>13, LoadEffect DEF Look
<1>14. CASE RxCopy
  BY <1>1, <1>2, <1>14, CopyEffect DEF RxCopy
<1>15. CASE Use
  BY <1>1, <1>2, <1>3, <1>15, LoadEffect DEF Use
<1>16. CASE Displace
  BY <1>1, <1>16, DisplaceL1Effect, DisplaceL2Effect DEF Displace
<1>17. CASE \/ TxOffer \/ TxPark \/ TxClaim \/ TxRelease \/ TxResume
            \/ RxClaim \/ RxPark \/ RxTake \/ RxRelease \/ UNCHANGED vars
  BY <1>3, <1>17 DEF TxOffer, TxPark, TxClaim, TxRelease, TxResume, RxClaim, RxPark, RxTake,
                     RxRelease, vars
<1>18. QED
  BY <1>4, <1>5, <1>6, <1>7, <1>8, <1>9, <1>10, <1>11, <1>12, <1>13, <1>14, <1>15, <1>16, <1>17
     DEF Next, TxNext, RxNext

LEMMA TypeStep == WInv /\ [Next]_vars => TypeOK'
<1> SUFFICES ASSUME WInv, [Next]_vars PROVE TypeOK'
  OBVIOUS
<1>1. CacheType'
  BY CacheStep
<1>2. CacheType /\ "rx" \in Hart /\ "tx" \in Hart /\ Box \in Line
  BY DEF WInv, TypeOK, CacheType, Hart, Box, Line
<1>3. TypeOK /\ NrMsgs \in Nat /\ sent \in Nat /\ turn \in {0, 1}
  BY CacheAssumption DEF CacheAssumption, WInv, TypeOK
<1>4. Stored(turn) \in Line /\ Own(sent) \in Line /\ 1 - turn \in {0, 1}
  BY <1>3, Lines
<1>5. TypeOK' <=>
        /\ storage' \in Storages
        /\ chan' \in {"empty", "tx", "waitTx", "rx", "waitRx"}
        /\ chBuf' \in Line /\ turn' \in {0, 1}
        /\ txpc' \in {"fill", "flush", "claim", "park", "parked", "copy", "flushcopy",
                      "post", "flushpost", "release"}
        /\ sent' \in 0 .. NrMsgs /\ txBuf' \in Line
        /\ rxpc' \in {"recv", "clear", "flushclear", "park", "settle", "parked", "look",
                      "drop", "tidy", "flushtidy", "fetch", "copy", "flushcopy",
                      "release", "use"}
        /\ rxBuf' \in Line /\ seen' \in Seq(Nat)
        /\ rung' \subseteq Hart
  BY <1>1 DEF TypeOK, CacheType
<1> USE DEF TypeOK, chanVars, txVars, rxVars, TxGoto, RxGoto
<1>6. CASE \/ FlushMsg \/ TxOffer \/ TxPark \/ TxClaim \/ TxCopy
           \/ TxFlushCopy \/ Post \/ FlushPost \/ TxRelease \/ TxResume
  BY <1>2, <1>3, <1>4, <1>5, <1>6
     DEF FlushMsg, TxOffer, TxPark, TxClaim, TxCopy, TxFlushCopy, FlushStorage, Post,
         FlushPost, TxRelease, TxResume
<1>7. CASE Fill
  BY <1>3, <1>5, <1>7 DEF Fill
<1>8. CASE RxClaim \/ Clear \/ FlushClear \/ RxPark \/ Settle \/ RxResume
           \/ DropMsg \/ Tidy \/ FlushTidy \/ RxTake
  BY <1>2, <1>3, <1>5, <1>8
     DEF RxClaim, Clear, FlushClear, RxPark, Settle, RxResume, DropMsg, Tidy, FlushTidy, RxTake
<1>9. CASE RxFetch \/ RxCopy \/ RxFlushCopy \/ RxRelease
  BY <1>2, <1>3, <1>4, <1>5, <1>9 DEF RxFetch, RxCopy, RxFlushCopy, FlushStorage, RxRelease
<1>10. CASE Look
  <2>1. Value("rx", Box) \in Line
    BY <1>2, Places DEF Value, WInv, BoxOK
  <2>2. QED
    BY <1>3, <1>5, <1>10, <2>1 DEF Look
<1>11. CASE Use
  <2>1. Value("rx", rxBuf) \in Nat
    BY <1>2, <1>3, ValueType
  <2>2. seen' \in Seq(Nat)
    BY <1>3, <1>11, <2>1 DEF Use
  <2>3. QED
    BY <1>3, <1>5, <1>11, <2>2 DEF Use
<1>12. CASE Displace
  BY <1>3, <1>5, <1>12 DEF Displace, DisplaceL1, DisplaceL2
<1>13. CASE UNCHANGED vars
  BY <1>3, <1>5, <1>13 DEF vars
<1>14. QED
  BY <1>6, <1>7, <1>8, <1>9, <1>10, <1>11, <1>12, <1>13 DEF Next, TxNext, RxNext

LEMMA ProtocolStep == TypeOK /\ Protocol /\ [Next]_vars => Protocol'
<1> SUFFICES ASSUME TypeOK, Protocol, [Next]_vars PROVE Protocol'
  OBVIOUS
<1> USE DEF TypeOK, Protocol, Delivering, Taking, chanVars, txVars, rxVars, TxGoto, RxGoto
<1>1. CASE Fill \/ FlushMsg \/ TxOffer \/ TxPark \/ TxClaim \/ TxCopy
  BY <1>1 DEF Fill, FlushMsg, TxOffer, TxPark, TxClaim, TxCopy
<1>2. CASE TxFlushCopy \/ Post \/ FlushPost \/ TxRelease \/ TxResume
  BY <1>2 DEF TxFlushCopy, Post, FlushPost, TxRelease, TxResume
<1>3. CASE RxClaim \/ Clear \/ FlushClear \/ RxPark \/ Settle \/ RxResume \/ Look
  BY <1>3 DEF RxClaim, Clear, FlushClear, RxPark, Settle, RxResume, Look
<1>4. CASE DropMsg \/ Tidy \/ FlushTidy \/ RxTake \/ RxFetch \/ RxCopy \/ RxFlushCopy
           \/ RxRelease \/ Use
  BY <1>4 DEF DropMsg, Tidy, FlushTidy, RxTake, RxFetch, RxCopy, RxFlushCopy, RxRelease, Use
<1>5. CASE Displace \/ UNCHANGED vars
  BY <1>5 DEF Displace, DisplaceL1, DisplaceL2, vars
<1>6. QED
  BY <1>1, <1>2, <1>3, <1>4, <1>5 DEF Next, TxNext, RxNext

-----------------------------------------------------------------------------
(***************************************************************************)
(* Dirty copies.                                                           *)
(***************************************************************************)
\* The two never write one line at once.
LEMMA Apart2 ==
  ASSUME Protocol, sent \in Nat, turn \in {0, 1}, NEW x \in Line, Writes("tx", x)
  PROVE  ~Writes("rx", x)
<1>1. Own(sent) \in {1, 2} /\ Stored(turn) \in {3, 4} /\ Box = 0
  BY Lines DEF Box
<1>2. QED
  BY <1>1 DEF Protocol, Writes, Delivering, Taking

LEMMA DirtKept ==
  ASSUME DirtOK, \A h \in Hart, x \in Line : Writes(h, x) => Writes(h, x)',
         \A h \in Hart, x \in Line : l1'[h][x] = l1[h][x] \/ ~l1'[h][x].dirty,
         \A s \in Shires, x \in Line : l2'[s][x] = l2[s][x] \/ ~l2'[s][x].dirty
  PROVE  DirtOK'
  BY DEF DirtOK

LEMMA DirtStored ==
  ASSUME DirtOK, \A h \in Hart, x \in Line : Writes(h, x) => Writes(h, x)',
         NEW g \in Hart, NEW y \in Line, Writes(g, y)', NEW v, l1'[g][y] = Dirty(v),
         \A h \in Hart, x \in Line : (h = g /\ x = y) \/ l1'[h][x] = l1[h][x] \/ ~l1'[h][x].dirty,
         \A s \in Shires, x \in Line : l2'[s][x] = l2[s][x] \/ ~l2'[s][x].dirty
  PROVE  DirtOK'
  BY DEF DirtOK, Dirty

LEMMA DirtFlushed ==
  ASSUME DirtOK, NEW g \in Hart, NEW y \in Line, Flushed(g, y),
         \A h \in Hart, x \in Line : Writes(h, x) /\ ~(h = g /\ x = y) => Writes(h, x)'
  PROVE  DirtOK'
<1>1. Shire(g) \in Shires
  BY Places
<1>2. Apart(g, y) /\ ~l1'[g][y].dirty /\ ~l2'[Shire(g)][y].dirty
  BY DEF Flushed, Clean
<1>3. ASSUME NEW h \in Hart, NEW x \in Line, l1'[h][x].dirty
      PROVE  l1'[h][x].here /\ Writes(h, x)'
  BY <1>2, <1>3 DEF Apart, DirtOK
<1>4. ASSUME NEW s \in Shires, NEW x \in Line, l2'[s][x].dirty
      PROVE  l2'[s][x].here /\ \E h \in Hart : s = Shire(h) /\ Writes(h, x)'
  <2>1. s # Shire(g) \/ x # y
    BY <1>2, <1>4
  <2>2. l2'[s][x] = l2[s][x]
    BY <1>2, <2>1 DEF Apart
  <2>3. l2[s][x].here /\ \E h \in Hart : s = Shire(h) /\ Writes(h, x)
    BY <1>4, <2>2 DEF DirtOK
  <2>4. QED
    BY <2>1, <2>2, <2>3
<1>5. QED
  BY <1>3, <1>4 DEF DirtOK

LEMMA DirtDropped ==
  ASSUME DirtOK, NEW g \in Hart, NEW y \in Line, Dropped(g, y),
         \A h \in Hart, x \in Line : Writes(h, x) => Writes(h, x)'
  PROVE  DirtOK'
<1>1. Shire(g) \in Shires
  BY Places
<1>2. CASE ~l1[g][y].dirty
  <2>1. \A h \in Hart, x \in Line : l1'[h][x] = l1[h][x] \/ ~l1'[h][x].dirty
    BY DEF Dropped, Apart, NoCopy
  <2>2. \A s \in Shires, x \in Line : l2'[s][x] = l2[s][x]
    BY <1>1, <1>2 DEF Dropped, Apart
  <2>3. QED
    BY <2>1, <2>2, DirtKept
<1>3. CASE l1[g][y].dirty
  <2>1. Writes(g, y) /\ Writes(g, y)'
    BY <1>3 DEF DirtOK
  <2>2. \A h \in Hart, x \in Line : l1'[h][x].dirty => l1'[h][x] = l1[h][x]
    BY DEF Dropped, Apart, NoCopy
  <2>3. \A s \in Shires, x \in Line :
          l2'[s][x] = l2[s][x] \/ (s = Shire(g) /\ x = y /\ l2'[s][x].here)
    BY <1>1, <1>3 DEF Dropped, Apart, Dirty
  <2>4. \A s \in Shires, x \in Line :
          l2'[s][x].dirty => l2'[s][x].here /\ \E h \in Hart : s = Shire(h) /\ Writes(h, x)'
    BY <2>1, <2>3 DEF DirtOK
  <2>5. QED
    BY <2>2, <2>4 DEF DirtOK
<1>4. QED
  BY <1>2, <1>3

\* What loads, evictions and copies leave of the other copies.
LEMMA LoadLess ==
  ASSUME NEW g \in Hart, NEW y \in Line, Loaded(g, y)
  PROVE  /\ \A h \in Hart, x \in Line : l1'[h][x] = l1[h][x] \/ ~l1'[h][x].dirty
         /\ \A s \in Shires, x \in Line : l2'[s][x] = l2[s][x] \/ ~l2'[s][x].dirty
  BY Places DEF Loaded, Apart, Clean

LEMMA EvictLess ==
  ASSUME NEW g \in Hart, NEW y \in Line, Evicted(g, y)
  PROVE  /\ \A h \in Hart, x \in Line : l1'[h][x] = l1[h][x] \/ ~l1'[h][x].dirty
         /\ \A s \in Shires, x \in Line : l2'[s][x] = l2[s][x]
  BY Places DEF Evicted, Apart, NoCopy

LEMMA PutLess ==
  ASSUME NEW g \in Hart, NEW y \in Line, NEW v, Put(g, y, v)
  PROVE  /\ \A h \in Hart, x \in Line : (h = g /\ x = y) \/ l1'[h][x] = l1[h][x]
         /\ \A s \in Shires, x \in Line : l2'[s][x] = l2[s][x] \/ ~l2'[s][x].dirty
         /\ l1'[g][y] = Dirty(v)
  BY Places DEF Put, Apart, Clean

LEMMA CopyLess ==
  ASSUME NEW g \in Hart, NEW y \in Line, NEW t \in Line, t = Stored(turn), Copied(g, y)
  PROVE  /\ \A h \in Hart, x \in Line : (h = g /\ x = t) \/ l1'[h][x] = l1[h][x] \/ ~l1'[h][x].dirty
         /\ \A s \in Shires, x \in Line : l2'[s][x] = l2[s][x] \/ ~l2'[s][x].dirty
         /\ l1'[g][t] = Dirty(Value(g, y))
<1>1. \A h \in Hart, x \in Line :
        (h = g /\ x = t) \/ l1'[h][x] = l1[h][x] \/ l1'[h][x] = Clean(Value(g, y))
  BY DEF Copied
<1>2. \A s \in Shires, x \in Line : l2'[s][x] = l2[s][x] \/ l2'[s][x] = Clean(mem[x])
  BY DEF Copied
<1>3. l1'[g][t] = Dirty(Value(g, y))
  BY DEF Copied
<1>4. \A h \in Hart, x \in Line :
        (h = g /\ x = t) \/ l1'[h][x] = l1[h][x] \/ ~l1'[h][x].dirty
  BY <1>1 DEF Clean
<1>5. \A s \in Shires, x \in Line : l2'[s][x] = l2[s][x] \/ ~l2'[s][x].dirty
  <2>1. \A x \in Line : ~Clean(mem[x]).dirty
    BY DEF Clean
  <2>2. QED
    BY ONLY <1>2, <2>1
<1>6. QED
  BY ONLY <1>3, <1>4, <1>5

LEMMA DirtStep == WInv /\ [Next]_vars => DirtOK'
<1> SUFFICES ASSUME WInv, [Next]_vars PROVE DirtOK'
  OBVIOUS
<1>1. /\ CacheType /\ "tx" \in Hart /\ "rx" \in Hart /\ DirtOK /\ TypeOK
      /\ sent \in Nat /\ turn \in {0, 1}
      /\ Box \in Line /\ chBuf \in Line /\ rxBuf \in Line /\ txBuf \in Nat
  BY CacheAssumption DEF CacheAssumption, WInv, TypeOK, CacheType, Hart, Box, Line
<1>2. /\ Stored(turn) \in Line /\ Own(sent) \in Line
      /\ sent + 1 \in Nat /\ Own(sent + 1) \in Line
  BY <1>1, Lines
<1>w. ASSUME UNCHANGED <<sent, turn>>, txpc \notin {"flush", "flushcopy", "flushpost"} \/ txpc' = txpc,
             rxpc \notin {"flushclear", "flushtidy", "flushcopy"} \/ rxpc' = rxpc
      PROVE  \A h \in Hart, x \in Line : Writes(h, x) => Writes(h, x)'
  BY <1>w DEF Writes, Own, Stored
<1> USE DEF TxGoto, RxGoto, chanVars, txVars, rxVars
<1>3. CASE \/ TxOffer \/ TxPark \/ TxClaim \/ TxRelease \/ TxResume
           \/ RxClaim \/ RxPark \/ RxTake \/ RxRelease \/ UNCHANGED vars
  <2>1. \A h \in Hart, x \in Line : Writes(h, x) => Writes(h, x)'
    BY <1>3, <1>w DEF TxOffer, TxPark, TxClaim, TxRelease, TxResume, RxClaim, RxPark, RxTake,
                      RxRelease, vars
  <2>2. UNCHANGED cacheVars
    BY <1>3 DEF TxOffer, TxPark, TxClaim, TxRelease, TxResume, RxClaim, RxPark, RxTake,
                RxRelease, vars
  <2>3. QED
    BY <1>1, <2>1, <2>2, DirtKept DEF cacheVars
<1>4. CASE Fill
  <2>1. Store("tx", Own(sent + 1), sent + 1) /\ txpc = "fill" /\ txpc' = "flush"
        /\ sent' = sent + 1 /\ UNCHANGED <<turn, rxpc>>
    BY <1>4 DEF Fill
  <2>2. Put("tx", Own(sent + 1), sent + 1)
    BY <1>1, <1>2, <2>1, StoreEffect
  <2>3. PICK y \in Line : y = Own(sent + 1)
    BY <1>2
  <2>4. Writes("tx", y)' /\ \A h \in Hart, x \in Line : Writes(h, x) => Writes(h, x)'
    BY <2>1, <2>3 DEF Writes, Own, Stored
  <2>5. QED
    BY <1>1, <2>2, <2>3, <2>4, PutLess, DirtStored
<1>5. CASE Post
  <2>1. Store("tx", Box, txBuf) /\ txpc = "post" /\ txpc' = "flushpost"
        /\ UNCHANGED <<sent, turn, rxpc>>
    BY <1>5 DEF Post
  <2>2. Put("tx", Box, txBuf)
    BY <1>1, <2>1, StoreEffect
  <2>3. Writes("tx", Box)' /\ \A h \in Hart, x \in Line : Writes(h, x) => Writes(h, x)'
    BY <2>1, <1>w DEF Writes, Box
  <2>4. QED
    BY <1>1, <2>2, <2>3, PutLess, DirtStored
<1>6. CASE Clear \/ Tidy
  <2>1. Store("rx", Box, 0) /\ rxpc \in {"clear", "tidy"} /\ rxpc' \in {"flushclear", "flushtidy"}
        /\ UNCHANGED <<sent, turn, txpc>>
    BY <1>6 DEF Clear, Tidy
  <2>2. Put("rx", Box, 0)
    BY <1>1, <2>1, StoreEffect
  <2>3. Writes("rx", Box)' /\ \A h \in Hart, x \in Line : Writes(h, x) => Writes(h, x)'
    BY <2>1, <1>w DEF Writes, Box
  <2>4. QED
    BY <1>1, <2>2, <2>3, PutLess, DirtStored
<1>7. CASE TxCopy
  <2>1. CopyToStorage("tx", Own(sent)) /\ txpc = "copy" /\ txpc' = "flushcopy"
        /\ UNCHANGED <<sent, turn, rxpc>>
    BY <1>7 DEF TxCopy
  <2>2. Copied("tx", Own(sent))
    BY <1>1, <1>2, <2>1, CopyEffect
  <2>3. PICK t \in Line : t = Stored(turn)
    BY <1>2
  <2>4. Writes("tx", t)' /\ \A h \in Hart, x \in Line : Writes(h, x) => Writes(h, x)'
    BY <2>1, <2>3, <1>w DEF Writes, Stored
  <2>5. QED
    BY <1>1, <1>2, <2>2, <2>3, <2>4, CopyLess, DirtStored
<1>8. CASE RxCopy
  <2>1. CopyToStorage("rx", chBuf) /\ rxpc = "copy" /\ rxpc' = "flushcopy"
        /\ UNCHANGED <<sent, turn, txpc>>
    BY <1>8 DEF RxCopy
  <2>2. Copied("rx", chBuf)
    BY <1>1, <2>1, CopyEffect
  <2>3. PICK t \in Line : t = Stored(turn)
    BY <1>2
  <2>4. Writes("rx", t)' /\ \A h \in Hart, x \in Line : Writes(h, x) => Writes(h, x)'
    BY <2>1, <2>3, <1>w DEF Writes, Stored
  <2>5. QED
    BY <1>1, <2>2, <2>3, <2>4, CopyLess, DirtStored
<1>9. CASE FlushMsg
  <2>1. Flush("tx", Own(sent)) /\ txpc = "flush" /\ UNCHANGED <<sent, turn, rxpc>>
    BY <1>9 DEF FlushMsg
  <2>2. PICK y \in Line : y = Own(sent)
    BY <1>2
  <2>3. \A h \in Hart, x \in Line : Writes(h, x) /\ ~(h = "tx" /\ x = y) => Writes(h, x)'
    BY <2>1, <2>2 DEF Writes, Stored
  <2>4. QED
    BY <1>1, <2>1, <2>2, <2>3, FlushEffect, DirtFlushed
<1>10. CASE FlushPost
  <2>1. Flush("tx", Box) /\ txpc = "flushpost" /\ UNCHANGED <<sent, turn, rxpc>>
    BY <1>10 DEF FlushPost
  <2>2. \A h \in Hart, x \in Line : Writes(h, x) /\ ~(h = "tx" /\ x = Box) => Writes(h, x)'
    BY <2>1 DEF Writes, Stored
  <2>3. QED
    BY <1>1, <2>1, <2>2, FlushEffect, DirtFlushed
<1>11. CASE FlushClear \/ FlushTidy \/ Settle
  <2>1. Flush("rx", Box) /\ rxpc \in {"flushclear", "flushtidy", "settle"}
        /\ UNCHANGED <<sent, turn, txpc>>
    BY <1>11 DEF FlushClear, FlushTidy, Settle
  <2>2. \A h \in Hart, x \in Line : Writes(h, x) /\ ~(h = "rx" /\ x = Box) => Writes(h, x)'
    BY <2>1 DEF Writes, Stored, Own
  <2>3. QED
    BY <1>1, <2>1, <2>2, FlushEffect, DirtFlushed
<1>12. CASE TxFlushCopy
  <2>1. Flush("tx", Stored(turn)) /\ txpc = "flushcopy" /\ UNCHANGED <<sent, rxpc, chan>>
    BY <1>12 DEF TxFlushCopy, FlushStorage
  <2>2. PICK y \in Line : y = Stored(turn)
    BY <1>2
  <2>3. rxpc # "flushcopy"
    BY <2>1 DEF WInv, Protocol, Delivering, Taking
  <2>4. \A h \in Hart, x \in Line : Writes(h, x) /\ ~(h = "tx" /\ x = y) => Writes(h, x)'
    BY <2>1, <2>2, <2>3 DEF Writes
  <2>5. QED
    BY <1>1, <2>1, <2>2, <2>4, FlushEffect, DirtFlushed
<1>13. CASE RxFlushCopy
  <2>1. Flush("rx", Stored(turn)) /\ rxpc = "flushcopy" /\ UNCHANGED <<sent, txpc, chan>>
    BY <1>13 DEF RxFlushCopy, FlushStorage
  <2>2. PICK y \in Line : y = Stored(turn)
    BY <1>2
  <2>3. txpc # "flushcopy"
    BY <2>1 DEF WInv, Protocol, Delivering, Taking
  <2>4. \A h \in Hart, x \in Line : Writes(h, x) /\ ~(h = "rx" /\ x = y) => Writes(h, x)'
    BY <2>1, <2>2, <2>3 DEF Writes, Own
  <2>5. QED
    BY <1>1, <2>1, <2>2, <2>4, FlushEffect, DirtFlushed
<1>14. CASE RxResume \/ DropMsg \/ RxFetch
  <2>1. /\ \E y \in Line : Evict("rx", y)
        /\ rxpc \in {"parked", "drop", "fetch"} /\ UNCHANGED <<sent, turn, txpc>>
    BY <1>1, <1>14 DEF RxResume, DropMsg, RxFetch
  <2>2. PICK y \in Line : Evict("rx", y)
    BY <2>1
  <2>3. Evicted("rx", y)
    BY <1>1, <2>1, <2>2, RxClean, EvictEffect
  <2>4. \A h \in Hart, x \in Line : Writes(h, x) => Writes(h, x)'
    BY <2>1, <1>w
  <2>5. QED
    BY <1>1, <2>3, <2>4, EvictLess, DirtKept
<1>15. CASE Look \/ Use
  <2>1. /\ UNCHANGED cacheVars \/ \E y \in Line : Load("rx", y)
        /\ rxpc \in {"look", "use"} /\ UNCHANGED <<sent, turn, txpc>>
    BY <1>1, <1>15 DEF Look, Use
  <2>2. \A h \in Hart, x \in Line : Writes(h, x) => Writes(h, x)'
    BY <2>1, <1>w
  <2>3. CASE UNCHANGED cacheVars
    BY <1>1, <2>2, <2>3, DirtKept DEF cacheVars
  <2>4. ASSUME NEW y \in Line, Load("rx", y) PROVE DirtOK'
    <3>1. Loaded("rx", y)
      BY <1>1, <2>4, LoadEffect
    <3>2. QED
      BY <1>1, <2>2, <3>1, LoadLess, DirtKept
  <2>5. QED
    BY <2>1, <2>3, <2>4
<1>16. ASSUME NEW h \in Hart, NEW x \in Line, DisplaceL1(h, x) PROVE DirtOK'
  <2>1. \A g \in Hart, y \in Line : Writes(g, y) => Writes(g, y)'
    BY <1>16, <1>w DEF DisplaceL1
  <2>2. QED
    BY <1>1, <1>16, <2>1, DisplaceL1Effect, DirtDropped
<1>17. ASSUME NEW s \in Shires, NEW x \in Line, DisplaceL2(s, x) PROVE DirtOK'
  <2>1. \A g \in Hart, y \in Line : Writes(g, y) => Writes(g, y)'
    BY <1>17, <1>w DEF DisplaceL2
  <2>2. DroppedL2(s, x)
    BY <1>1, <1>17, DisplaceL2Effect
  <2>3. /\ \A g \in Hart, y \in Line : l1'[g][y] = l1[g][y]
        /\ \A t \in Shires, y \in Line : l2'[t][y] = l2[t][y] \/ ~l2'[t][y].dirty
    BY <2>2 DEF DroppedL2, NoCopy
  <2>4. QED
    BY <1>1, <2>1, <2>3, DirtKept
<1>18. QED
  BY <1>3, <1>4, <1>5, <1>6, <1>7, <1>8, <1>9, <1>10, <1>11, <1>12, <1>13, <1>14, <1>15, <1>16, <1>17
     DEF Next, TxNext, RxNext, Displace

-----------------------------------------------------------------------------
(***************************************************************************)
(* Which steps leave a line alone.                                         *)
(***************************************************************************)
LEMMA Kinds ==
  ASSUME WInv
  PROVE  /\ CacheType /\ DirtOK /\ Protocol /\ "tx" \in Hart /\ "rx" \in Hart
         /\ sent \in Nat /\ sent + 1 \in Nat /\ turn \in {0, 1} /\ txBuf \in Nat
         /\ Box \in Line /\ chBuf \in Line /\ rxBuf \in Line /\ txBuf \in Line
         /\ Stored(turn) \in Line /\ Own(sent) \in Line /\ Own(sent + 1) \in Line
<1>1. /\ CacheType /\ DirtOK /\ Protocol /\ "tx" \in Hart /\ "rx" \in Hart
      /\ sent \in Nat /\ turn \in {0, 1} /\ txBuf \in Nat
      /\ Box \in Line /\ chBuf \in Line /\ rxBuf \in Line /\ txBuf \in Line
  BY CacheAssumption DEF CacheAssumption, WInv, TypeOK, CacheType, Hart, Box, Line
<1>2. QED
  BY <1>1, Lines

LEMMA TxCalm ==
  ASSUME WInv, TxNext, NEW x \in Line
  PROVE  \/ Calm({"tx"}, x)
         \/ Fill /\ x = Own(sent + 1)
         \/ Post /\ x = Box
         \/ TxCopy /\ x = Stored(turn)
<1>1. CASE \/ TxOffer \/ TxPark \/ TxClaim \/ TxRelease \/ TxResume
  BY <1>1 DEF TxOffer, TxPark, TxClaim, TxRelease, TxResume, Calm
<1>2. CASE Fill /\ x # Own(sent + 1)
  <2>1. Store("tx", Own(sent + 1), sent + 1) /\ Own(sent + 1) \in Line /\ sent + 1 \in Nat
    BY <1>2, Kinds DEF Fill
  <2>2. QED
    BY <1>2, <2>1 DEF Calm
<1>3. CASE Post /\ x # Box
  <2>1. Store("tx", Box, txBuf) /\ Box \in Line /\ txBuf \in Nat
    BY <1>3, Kinds DEF Post
  <2>2. QED
    BY <1>3, <2>1 DEF Calm
<1>4. CASE TxCopy /\ x # Stored(turn)
  BY <1>4, Kinds DEF TxCopy, Calm
<1>5. CASE FlushMsg \/ TxFlushCopy \/ FlushPost
  BY <1>5, Kinds DEF FlushMsg, TxFlushCopy, FlushStorage, FlushPost, Calm
<1>6. QED
  BY <1>1, <1>2, <1>3, <1>4, <1>5 DEF TxNext

LEMMA RxCalm ==
  ASSUME WInv, RxNext, NEW x \in Line
  PROVE  \/ Calm({"rx"}, x)
         \/ (Clear \/ Tidy) /\ x = Box
         \/ RxCopy /\ x = Stored(turn)
<1>1. CASE RxClaim \/ RxPark \/ RxTake \/ RxRelease
  BY <1>1 DEF RxClaim, RxPark, RxTake, RxRelease, Calm
<1>2. CASE (Clear \/ Tidy) /\ x # Box
  <2>1. Store("rx", Box, 0) /\ Box \in Line
    BY <1>2, Kinds DEF Clear, Tidy
  <2>2. QED
    BY <1>2, <2>1 DEF Calm
<1>3. CASE RxCopy /\ x # Stored(turn)
  BY <1>3, Kinds DEF RxCopy, Calm
<1>4. CASE FlushClear \/ FlushTidy \/ Settle \/ RxFlushCopy
  BY <1>4, Kinds DEF FlushClear, FlushTidy, Settle, RxFlushCopy, FlushStorage, Calm
<1>5. CASE RxResume \/ DropMsg \/ RxFetch
  <2>1. rxpc \in {"parked", "drop", "fetch"} /\ \E y \in Line : Evict("rx", y)
    BY <1>5, Kinds DEF RxResume, DropMsg, RxFetch, RxGoto
  <2>2. \A y \in Line : ~l1["rx"][y].dirty
    BY <2>1, Kinds, RxClean
  <2>3. QED
    BY <2>1, <2>2 DEF Calm
<1>6. CASE Look \/ Use
  BY <1>6, Kinds DEF Look, Use, Calm
<1>7. QED
  BY <1>1, <1>2, <1>3, <1>4, <1>5, <1>6 DEF RxNext

LEMMA OtherCalm == ASSUME Displace \/ UNCHANGED vars, NEW x \in Line, NEW G PROVE Calm(G, x)
  BY DEF Displace, vars, Calm

LEMMA Wider == ASSUME NEW x, NEW G \in SUBSET Hart, Calm(G, x) PROVE Calm(Hart, x)
  BY DEF Calm

-----------------------------------------------------------------------------
(***************************************************************************)
(* The mailbox.                                                            *)
(***************************************************************************)
BoxVals ==
  /\ mem[Box] \in Line
  /\ \A h \in Hart : l1[h][Box].val \in Line
  /\ \A s \in Shires : l2[s][Box].val \in Line

LEMMA BoxStays ==
  ASSUME BoxVals, mem'[Box] \in Line,
         \A h \in Hart : l1'[h][Box] = l1[h][Box] \/ l1'[h][Box].val \in Line,
         \A s \in Shires : l2'[s][Box] = l2[s][Box] \/ l2'[s][Box].val \in Line
  PROVE  BoxVals'
  BY DEF BoxVals

LEMMA BoxValsStep == WInv /\ [Next]_vars => BoxVals'
<1> SUFFICES ASSUME WInv, [Next]_vars PROVE BoxVals'
  OBVIOUS
<1>1. BoxVals /\ Box \in Line /\ 0 \in Line /\ \A h \in Hart : Shire(h) \in Shires
  BY Places DEF WInv, BoxOK, BoxVals, Box, Line
<1>2. \A h \in Hart : Value(h, Box) \in Line
  BY <1>1 DEF BoxVals, Value
<1>3. CASE UNCHANGED cacheVars
  BY <1>1, <1>3 DEF cacheVars, BoxVals
<1>4. ASSUME NEW g \in Hart, NEW y \in Line, Loaded(g, y) PROVE BoxVals'
  <2>1. mem'[Box] \in Line
    BY <1>1, <1>4 DEF Loaded, BoxVals
  <2>2. \A h \in Hart : l1'[h][Box] = l1[h][Box] \/ l1'[h][Box].val \in Line
    BY <1>1, <1>2, <1>4 DEF Loaded, Apart, Clean
  <2>3. \A s \in Shires : l2'[s][Box] = l2[s][Box] \/ l2'[s][Box].val \in Line
    BY <1>1, <1>4 DEF Loaded, Apart, Clean, BoxVals
  <2>4. QED
    BY <1>1, <2>1, <2>2, <2>3, BoxStays
<1>5. ASSUME NEW g \in Hart, NEW y \in Line, NEW v, y = Box => v \in Line, Put(g, y, v) PROVE BoxVals'
  <2>1. mem'[Box] \in Line
    BY <1>1, <1>5 DEF Put, BoxVals
  <2>2. \A h \in Hart : l1'[h][Box] = l1[h][Box] \/ l1'[h][Box].val \in Line
    BY <1>1, <1>5 DEF Put, Apart, Dirty
  <2>3. \A s \in Shires : l2'[s][Box] = l2[s][Box] \/ l2'[s][Box].val \in Line
    BY <1>1, <1>5 DEF Put, Apart, Clean, BoxVals
  <2>4. QED
    BY <1>1, <2>1, <2>2, <2>3, BoxStays
<1>6. ASSUME NEW g \in Hart, NEW y \in Line, Flushed(g, y) PROVE BoxVals'
  <2>1. mem'[Box] \in Line
    BY <1>1, <1>6 DEF Flushed, Apart, BoxVals
  <2>2. \A h \in Hart : l1'[h][Box] = l1[h][Box] \/ l1'[h][Box].val \in Line
    BY <1>1, <1>6 DEF Flushed, Apart, Clean, BoxVals
  <2>3. \A s \in Shires : l2'[s][Box] = l2[s][Box] \/ l2'[s][Box].val \in Line
    BY <1>1, <1>6 DEF Flushed, Apart, Clean, BoxVals
  <2>4. QED
    BY <1>1, <2>1, <2>2, <2>3, BoxStays
<1>7. ASSUME NEW g \in Hart, NEW y \in Line, Evicted(g, y) PROVE BoxVals'
  <2>1. mem'[Box] \in Line
    BY <1>1, <1>7 DEF Evicted, BoxVals
  <2>2. \A h \in Hart : l1'[h][Box] = l1[h][Box] \/ l1'[h][Box].val \in Line
    BY <1>1, <1>7 DEF Evicted, Apart, NoCopy
  <2>3. \A s \in Shires : l2'[s][Box] = l2[s][Box] \/ l2'[s][Box].val \in Line
    BY <1>1, <1>7 DEF Evicted, Apart
  <2>4. QED
    BY <1>1, <2>1, <2>2, <2>3, BoxStays
<1>8. ASSUME NEW g \in Hart, NEW y \in Line, Dropped(g, y) PROVE BoxVals'
  <2>1. mem'[Box] \in Line
    BY <1>1, <1>8 DEF Dropped, BoxVals
  <2>2. \A h \in Hart : l1'[h][Box] = l1[h][Box] \/ l1'[h][Box].val \in Line
    BY <1>1, <1>8 DEF Dropped, Apart, NoCopy
  <2>3. \A s \in Shires : l2'[s][Box] = l2[s][Box] \/ l2'[s][Box].val \in Line
    BY <1>1, <1>8 DEF Dropped, Apart, Dirty, BoxVals
  <2>4. QED
    BY <1>1, <2>1, <2>2, <2>3, BoxStays
<1>9. ASSUME NEW s \in Shires, NEW y \in Line, DroppedL2(s, y) PROVE BoxVals'
  BY <1>1, <1>9 DEF DroppedL2, NoCopy, BoxVals
<1>10. ASSUME NEW g \in Hart, NEW y \in Line, Copied(g, y) PROVE BoxVals'
  <2>1. mem'[Box] \in Line /\ Stored(turn) # Box
    BY <1>1, <1>10, Kinds DEF Copied, BoxVals, Stored, Box
  <2>2. \A h \in Hart : l1'[h][Box] = l1[h][Box] \/ l1'[h][Box] = Clean(Value(h, Box))
    BY <1>1, <1>10, <2>1 DEF Copied
  <2>3. \A s \in Shires : l2'[s][Box] = l2[s][Box] \/ l2'[s][Box] = Clean(mem[Box])
    BY <1>1, <1>10 DEF Copied
  <2>4. /\ Clean(mem[Box]).val \in Line
        /\ \A h \in Hart : Clean(Value(h, Box)).val \in Line
    BY <1>1, <1>2 DEF Clean, BoxVals
  <2>5. /\ \A h \in Hart : l1'[h][Box] = l1[h][Box] \/ l1'[h][Box].val \in Line
        /\ \A s \in Shires : l2'[s][Box] = l2[s][Box] \/ l2'[s][Box].val \in Line
    BY <2>2, <2>3, <2>4
  <2>6. QED
    BY <1>1, <2>1, <2>5, BoxStays
<1>11. CASE Fill
  <2>1. Store("tx", Own(sent + 1), sent + 1) /\ Own(sent + 1) # Box
    BY <1>11, Kinds, Lines DEF Fill, Box
  <2>2. Put("tx", Own(sent + 1), sent + 1)
    BY <2>1, Kinds, StoreEffect
  <2>3. QED
    BY <2>1, <2>2, <1>5, Kinds
<1>12. CASE Post
  <2>1. Put("tx", Box, txBuf)
    BY <1>12, Kinds, StoreEffect DEF Post
  <2>2. QED
    BY <2>1, <1>5, Kinds
<1>13. CASE Clear \/ Tidy
  <2>1. Put("rx", Box, 0)
    BY <1>13, Kinds, StoreEffect DEF Clear, Tidy
  <2>2. QED
    BY <1>1, <2>1, <1>5, Kinds
<1>14. CASE TxCopy
  BY <1>10, <1>14, Kinds, CopyEffect DEF TxCopy
<1>15. CASE RxCopy
  BY <1>10, <1>15, Kinds, CopyEffect DEF RxCopy
<1>16. CASE ~(Fill \/ Post \/ Clear \/ Tidy \/ TxCopy \/ RxCopy)
  <2>1. /\ TxNext => Calm({"tx"}, Box)
        /\ RxNext => Calm({"rx"}, Box)
        /\ Displace \/ UNCHANGED vars => Calm({}, Box)
    BY <1>1, <1>16, TxCalm, RxCalm, OtherCalm
  <2>2. {"tx"} \in SUBSET Hart /\ {"rx"} \in SUBSET Hart /\ {} \in SUBSET Hart
    BY DEF Hart
  <2>3. Calm(Hart, Box)
    BY <2>1, <2>2, Wider DEF Next
  <2>4. ASSUME NEW g \in Hart, NEW y \in Line, CopyToStorage(g, y) PROVE BoxVals'
    BY <1>10, <2>4, Kinds, CopyEffect
  <2>5. ASSUME NEW g \in Hart, NEW y \in Line, NEW v \in Nat, Box # y, Store(g, y, v) PROVE BoxVals'
    BY <1>5, <2>5, Kinds, StoreEffect
  <2>6. ASSUME NEW g \in Hart, NEW y \in Line,
               Load(g, y) \/ Flush(g, y) \/ DisplaceL1(g, y) \/ (Evict(g, y) /\ ~l1[g][y].dirty)
        PROVE  BoxVals'
    BY <1>4, <1>6, <1>7, <1>8, <2>6, Kinds, LoadEffect, FlushEffect, DisplaceL1Effect, EvictEffect
  <2>7. ASSUME NEW t \in Shires, NEW y \in Line, DisplaceL2(t, y) PROVE BoxVals'
    BY <1>9, <2>7, Kinds, DisplaceL2Effect
  <2>8. QED
    BY <1>3, <2>3, <2>4, <2>5, <2>6, <2>7 DEF Calm
<1>17. QED
  BY <1>11, <1>12, <1>13, <1>14, <1>15, <1>16

\* While nobody writes a line, memory has what its caches hold back of it.
LEMMA Unwritten ==
  ASSUME DirtOK, NEW x \in Line, \A h \in Hart : ~Writes(h, x)
  PROVE  Settled(x, mem[x])
  BY Places DEF DirtOK, Settled

\* A hart that flushes what it has stored brings it to memory.
LEMMA FlushFresh ==
  ASSUME NEW h \in Hart, NEW x \in Line, NEW v, Fresh(h, x, v), Flushed(h, x), DirtOK
  PROVE  mem'[x] = v
  BY Places DEF Fresh, Flushed, DirtOK

LEMMA BoxStep == WInv /\ [Next]_vars => BoxOK'
<1> SUFFICES ASSUME WInv, [Next]_vars PROVE BoxOK'
  OBVIOUS
<1>1. BoxVals'
  BY BoxValsStep
<1>2. (txpc \in {"flushcopy", "post", "flushpost", "release"} => txBuf # 0)'
  <2>1. Own(sent) # 0 /\ Stored(turn) # 0
    BY Kinds, Lines DEF Stored
  <2>2. CASE TxNext
    BY <2>1, <2>2 DEF WInv, BoxOK, TxNext, Fill, FlushMsg, TxOffer, TxPark, TxClaim, TxCopy,
                      TxFlushCopy, Post, FlushPost, TxRelease, TxResume, TxGoto
  <2>3. CASE UNCHANGED txVars
    BY <2>3 DEF WInv, BoxOK, txVars
  <2>4. RxNext \/ Displace \/ UNCHANGED vars => UNCHANGED txVars
    BY DEF RxNext, RxClaim, Clear, FlushClear, RxPark, Settle, RxResume, Look, DropMsg, Tidy,
           FlushTidy, RxTake, RxFetch, RxCopy, RxFlushCopy, RxRelease, Use, Displace, DisplaceL1,
           DisplaceL2, vars
  <2>5. QED
    BY <2>2, <2>3, <2>4 DEF Next
<1>3. ASSUME txpc' = "flushpost" PROVE Fresh("tx", Box, txBuf)'
  <2>1. CASE TxNext
    <3>1. Post
      BY <1>3, <2>1 DEF TxNext, Fill, FlushMsg, TxOffer, TxPark, TxClaim, TxCopy,
                        TxFlushCopy, FlushPost, TxRelease, TxResume, TxGoto
    <3>2. Put("tx", Box, txBuf) /\ txBuf' = txBuf
      BY <3>1, Kinds, StoreEffect DEF Post
    <3>3. QED
      BY <3>2 DEF Put, Dirty, Fresh
  <2>2. CASE RxNext \/ Displace \/ UNCHANGED vars
    <3>1. txpc = "flushpost" /\ txBuf' = txBuf
      BY <1>3, <2>2
         DEF RxNext, RxClaim, Clear, FlushClear, RxPark, Settle, RxResume, Look, DropMsg, Tidy,
             FlushTidy, RxTake, RxFetch, RxCopy, RxFlushCopy, RxRelease, Use, Displace, DisplaceL1,
             DisplaceL2, vars, txVars
    <3>2. rxpc \in {"settle", "parked"}
      BY <3>1, Kinds DEF Protocol, Delivering
    <3>3. RxNext => Calm({"rx"}, Box)
      BY <3>2, RxCalm, Kinds DEF Clear, Tidy, RxCopy, RxGoto
    <3>4. {"rx"} = Hart \ {"tx"}
      BY DEF Hart
    <3>5. Calm(Hart \ {"tx"}, Box)
      BY <2>2, <3>3, <3>4, OtherCalm, Kinds
    <3>6. \A g \in Hart : Writes(g, Box) => g = "tx"
      BY <3>2 DEF Writes, Hart, Stored, Box
    <3>7. PICK v : v = txBuf
      OBVIOUS
    <3>8. Fresh("tx", Box, v)
      BY <3>1, <3>7 DEF WInv, BoxOK
    <3>9. Fresh("tx", Box, v)'
      BY <3>5, <3>6, <3>8, Kinds, FreshKept
    <3>10. QED
      BY <3>1, <3>7, <3>9 DEF Fresh
  <2>3. QED
    BY <2>1, <2>2 DEF Next
<1>4. QED
  BY <1>1, <1>2, <1>3 DEF BoxVals, BoxOK

\* Nobody stores to the mailbox while a message is in it.
LEMMA PostedStays ==
  ASSUME WInv, [Next]_vars, Posted
  PROVE  Settled(Box, mem[Box]) /\ Calm(Hart, Box) /\ mem'[Box] = mem[Box]
<1>1. \/ txpc = "release" /\ rxpc \in {"settle", "parked"}
      \/ txpc \notin Delivering /\ rxpc \in {"settle", "parked", "look"}
  BY Kinds DEF Posted, Protocol, Delivering
<1>2. \A h \in Hart : ~Writes(h, Box)
  <2>1. Stored(turn) # Box /\ Own(sent) # Box
    BY Kinds, Lines DEF Box, Stored
  <2>2. QED
    BY <1>1, <2>1 DEF Writes, Delivering
<1>3. /\ TxNext => Calm({"tx"}, Box)
      /\ RxNext => Calm({"rx"}, Box)
      /\ Displace \/ UNCHANGED vars => Calm({}, Box)
  <2>1. Own(sent + 1) # Box /\ Stored(turn) # Box
    BY Kinds, Lines DEF Box, Stored
  <2>2. ~Post /\ ~Clear /\ ~Tidy
    BY <1>1 DEF Post, Clear, Tidy, TxGoto, RxGoto, Delivering
  <2>3. QED
    BY <2>1, <2>2, TxCalm, RxCalm, OtherCalm, Kinds
<1>4. {"tx"} \in SUBSET Hart /\ {"rx"} \in SUBSET Hart /\ {} \in SUBSET Hart
  BY DEF Hart
<1>5. Calm(Hart, Box)
  BY <1>3, <1>4, Wider DEF Next
<1>6. PICK v : v = mem[Box]
  OBVIOUS
<1>7. Settled(Box, v)
  BY <1>2, <1>6, Unwritten, Kinds
<1>8. Settled(Box, v)'
  BY <1>5, <1>7, SettledKept, Kinds
<1>9. QED
  BY <1>2, <1>5, <1>6, <1>8, Unwritten, Kinds DEF Settled

LEMMA PostStep == WInv /\ [Next]_vars => PostKept'
<1> SUFFICES ASSUME WInv, [Next]_vars, Posted' PROVE mem'[Box] # 0
  BY DEF PostKept
<1>1. CASE Posted
  BY <1>1, PostedStays DEF WInv, PostKept
<1>2. CASE ~Posted
  <2>1. FlushPost
    <3>1. CASE TxNext
      BY <1>2, <3>1 DEF Posted, TxNext, Fill, FlushMsg, TxOffer, TxPark, TxClaim, TxCopy,
                        TxFlushCopy, Post, TxRelease, TxResume, TxGoto, rxVars
    <3>2. CASE RxNext
      BY <1>2, <3>2
         DEF Posted, RxNext, RxClaim, Clear, FlushClear, RxPark, Settle, RxResume, Look, DropMsg,
             Tidy, FlushTidy, RxTake, RxFetch, RxCopy, RxFlushCopy, RxRelease, Use, RxGoto, txVars
    <3>3. CASE Displace \/ UNCHANGED vars
      BY <1>2, <3>3 DEF Posted, Displace, DisplaceL1, DisplaceL2, vars, txVars, rxVars
    <3>4. QED
      BY <3>1, <3>2, <3>3 DEF Next
  <2>2. Flushed("tx", Box) /\ txpc = "flushpost"
    BY <2>1, Kinds, FlushEffect DEF FlushPost, TxGoto
  <2>3. Fresh("tx", Box, txBuf) /\ txBuf # 0
    BY <2>2 DEF WInv, BoxOK
  <2>4. QED
    BY <2>2, <2>3, Kinds, FlushFresh
<1>3. QED
  BY <1>1, <1>2

LEMMA InitW == Init => WInv
<1> SUFFICES ASSUME Init PROVE WInv
  OBVIOUS
<1>1. /\ l1 = [h \in Hart |-> [x \in Line |-> NoCopy]]
      /\ l2 = [s \in Shires |-> [x \in Line |-> NoCopy]]
      /\ mem = [x \in Line |-> 0] /\ Box \in Line /\ 0 \in Line
      /\ NoCopy \in Copy /\ ~NoCopy.dirty /\ NoCopy.val = 0
  BY DEF Init, NoCopy, Copy, Box, Line
<1>2. CacheType
  BY <1>1 DEF CacheType
<1>3. TypeOK
  BY <1>2, CacheAssumption DEF CacheAssumption, CacheType, Init, TypeOK, Line, Hart
<1>4. DirtOK
  BY <1>1 DEF DirtOK
<1>5. BoxOK
  BY <1>1 DEF Init, BoxOK
<1>6. Protocol /\ PostKept
  BY DEF Init, Protocol, PostKept, Posted, Delivering, Taking
<1>7. QED
  BY <1>3, <1>4, <1>5, <1>6 DEF WInv

LEMMA StepW == WInv /\ [Next]_vars => WInv'
<1>1. WInv /\ [Next]_vars => Protocol'
  BY ProtocolStep DEF WInv
<1>2. QED
  BY <1>1, TypeStep, DirtStep, BoxStep, PostStep DEF WInv

LEMMA AlwaysW == Spec => []WInv
  BY InitW, StepW, PTL DEF Spec

\* Every variable keeps its type: an evicted or displaced line and the pointer
\* in the mailbox are always lines the program has.
THEOREM TypeCorrect == Spec => []TypeOK
<1>1. WInv => TypeOK
  BY DEF WInv
<1>2. QED
  BY <1>1, AlwaysW, PTL

\* Two harts never hold changes of their own to one line.
THEOREM OneWriterHolds == Spec => []OneWriter
<1>1. WInv => OneWriter
  <2> SUFFICES ASSUME WInv, NEW x \in Line, l1["tx"][x].dirty, l1["rx"][x].dirty PROVE FALSE
    BY DEF OneWriter
  <2>1. Writes("tx", x) /\ Writes("rx", x)
    BY Kinds DEF DirtOK
  <2>2. QED
    BY <2>1, Kinds, Apart2
<1>2. QED
  BY <1>1, AlwaysW, PTL

\* A published message stays in memory until the receiver takes it.
THEOREM PostKeptHolds == Spec => []PostKept
<1>1. WInv => PostKept
  BY DEF WInv
<1>2. QED
  BY <1>1, AlwaysW, PTL

-----------------------------------------------------------------------------
(***************************************************************************)
(* What is received, where evictions reach the one L2 of both harts.       *)
(***************************************************************************)
LEMMA OneShire ==
  ASSUME ~TwoShires PROVE "one" \in Shires /\ \A h \in Hart : Shire(h) = "one"
  BY DEF Shires, Shire, Hart

LEMMA Reads ==
  ASSUME L2Clean, NEW h \in Hart, NEW x \in Line, NEW v, Settled(x, v), Sees(h, x, v)
  PROVE  Value(h, x) = v
  BY Places DEF Value, Settled, Sees, L2Clean

LEMMA FlushSettles ==
  ASSUME NEW h \in Hart, NEW x \in Line, NEW v, Fresh(h, x, v), Flushed(h, x), DirtOK,
         \A g \in Hart : Writes(g, x) => g = h
  PROVE  Settled(x, v)' /\ Sees(h, x, v)'
<1>1. \A g \in Hart : Shire(g) \in Shires
  BY Places
<1>2. /\ \A g \in Hart : l1[g][x].dirty => g = h
      /\ \A s \in Shires : l2[s][x].dirty => s = Shire(h)
  BY DEF DirtOK
<1>3. mem'[x] = v
  BY FlushFresh
<1>4. \A g \in Hart : ~l1'[g][x].dirty
  BY <1>2 DEF Flushed, Apart, Clean
<1>5. \A g \in Hart : ~l2'[Shire(g)][x].dirty
  BY <1>1, <1>2 DEF Flushed, Apart, Clean
<1>6. l1'[h][x].here => l1'[h][x].val = v
  <2>1. CASE l1[h][x].dirty
    <3>1. l1[h][x].val = v
      BY <2>1 DEF Fresh, DirtOK
    <3>2. l1'[h][x] = Clean(l1[h][x].val)
      BY <2>1 DEF Flushed
    <3>3. QED
      BY <3>1, <3>2 DEF Clean
  <2>2. CASE ~l1[h][x].dirty
    <3>1. ~l1[h][x].here
      BY <2>2 DEF Fresh
    <3>2. l1'[h][x] = l1[h][x]
      BY <2>2 DEF Flushed
    <3>3. QED
      BY <3>1, <3>2
  <2>3. QED
    BY <2>1, <2>2
<1>7. QED
  BY <1>3, <1>4, <1>5, <1>6 DEF Settled, Sees

LEMMA AbsentKept ==
  ASSUME CacheType, turn \in {0, 1}, NEW h \in Hart, NEW x \in Line, ~l1[h][x].here,
         Calm(Hart \ {h}, x)
  PROVE  ~l1'[h][x].here
<1> SUFFICES ASSUME l1'[h][x].here PROVE FALSE
  OBVIOUS
<1>1. CASE UNCHANGED cacheVars
  BY <1>1 DEF cacheVars
<1>2. ASSUME NEW g \in Hart, NEW y \in Line, DisplaceL1(g, y) PROVE FALSE
  BY <1>2, DisplaceL1Effect DEF Dropped, Apart, NoCopy
<1>3. ASSUME NEW s \in Shires, NEW y \in Line, DisplaceL2(s, y) PROVE FALSE
  BY <1>3, DisplaceL2Effect DEF DroppedL2
<1>4. ASSUME NEW g \in Hart \ {h}, NEW y \in Line, Load(g, y) PROVE FALSE
  BY <1>4, LoadEffect DEF Loaded, Apart
<1>5. ASSUME NEW g \in Hart \ {h}, NEW y \in Line, Flush(g, y) PROVE FALSE
  BY <1>5, FlushEffect DEF Flushed, Apart
<1>6. ASSUME NEW g \in Hart \ {h}, NEW y \in Line, Evict(g, y), ~l1[g][y].dirty PROVE FALSE
  BY <1>6, EvictEffect DEF Evicted, Apart
<1>7. ASSUME NEW g \in Hart \ {h}, NEW y \in Line, CopyToStorage(g, y) PROVE FALSE
  <2>1. Copied(g, y)
    BY <1>7, CopyEffect
  <2>2. QED
    BY <2>1 DEF Copied
<1>8. ASSUME NEW g \in Hart \ {h}, NEW y \in Line, NEW w \in Nat, Store(g, y, w) PROVE FALSE
  BY <1>8, StoreEffect DEF Put, Apart
<1>9. QED
  BY <1>1, <1>2, <1>3, <1>4, <1>5, <1>6, <1>7, <1>8 DEF Calm

\* Every step is one of the cache operations, or none.
LEMMA Effects ==
  ASSUME WInv, [Next]_vars
  PROVE  \/ UNCHANGED cacheVars
         \/ \E s \in Shires, y \in Line : DroppedL2(s, y)
         \/ \E h \in Hart, y \in Line : \/ Loaded(h, y) \/ Flushed(h, y) \/ Evicted(h, y)
                                        \/ Dropped(h, y) \/ Copied(h, y)
                                        \/ \E v \in Nat : Put(h, y, v)
<1> DEFINE Goal == \/ UNCHANGED cacheVars
                   \/ \E s \in Shires, y \in Line : DroppedL2(s, y)
                   \/ \E h \in Hart, y \in Line : \/ Loaded(h, y) \/ Flushed(h, y) \/ Evicted(h, y)
                                                  \/ Dropped(h, y) \/ Copied(h, y)
                                                  \/ \E v \in Nat : Put(h, y, v)
<1>1. ASSUME NEW h \in Hart, NEW y \in Line,
             Load(h, y) \/ Flush(h, y) \/ DisplaceL1(h, y) \/ (Evict(h, y) /\ ~l1[h][y].dirty)
      PROVE  Goal
  BY <1>1, Kinds, LoadEffect, FlushEffect, EvictEffect, DisplaceL1Effect
<1>2. ASSUME NEW h \in Hart, NEW y \in Line, NEW v \in Nat, Store(h, y, v) PROVE Goal
  BY <1>2, Kinds, StoreEffect
<1>3. ASSUME NEW s \in Shires, NEW y \in Line, DisplaceL2(s, y) PROVE Goal
  BY <1>3, Kinds, DisplaceL2Effect
<1>c. ASSUME NEW h \in Hart, NEW y \in Line, CopyToStorage(h, y) PROVE Goal
  BY <1>c, Kinds, CopyEffect
<1>4. CASE Fill
  <2>1. Store("tx", Own(sent + 1), sent + 1)
    BY <1>4 DEF Fill
  <2>2. QED
    BY <1>2, <2>1, Kinds
<1>5. CASE Post \/ Clear \/ Tidy
  BY <1>2, <1>5, Kinds DEF Post, Clear, Tidy
<1>6. CASE TxCopy \/ RxCopy
  BY <1>c, <1>6, Kinds DEF TxCopy, RxCopy
<1>7. CASE ~(Fill \/ Post \/ Clear \/ Tidy \/ TxCopy \/ RxCopy)
  <2>1. /\ TxNext => Calm({"tx"}, Box)
        /\ RxNext => Calm({"rx"}, Box)
        /\ Displace \/ UNCHANGED vars => Calm({}, Box)
    BY <1>7, TxCalm, RxCalm, OtherCalm, Kinds
  <2>2. {"tx"} \in SUBSET Hart /\ {"rx"} \in SUBSET Hart /\ {} \in SUBSET Hart
    BY DEF Hart
  <2>3. Calm(Hart, Box)
    BY <2>1, <2>2, Wider DEF Next
  <2> HIDE DEF Goal
  <2>4. ASSUME UNCHANGED cacheVars PROVE Goal
    BY <2>4 DEF Goal
  <2>5. Goal
    BY <1>1, <1>2, <1>3, <1>c, <2>3, <2>4 DEF Calm
  <2>6. QED
    BY <2>5 DEF Goal
<1>8. QED
  BY <1>4, <1>5, <1>6, <1>7

LEMMA L2CleanStep == ASSUME ~TwoShires, WInv, L2Clean, [Next]_vars PROVE L2Clean'
<1>1. "one" \in Shires /\ Shires = {"one"} /\ \A h \in Hart : Shire(h) = "one"
  BY OneShire DEF Shires, Hart
<1>2. SUFFICES ASSUME NEW x \in Line, l2'["one"][x].here, ~l2'["one"][x].dirty
               PROVE  l2'["one"][x].val = mem'[x]
  BY <1>1 DEF L2Clean
<1>h. l2["one"][x].here /\ ~l2["one"][x].dirty => l2["one"][x].val = mem[x]
  BY <1>1 DEF L2Clean
<1> DEFINE Goal == l2'["one"][x].val = mem'[x]
<1>3. CASE UNCHANGED cacheVars
  BY <1>2, <1>h, <1>3 DEF cacheVars
<1>4. ASSUME NEW s \in Shires, NEW y \in Line, DroppedL2(s, y) PROVE Goal
  BY <1>1, <1>2, <1>h, <1>4 DEF DroppedL2, NoCopy
<1>5. ASSUME NEW h \in Hart, NEW y \in Line, Loaded(h, y) PROVE Goal
  BY <1>1, <1>2, <1>h, <1>5 DEF Loaded, Apart, Clean
<1>6. ASSUME NEW h \in Hart, NEW y \in Line, Flushed(h, y) PROVE Goal
  <2>1. CASE y # x
    BY <1>1, <1>2, <1>h, <1>6, <2>1 DEF Flushed, Apart
  <2>2. CASE y = x
    BY <1>1, <1>2, <1>h, <1>6, <2>2 DEF Flushed, Clean
  <2>3. QED
    BY <2>1, <2>2
<1>7. ASSUME NEW h \in Hart, NEW y \in Line, Evicted(h, y) PROVE Goal
  BY <1>1, <1>2, <1>h, <1>7 DEF Evicted, Apart
<1>8. ASSUME NEW h \in Hart, NEW y \in Line, Dropped(h, y) PROVE Goal
  BY <1>1, <1>2, <1>h, <1>8 DEF Dropped, Apart, Dirty
<1>9. ASSUME NEW h \in Hart, NEW y \in Line, Copied(h, y) PROVE Goal
  <2>1. mem' = mem /\ (l2'["one"][x] = l2["one"][x] \/ l2'["one"][x] = Clean(mem[x]))
    BY <1>1, <1>9 DEF Copied
  <2>2. QED
    BY <1>2, <1>h, <2>1 DEF Clean
<1>10. ASSUME NEW h \in Hart, NEW y \in Line, NEW v \in Nat, Put(h, y, v) PROVE Goal
  BY <1>1, <1>2, <1>h, <1>10 DEF Put, Apart, Clean
<1>11. QED
  BY <1>3, <1>4, <1>5, <1>6, <1>7, <1>8, <1>9, <1>10, Effects

LEMMA CountsIs ==
  Counts <=> sent = Len(seen) + (IF TxBusy THEN 1 ELSE 0) + (IF RxHas THEN 1 ELSE 0)
  BY DEF Counts, One

LEMMA CountsStep == WInv /\ Counts /\ [Next]_vars => Counts'
<1> SUFFICES ASSUME WInv, Counts, [Next]_vars PROVE Counts'
  OBVIOUS
<1>1. sent \in Nat /\ seen \in Seq(Nat) /\ Len(seen) \in Nat /\ Protocol
  BY Kinds DEF WInv, TypeOK
<1>a. ASSUME NEW d \in {0, 1}, sent' = sent + d, UNCHANGED seen, RxHas' <=> RxHas,
             TxBusy' <=> TxBusy \/ d = 1, d = 1 => ~TxBusy
      PROVE  Counts'
  <2>1. sent = Len(seen) + (IF TxBusy THEN 1 ELSE 0) + (IF RxHas THEN 1 ELSE 0)
    BY CountsIs
  <2>2. Len(seen') = Len(seen) /\ d \in {0, 1}
    BY <1>a
  <2>3. CASE d = 0
    <3>1. sent' = sent /\ (TxBusy' <=> TxBusy)
      BY <1>1, <1>a, <2>3
    <3>2. sent' = Len(seen') + (IF TxBusy' THEN 1 ELSE 0) + (IF RxHas' THEN 1 ELSE 0)
      <4>1. CASE TxBusy /\ RxHas
        BY <1>1, <1>a, <2>1, <2>2, <3>1, <4>1
      <4>2. CASE TxBusy /\ ~RxHas
        BY <1>1, <1>a, <2>1, <2>2, <3>1, <4>2
      <4>3. CASE ~TxBusy
        BY <1>1, <1>a, <2>1, <2>2, <3>1, <4>3
      <4>4. QED
        BY <4>1, <4>2, <4>3
    <3>3. QED
      BY <3>2 DEF Counts, One
  <2>4. CASE d = 1
    BY <1>1, <1>a, <2>1, <2>2, <2>4 DEF Counts, One
  <2>5. QED
    BY <2>2, <2>3, <2>4
<1>b. ASSUME UNCHANGED <<sent, seen>>, TxBusy, ~TxBusy', RxHas', ~RxHas PROVE Counts'
  <2>1. sent = Len(seen) + 1
    BY <1>1, <1>b, CountsIs
  <2>2. Len(seen') = Len(seen) /\ sent' = sent
    BY <1>b
  <2>3. QED
    BY <1>1, <1>b, <2>1, <2>2 DEF Counts, One
<1> USE DEF TxGoto, RxGoto, chanVars, txVars, rxVars
<1>2. CASE Fill
  <2>1. sent' = sent + 1 /\ UNCHANGED seen /\ ~TxBusy /\ TxBusy' /\ (RxHas' <=> RxHas)
    BY <1>2 DEF Fill, TxBusy, RxHas
  <2>2. QED
    BY <1>a, <2>1
<1>3. CASE FlushMsg \/ TxOffer \/ TxPark \/ TxClaim \/ TxCopy \/ TxFlushCopy \/ Post \/ FlushPost
           \/ TxResume
  <2>1. sent' = sent /\ UNCHANGED seen /\ (TxBusy' <=> TxBusy) /\ (RxHas' <=> RxHas)
    BY <1>1, <1>3 DEF FlushMsg, TxOffer, TxPark, TxClaim, TxCopy, TxFlushCopy, Post, FlushPost,
                      TxResume, TxBusy, RxHas, Protocol
  <2>2. QED
    BY <1>1, <1>a, <2>1
<1>4. CASE TxRelease
  <2>1. UNCHANGED <<sent, seen>> /\ TxBusy /\ ~TxBusy' /\ RxHas' /\ ~RxHas
    BY <1>1, <1>4 DEF TxRelease, TxBusy, RxHas, Protocol, Delivering
  <2>2. QED
    BY <1>b, <2>1
<1>5. CASE \/ RxClaim \/ Clear \/ FlushClear \/ RxPark \/ Settle \/ RxResume \/ Look \/ DropMsg
           \/ Tidy \/ FlushTidy \/ RxTake \/ RxFetch \/ RxCopy \/ RxFlushCopy
  <2>1. sent' = sent /\ UNCHANGED seen /\ (TxBusy' <=> TxBusy) /\ (RxHas' <=> RxHas)
    BY <1>1, <1>5 DEF RxClaim, Clear, FlushClear, RxPark, Settle, RxResume, Look, DropMsg,
                      Tidy, FlushTidy, RxTake, RxFetch, RxCopy, RxFlushCopy, TxBusy, RxHas, Protocol
  <2>2. QED
    BY <1>1, <1>a, <2>1
<1>6. CASE RxRelease
  <2>1. UNCHANGED <<sent, seen>> /\ TxBusy /\ ~TxBusy' /\ RxHas' /\ ~RxHas
    BY <1>1, <1>6 DEF RxRelease, TxBusy, RxHas, Protocol, Taking
  <2>2. QED
    BY <1>b, <2>1
<1>7. CASE Use
  <2>1. Len(seen') = Len(seen) + 1
    BY <1>1, <1>7 DEF Use
  <2>2. sent' = sent /\ (TxBusy' <=> TxBusy) /\ RxHas /\ ~RxHas'
    BY <1>1, <1>7 DEF Use, TxBusy, RxHas, Protocol
  <2>3. QED
    BY <1>1, <2>1, <2>2 DEF Counts, One
<1>8. CASE Displace \/ UNCHANGED vars
  <2>1. sent' = sent /\ UNCHANGED seen /\ (TxBusy' <=> TxBusy) /\ (RxHas' <=> RxHas)
    BY <1>8 DEF Displace, DisplaceL1, DisplaceL2, vars, TxBusy, RxHas
  <2>2. QED
    BY <1>1, <1>a, <2>1
<1>9. QED
  BY <1>2, <1>3, <1>4, <1>5, <1>6, <1>7, <1>8 DEF Next, TxNext, RxNext

-----------------------------------------------------------------------------
(***************************************************************************)
(* What the sender holds.                                                  *)
(***************************************************************************)
LEMMA Bufs == \A n \in Nat : BufOf(n) \subseteq {1, 2, 3, 4} /\ BufOf(n) \subseteq Line /\ Box \notin BufOf(n)
  BY Lines DEF BufOf, Box

\* One process leaves the other's variables alone, but for who is woken.
LEMMA RxLeaves ==
  RxNext \/ Displace \/ UNCHANGED vars =>
    UNCHANGED <<txpc, sent, txBuf>> /\ ("tx" \in rung => "tx" \in rung')
  BY DEF RxNext, RxClaim, Clear, FlushClear, RxPark, Settle, RxResume, Look, DropMsg, Tidy,
         FlushTidy, RxTake, RxFetch, RxCopy, RxFlushCopy, RxRelease, Use, Displace, DisplaceL1,
         DisplaceL2, vars, txVars

LEMMA TxLeaves ==
  TxNext \/ Displace \/ UNCHANGED vars =>
    UNCHANGED <<rxpc, rxBuf, seen>> /\ ("rx" \in rung' => TxRelease \/ "rx" \in rung)
  BY DEF TxNext, Fill, FlushMsg, TxOffer, TxPark, TxClaim, TxCopy, TxFlushCopy, Post, FlushPost,
         TxRelease, TxResume, Displace, DisplaceL1, DisplaceL2, vars, rxVars

LEMMA AllCalm ==
  ASSUME WInv, [Next]_vars, NEW x \in Line, x # Box, Fill => x # Own(sent + 1),
         TxCopy \/ RxCopy => x # Stored(turn)
  PROVE  Calm(Hart, x)
<1>1. /\ TxNext => Calm({"tx"}, x)
      /\ RxNext => Calm({"rx"}, x)
      /\ Displace \/ UNCHANGED vars => Calm({}, x)
  BY TxCalm, RxCalm, OtherCalm
<1>2. {"tx"} \in SUBSET Hart /\ {"rx"} \in SUBSET Hart /\ {} \in SUBSET Hart
  BY DEF Hart
<1>3. QED
  BY <1>1, <1>2, Wider DEF Next

\* Nobody writes over the message of the sender,
LEMMA OwnCalm == ASSUME WInv, [Next]_vars PROVE Calm(Hart, Own(sent))
<1>1. /\ Own(sent) \in Line /\ Own(sent) # Box
      /\ Own(sent + 1) # Own(sent) /\ Stored(turn) # Own(sent)
  BY Kinds, Lines DEF Box, Stored
<1>2. QED
  BY <1>1, AllCalm

\* nor over the buffer it is about to publish,
LEMMA OfferCalm ==
  ASSUME WInv, [Next]_vars, txpc \in {"post", "flushpost", "release"}, NEW x \in BufOf(sent)
  PROVE  Calm(Hart, x)
<1>1. x \in Line /\ x # Box
  BY Bufs, Kinds
<1>2. ~Fill /\ ~TxCopy /\ ~RxCopy
  BY Kinds DEF Fill, TxCopy, RxCopy, TxGoto, RxGoto, Protocol, Delivering
<1>3. QED
  BY <1>1, <1>2, AllCalm

\* nor over what the receiver has been given.
LEMMA HeldCalm ==
  ASSUME WInv, Counts, [Next]_vars, RxHas \/ rxpc = "release", NEW x \in BufOf(Len(seen) + 1)
  PROVE  Calm(Hart, x)
<1>1. seen \in Seq(Nat) /\ Len(seen) \in Nat /\ Len(seen) + 1 \in Nat
  BY DEF WInv, TypeOK
<1>2. x \in Line /\ x # Box
  BY <1>1, Bufs
<1>3. ~TxCopy /\ ~RxCopy
  BY Kinds DEF TxCopy, RxCopy, TxGoto, RxGoto, Protocol, Delivering, RxHas
<1>4. ASSUME Fill PROVE x # Own(sent + 1)
  <2>1. txpc = "fill" /\ ~TxBusy
    BY <1>4 DEF Fill, TxGoto, TxBusy
  <2>2. RxHas
    BY <2>1, Kinds DEF Protocol, Taking
  <2>3. sent = Len(seen) + 1
    BY <1>1, <2>1, <2>2, CountsIs
  <2>4. x \in {Own(sent), 3, 4}
    BY <2>3, Lines DEF BufOf
  <2>5. Own(sent + 1) \in {1, 2} /\ Own(sent + 1) # Own(sent)
    BY Kinds, Lines
  <2>6. QED
    BY <2>4, <2>5
<1>5. QED
  BY <1>2, <1>3, <1>4, AllCalm

\* The message in the sender's cache, before it is flushed.
LEMMA MessageFresh ==
  ASSUME IInv, [Next]_vars, txpc' = "flush"
  PROVE  Fresh("tx", Own(sent), sent)'
<1>1. WInv /\ TxData
  BY DEF IInv
<1>2. CASE Fill
  <2>1. PICK x \in Line, v \in Nat : x = Own(sent + 1) /\ v = sent + 1
    BY <1>1, Kinds
  <2>2. Put("tx", x, v)
    BY <1>1, <1>2, <2>1, Kinds, StoreEffect DEF Fill
  <2>3. sent' = v
    BY <1>2, <2>1 DEF Fill
  <2>4. QED
    BY <2>1, <2>2, <2>3 DEF Put, Dirty, Fresh, Own
<1>3. CASE ~Fill
  <2>1. ~TxNext
    BY <1>3 DEF TxNext, FlushMsg, TxOffer, TxPark, TxClaim, TxCopy, TxFlushCopy, Post, FlushPost,
                TxRelease, TxResume, TxGoto
  <2>2. RxNext \/ Displace \/ UNCHANGED vars
    BY <2>1 DEF Next
  <2>3. txpc = "flush" /\ sent' = sent
    BY <2>2, RxLeaves
  <2>4. PICK x \in Line, v \in {sent} : x = Own(sent) /\ v = sent /\ x # Box /\ x # Stored(turn)
    BY <1>1, Kinds, Lines DEF Box, Stored
  <2>5. Fresh("tx", x, v)
    BY <1>1, <2>3, <2>4 DEF TxData
  <2>6. Hart \ {"tx"} = {"rx"} /\ \A g \in Hart : Writes(g, x) => g = "tx"
    BY <2>4 DEF Hart, Writes
  <2>7. Calm(Hart \ {"tx"}, x)
    BY <1>1, <2>2, <2>4, <2>6, RxCalm, OtherCalm
  <2>8. Fresh("tx", x, v)'
    BY <1>1, <2>5, <2>6, <2>7, FreshKept, Kinds
  <2>9. QED
    BY <2>3, <2>4, <2>8 DEF Fresh, Own
<1>4. QED
  BY <1>2, <1>3

\* From then on it is in memory.
LEMMA MessageSettled ==
  ASSUME IInv, [Next]_vars, TxBusy', txpc' # "flush"
  PROVE  (Settled(Own(sent), sent) /\ Sees("tx", Own(sent), sent))'
<1>1. WInv /\ TxData /\ L2Clean
  BY DEF IInv
<1>2. PICK x \in Line, v \in {sent} : x = Own(sent) /\ v = sent /\ x # Box /\ x # Stored(turn)
  BY <1>1, Kinds, Lines DEF Box, Stored
<1>3. CASE FlushMsg
  <2>1. Flushed("tx", x) /\ Fresh("tx", x, v) /\ sent' = sent
    BY <1>1, <1>2, <1>3, Kinds, FlushEffect DEF FlushMsg, TxGoto, TxData
  <2>2. \A g \in Hart : Writes(g, x) => g = "tx"
    BY <1>2 DEF Hart, Writes
  <2>3. (Settled(x, v) /\ Sees("tx", x, v))'
    BY <1>1, <2>1, <2>2, FlushSettles, Kinds
  <2>4. QED
    BY <1>2, <2>1, <2>3 DEF Settled, Sees, Own
<1>4. CASE ~FlushMsg
  <2>1. TxBusy /\ txpc # "flush" /\ sent' = sent
    <3>1. CASE TxNext
      BY <1>4, <3>1 DEF TxNext, Fill, TxOffer, TxPark, TxClaim, TxCopy, TxFlushCopy, Post, FlushPost,
                        TxRelease, TxResume, TxGoto, TxBusy
    <3>2. CASE RxNext \/ Displace \/ UNCHANGED vars
      BY <3>2, RxLeaves DEF TxBusy
    <3>3. QED
      BY <3>1, <3>2 DEF Next
  <2>2. Settled(x, v) /\ Sees("tx", x, v)
    BY <1>1, <1>2, <2>1 DEF TxData
  <2>3. (Settled(x, v) /\ Sees("tx", x, v))'
    BY <1>1, <1>2, <2>2, OwnCalm, SettledKept, SeesKept, Kinds
  <2>4. QED
    BY <1>2, <2>1, <2>3 DEF Settled, Sees, Own
<1>5. QED
  BY <1>3, <1>4

\* The offer names it until it is taken.
LEMMA OfferStep ==
  ASSUME IInv, [Next]_vars
  PROVE  (txpc = "park" \/ chan = "waitTx" \/ rxpc \in Taking => chBuf = Own(sent))'
<1>1. TypeOK /\ Protocol
  BY DEF IInv, WInv
<1>2. txpc = "park" \/ chan = "waitTx" \/ rxpc \in Taking => chBuf = Own(sent)
  BY DEF IInv, TxData
<1> USE DEF Protocol, Delivering, Taking, chanVars, txVars, rxVars, TxGoto, RxGoto
<1>3. CASE TxOffer
  BY <1>1, <1>3 DEF TxOffer, Own
<1>4. CASE \/ Fill \/ FlushMsg \/ TxPark \/ TxClaim \/ TxCopy \/ TxFlushCopy \/ Post \/ FlushPost
           \/ TxRelease \/ TxResume
  <2>1. chBuf' = chBuf /\ (sent' = sent \/ Fill)
    BY <1>4 DEF Fill, FlushMsg, TxPark, TxClaim, TxCopy, TxFlushCopy, Post, FlushPost, TxRelease,
                TxResume
  <2>2. (txpc = "park" \/ chan = "waitTx" \/ rxpc \in Taking)'
          => ~Fill /\ (txpc = "park" \/ chan = "waitTx" \/ rxpc \in Taking)
    BY <1>1, <1>4 DEF Fill, FlushMsg, TxPark, TxClaim, TxCopy, TxFlushCopy, Post, FlushPost,
                      TxRelease, TxResume
  <2>3. QED
    BY <1>2, <2>1, <2>2 DEF Own
<1>5. CASE RxNext
  <2>1. chBuf' = chBuf /\ sent' = sent
    BY <1>5 DEF RxNext, RxClaim, Clear, FlushClear, RxPark, Settle, RxResume, Look, DropMsg,
                Tidy, FlushTidy, RxTake, RxFetch, RxCopy, RxFlushCopy, RxRelease, Use
  <2>2. (txpc = "park" \/ chan = "waitTx" \/ rxpc \in Taking)'
          => txpc = "park" \/ chan = "waitTx" \/ rxpc \in Taking
    BY <1>1, <1>5 DEF RxNext, RxClaim, Clear, FlushClear, RxPark, Settle, RxResume, Look, DropMsg,
                Tidy, FlushTidy, RxTake, RxFetch, RxCopy, RxFlushCopy, RxRelease, Use
  <2>3. QED
    BY <1>2, <2>1, <2>2 DEF Own
<1>6. CASE Displace \/ UNCHANGED vars
  BY <1>2, <1>6 DEF Displace, DisplaceL1, DisplaceL2, vars, Own
<1>7. QED
  BY <1>3, <1>4, <1>5, <1>6 DEF Next, TxNext

\* The sender's copy of it in the storage, before it is flushed.
LEMMA TxCopyFresh ==
  ASSUME IInv, ~TwoShires, [Next]_vars, txpc' = "flushcopy"
  PROVE  (txBuf = Stored(turn) /\ Fresh("tx", txBuf, sent))'
<1>1. WInv /\ TxData /\ L2Clean
  BY DEF IInv
<1>2. PICK t \in Line, v \in {sent} : t = Stored(turn) /\ v = sent /\ t # Box /\ t # Own(sent)
  BY <1>1, Kinds, Lines DEF Box, Stored
<1>3. CASE TxCopy
  <2>1. txpc = "copy" /\ CopyToStorage("tx", Own(sent)) /\ txBuf' = t /\ UNCHANGED <<sent, turn>>
    BY <1>2, <1>3 DEF TxCopy, TxGoto, chanVars
  <2>2. Value("tx", Own(sent)) = v
    BY <1>1, <1>2, <2>1, Reads, Kinds DEF TxData, TxBusy
  <2>3. Copied("tx", Own(sent))
    BY <1>1, <2>1, Kinds, CopyEffect
  <2>4. l1'["tx"][t] = Dirty(v)
    BY <1>1, <1>2, <2>2, <2>3, Kinds DEF Copied
  <2>5. Fresh("tx", t, v)'
    BY <2>4 DEF Fresh, Dirty
  <2>6. QED
    BY <1>2, <2>1, <2>5 DEF Fresh, Stored
<1>4. CASE ~TxCopy
  <2>1. ~TxNext
    BY <1>4 DEF TxNext, Fill, FlushMsg, TxOffer, TxPark, TxClaim, TxFlushCopy, Post, FlushPost,
                TxRelease, TxResume, TxGoto
  <2>2. RxNext \/ Displace \/ UNCHANGED vars
    BY <2>1 DEF Next
  <2>3. txpc = "flushcopy" /\ sent' = sent /\ txBuf' = txBuf
    BY <2>2, RxLeaves
  <2>4. rxpc \in {"settle", "parked"}
    BY <1>1, <2>3, Kinds DEF Protocol, Delivering
  <2>5. ~RxCopy /\ turn' = turn
    BY <2>2, <2>4 DEF RxNext, RxClaim, Clear, FlushClear, RxPark, Settle, RxResume, Look, DropMsg,
         Tidy, FlushTidy, RxTake, RxFetch, RxCopy, RxFlushCopy, RxRelease, Use, RxGoto, Displace,
         DisplaceL1, DisplaceL2, vars, chanVars
  <2>6. txBuf = t /\ Fresh("tx", t, v)
    BY <1>1, <1>2, <2>3 DEF TxData
  <2>7. Hart \ {"tx"} = {"rx"} /\ \A g \in Hart : Writes(g, t) => g = "tx"
    BY <1>2, <2>4 DEF Hart, Writes
  <2>8. Calm(Hart \ {"tx"}, t)
    BY <1>1, <1>2, <2>2, <2>5, <2>7, RxCalm, OtherCalm
  <2>9. Fresh("tx", t, v)'
    BY <1>1, <2>6, <2>7, <2>8, FreshKept, Kinds
  <2>10. QED
    BY <1>2, <2>3, <2>5, <2>6, <2>9 DEF Fresh, Stored
<1>5. QED
  BY <1>3, <1>4

\* What the sender is about to publish is in memory.
LEMMA OfferSettled ==
  ASSUME IInv, [Next]_vars, txpc' \in {"post", "flushpost", "release"}
  PROVE  (txBuf \in BufOf(sent) /\ Settled(txBuf, sent))'
<1>1. WInv /\ TxData
  BY DEF IInv
<1>2. CASE TxClaim
  <2>1. (Settled(Own(sent), sent) /\ Sees("tx", Own(sent), sent))'
    BY MessageSettled DEF TxBusy
  <2>2. txBuf' = Own(sent) /\ sent' = sent
    BY <1>2 DEF TxClaim
  <2>3. QED
    BY <2>1, <2>2 DEF Settled, BufOf, Own
<1>3. CASE TxFlushCopy
  <2>1. PICK t \in Line, v \in {sent} : t = Stored(turn) /\ v = sent
    BY <1>1, Kinds
  <2>2. txpc = "flushcopy" /\ Flush("tx", t) /\ UNCHANGED <<sent, txBuf>>
    BY <1>3, <2>1 DEF TxFlushCopy, FlushStorage, TxGoto
  <2>3. txBuf = t /\ Fresh("tx", t, v)
    BY <1>1, <2>1, <2>2 DEF TxData
  <2>4. \A g \in Hart : Writes(g, t) => g = "tx"
    BY <1>1, <2>1, <2>2, Kinds, Apart2 DEF Writes, Hart
  <2>5. Settled(t, v)'
    BY <1>1, <2>2, <2>3, <2>4, FlushSettles, FlushEffect, Kinds
  <2>6. t \in BufOf(v)
    BY <1>1, <2>1, Kinds DEF BufOf
  <2>7. QED
    BY <2>1, <2>2, <2>3, <2>5, <2>6 DEF Settled, BufOf, Own
<1>4. CASE ~TxClaim /\ ~TxFlushCopy
  <2>1. txpc \in {"post", "flushpost", "release"} /\ UNCHANGED <<sent, txBuf>>
    <3>1. CASE TxNext
      BY <1>4, <3>1 DEF TxNext, Fill, FlushMsg, TxOffer, TxPark, TxCopy, Post, FlushPost,
                        TxRelease, TxResume, TxGoto
    <3>2. CASE RxNext \/ Displace \/ UNCHANGED vars
      BY <3>2, RxLeaves
    <3>3. QED
      BY <3>1, <3>2 DEF Next
  <2>2. PICK x \in BufOf(sent), v \in {sent} : x = txBuf /\ v = sent
    BY <1>1, <2>1 DEF TxData
  <2>3. x \in Line /\ Settled(x, v)
    BY <1>1, <2>1, <2>2, Bufs, Kinds DEF TxData
  <2>4. Settled(x, v)'
    BY <1>1, <2>1, <2>2, <2>3, OfferCalm, SettledKept, Kinds
  <2>5. QED
    BY <2>1, <2>2, <2>4 DEF Settled, BufOf, Own
<1>5. QED
  BY <1>2, <1>3, <1>4

\* A published mailbox holds it.
LEMMA PublishStep ==
  ASSUME IInv, [Next]_vars, txpc' = "release"
  PROVE  (mem[Box] = txBuf)'
<1>1. WInv /\ TxData
  BY DEF IInv
<1>2. CASE FlushPost
  <2>1. Flush("tx", Box) /\ txpc = "flushpost" /\ txBuf' = txBuf
    BY <1>2 DEF FlushPost, TxGoto
  <2>2. Fresh("tx", Box, txBuf)
    BY <1>1, <2>1 DEF WInv, BoxOK
  <2>3. mem'[Box] = txBuf
    BY <1>1, <2>1, <2>2, FlushEffect, FlushFresh, Kinds
  <2>4. QED
    BY <2>1, <2>3 DEF Box
<1>3. CASE ~FlushPost
  <2>1. txpc = "release" /\ txBuf' = txBuf
    <3>1. CASE TxNext
      BY <1>3, <3>1 DEF TxNext, Fill, FlushMsg, TxOffer, TxPark, TxClaim, TxCopy, TxFlushCopy, Post,
                        TxRelease, TxResume, TxGoto
    <3>2. CASE RxNext \/ Displace \/ UNCHANGED vars
      BY <3>2, RxLeaves
    <3>3. QED
      BY <3>1, <3>2 DEF Next
  <2>2. mem'[Box] = mem[Box] /\ mem[Box] = txBuf
    BY <1>1, <2>1, PostedStays DEF Posted, TxData
  <2>3. QED
    BY <2>1, <2>2 DEF Box
<1>4. QED
  BY <1>2, <1>3

LEMMA TxDataStep == ASSUME IInv, ~TwoShires, [Next]_vars PROVE TxData'
  BY MessageFresh, MessageSettled, OfferStep, TxCopyFresh, OfferSettled, PublishStep DEF TxData

-----------------------------------------------------------------------------
(***************************************************************************)
(* What the receiver is given.                                             *)
(***************************************************************************)
\* A sender that is parked for the receiver, or one whose message is being
\* published, has the only message that is not received yet.
LEMMA OneMessage ==
  ASSUME IInv, rxpc \in Taking \/ txpc \in Delivering
  PROVE  sent = Len(seen) + 1 /\ TxBusy /\ ~RxHas
<1>1. seen \in Seq(Nat) /\ Len(seen) \in Nat /\ Counts
  BY DEF IInv, WInv, TypeOK
<1>2. TxBusy /\ ~RxHas
  BY Kinds DEF IInv, Protocol, Taking, Delivering, TxBusy, RxHas
<1>3. QED
  BY <1>1, <1>2, CountsIs

LEMMA SeenType == IInv => seen \in Seq(Nat) /\ Len(seen) \in Nat /\ Len(seen) + 1 \in Nat
  BY DEF IInv, WInv, TypeOK

\* What is in the mailbox of a woken receiver is its message, in memory,
LEMMA PostData ==
  ASSUME IInv, [Next]_vars, ("rx" \in rung \/ rxpc = "look")'
  PROVE  (mem[Box] \in BufOf(Len(seen) + 1) /\ Settled(mem[Box], Len(seen) + 1))'
<1>1. WInv /\ TxData /\ RxData /\ Counts
  BY DEF IInv
<1>2. PICK n \in Nat : n = Len(seen) + 1
  BY SeenType
<1>3. CASE TxRelease
  <2>1. txpc = "release" /\ UNCHANGED <<cacheVars, seen, turn>>
    BY <1>3 DEF TxRelease, TxGoto, rxVars
  <2>2. sent = n
    BY <1>2, <2>1, OneMessage DEF Delivering
  <2>3. mem[Box] \in BufOf(n) /\ Settled(mem[Box], n)
    BY <1>1, <2>1, <2>2 DEF TxData
  <2>4. QED
    BY <1>2, <2>1, <2>3 DEF Settled, BufOf, Box, cacheVars
<1>4. CASE ~TxRelease
  <2>1. ("rx" \in rung \/ rxpc = "look") /\ seen' = seen
    <3>1. CASE RxNext
      BY <1>1, <3>1, Kinds DEF RxNext, RxClaim, Clear, FlushClear, RxPark, Settle, RxResume, Look,
         DropMsg, Tidy, FlushTidy, RxTake, RxFetch, RxCopy, RxFlushCopy, RxRelease, Use, RxGoto,
         Protocol
    <3>2. CASE TxNext \/ Displace \/ UNCHANGED vars
      BY <1>4, <3>2, TxLeaves
    <3>3. QED
      BY <3>1, <3>2 DEF Next
  <2>2. PICK x \in BufOf(n) : x = mem[Box]
    BY <1>1, <1>2, <2>1 DEF RxData
  <2>3. x \in Line /\ Settled(x, n) /\ Calm(Hart, x)
    BY <1>1, <1>2, <2>1, <2>2, Bufs, SeenType, HeldCalm DEF RxData, RxHas
  <2>4. Settled(x, n)'
    BY <1>1, <2>3, SettledKept, Kinds
  <2>5. mem'[Box] = x
    BY <1>1, <2>1, <2>2, PostedStays DEF Posted
  <2>6. QED
    BY <1>2, <2>1, <2>2, <2>4, <2>5 DEF Settled, BufOf, Box
<1>5. QED
  BY <1>3, <1>4

\* and no old copy of the mailbox hides it.
LEMMA BoxDropped ==
  ASSUME IInv, EvictDest = "L2", [Next]_vars, rxpc' = "look"
  PROVE  ~l1'["rx"][Box].here
<1>1. WInv /\ RxData
  BY DEF IInv
<1>2. CASE RxResume
  <2>1. rxpc = "parked" /\ Evict("rx", Box)
    BY <1>2 DEF RxResume, RxGoto
  <2>2. Evicted("rx", Box)
    BY <1>1, <2>1, RxClean, EvictEffect, Kinds
  <2>3. QED
    BY <2>2 DEF Evicted, NoCopy
<1>3. CASE ~RxResume
  <2>1. ~RxNext
    BY <1>3 DEF RxNext, RxClaim, Clear, FlushClear, RxPark, Settle, Look, DropMsg, Tidy,
                FlushTidy, RxTake, RxFetch, RxCopy, RxFlushCopy, RxRelease, Use, RxGoto
  <2>2. TxNext \/ Displace \/ UNCHANGED vars
    BY <2>1 DEF Next
  <2>3. rxpc = "look" /\ ~l1["rx"][Box].here
    BY <1>1, <2>2, TxLeaves DEF RxData
  <2>4. ~Post /\ Stored(turn) # Box /\ Own(sent + 1) # Box
    BY <1>1, <2>3, Kinds, Lines DEF Post, TxGoto, Protocol, Delivering, Box, Stored
  <2>5. Hart \ {"rx"} = {"tx"}
    BY DEF Hart
  <2>6. Calm(Hart \ {"rx"}, Box)
    BY <1>1, <2>2, <2>4, <2>5, TxCalm, OtherCalm, Kinds
  <2>7. QED
    BY <1>1, <2>3, <2>6, AbsentKept, Kinds
<1>4. QED
  BY <1>2, <1>3

\* No old copy hides the message that the receiver takes from the sender,
LEMMA TakenSeen ==
  ASSUME IInv, EvictDest = "L2", [Next]_vars, rxpc' = "copy"
  PROVE  Sees("rx", chBuf, Len(seen) + 1)'
<1>1. WInv /\ TxData /\ RxData /\ L2Clean
  BY DEF IInv
<1>2. PICK x \in Line, n \in {Len(seen) + 1} : x = chBuf /\ n = Len(seen) + 1
  BY <1>1, Kinds
<1>3. CASE RxFetch
  <2>1. rxpc = "fetch" /\ Evict("rx", x) /\ UNCHANGED <<chBuf, seen>>
    BY <1>2, <1>3 DEF RxFetch, RxGoto, chanVars
  <2>2. Evicted("rx", x)
    BY <1>1, <2>1, RxClean, EvictEffect, Kinds
  <2>3. Sees("rx", x, n)'
    BY <2>2 DEF Evicted, NoCopy, Sees
  <2>4. QED
    BY <1>2, <2>1, <2>3 DEF Sees
<1>4. CASE ~RxFetch
  <2>1. ~RxNext
    BY <1>4 DEF RxNext, RxClaim, Clear, FlushClear, RxPark, Settle, RxResume, Look, DropMsg, Tidy,
                FlushTidy, RxTake, RxCopy, RxFlushCopy, RxRelease, Use, RxGoto
  <2>2. TxNext \/ Displace \/ UNCHANGED vars
    BY <2>1 DEF Next
  <2>3. rxpc = "copy" /\ seen' = seen
    BY <2>2, TxLeaves
  <2>4. sent = n /\ TxBusy /\ txpc # "flush" /\ ~TxNext
    BY <1>1, <1>2, <2>3, OneMessage, Kinds
       DEF Protocol, Taking, TxNext, Fill, FlushMsg, TxOffer, TxPark, TxClaim, TxCopy, TxFlushCopy,
           Post, FlushPost, TxRelease, TxResume, TxGoto
  <2>5. x = Own(sent) /\ Settled(x, n) /\ Sees("rx", x, n)
    BY <1>1, <1>2, <2>3, <2>4 DEF TxData, RxData, Taking
  <2>6. Sees("rx", x, n)'
    BY <1>1, <2>5, OwnCalm, SeesKept, Kinds
  <2>7. chBuf' = chBuf
    BY <2>2, <2>4 DEF Displace, DisplaceL1, DisplaceL2, vars, chanVars
  <2>8. QED
    BY <1>2, <2>3, <2>6, <2>7 DEF Sees
<1>5. QED
  BY <1>3, <1>4

\* so that this is what it copies to the storage.
LEMMA RxCopyFresh ==
  ASSUME IInv, ~TwoShires, [Next]_vars, rxpc' = "flushcopy"
  PROVE  (rxBuf = Stored(turn) /\ Fresh("rx", rxBuf, Len(seen) + 1))'
<1>1. WInv /\ TxData /\ RxData /\ L2Clean
  BY DEF IInv
<1>2. PICK t \in Line, n \in {Len(seen) + 1} : t = Stored(turn) /\ n = Len(seen) + 1
  BY <1>1, Kinds
<1>3. CASE RxCopy
  <2>1. rxpc = "copy" /\ CopyToStorage("rx", chBuf) /\ rxBuf' = t /\ UNCHANGED <<turn, seen>>
    BY <1>2, <1>3 DEF RxCopy, RxGoto, chanVars
  <2>2. sent = n /\ TxBusy /\ txpc # "flush"
    BY <1>1, <1>2, <2>1, OneMessage, Kinds DEF Protocol, Taking
  <2>3. Settled(chBuf, n) /\ Sees("rx", chBuf, n)
    BY <1>1, <1>2, <2>1, <2>2 DEF TxData, RxData, Taking
  <2>4. Value("rx", chBuf) = n
    BY <1>1, <2>3, Reads, Kinds
  <2>5. Copied("rx", chBuf)
    BY <1>1, <2>1, Kinds, CopyEffect
  <2>6. l1'["rx"][t] = Dirty(n)
    BY <1>1, <1>2, <2>4, <2>5, Kinds DEF Copied
  <2>7. Fresh("rx", t, n)'
    BY <2>6 DEF Fresh, Dirty
  <2>8. QED
    BY <1>2, <2>1, <2>7 DEF Fresh, Stored
<1>4. CASE ~RxCopy
  <2>1. ~RxNext
    BY <1>4 DEF RxNext, RxClaim, Clear, FlushClear, RxPark, Settle, RxResume, Look, DropMsg, Tidy,
                FlushTidy, RxTake, RxFetch, RxFlushCopy, RxRelease, Use, RxGoto
  <2>2. TxNext \/ Displace \/ UNCHANGED vars
    BY <2>1 DEF Next
  <2>3. rxpc = "flushcopy" /\ seen' = seen /\ rxBuf' = rxBuf
    BY <2>2, TxLeaves
  <2>4. txpc = "parked" /\ ~TxNext
    BY <1>1, <2>3, Kinds
       DEF Protocol, Taking, TxNext, Fill, FlushMsg, TxOffer, TxPark, TxClaim, TxCopy, TxFlushCopy,
           Post, FlushPost, TxRelease, TxResume, TxGoto
  <2>5. turn' = turn
    BY <2>2, <2>4 DEF Displace, DisplaceL1, DisplaceL2, vars, chanVars
  <2>6. rxBuf = t /\ Fresh("rx", t, n)
    BY <1>1, <1>2, <2>3 DEF RxData
  <2>7. \A g \in Hart : Writes(g, t) => g = "rx"
    BY <2>4 DEF Hart, Writes
  <2>8. Calm(Hart \ {"rx"}, t)
    BY <2>2, <2>4, OtherCalm
  <2>9. Fresh("rx", t, n)'
    BY <1>1, <2>6, <2>7, <2>8, FreshKept, Kinds
  <2>10. QED
    BY <1>2, <2>3, <2>5, <2>6, <2>9 DEF Fresh, Stored
<1>5. QED
  BY <1>3, <1>4

\* What the receiver has been given is its message, in memory,
LEMMA HeldStep ==
  ASSUME IInv, ~TwoShires, [Next]_vars,
         rxpc' \in {"drop", "tidy", "flushtidy", "release", "use"}
  PROVE  (rxBuf \in BufOf(Len(seen) + 1) /\ Settled(rxBuf, Len(seen) + 1))'
<1>1. WInv /\ TxData /\ RxData /\ Counts /\ L2Clean
  BY DEF IInv
<1>2. PICK n \in Nat : n = Len(seen) + 1
  BY SeenType
<1>3. CASE Look
  <2>1. rxpc = "look" /\ rxBuf' = Value("rx", Box) /\ seen' = seen
    BY <1>3 DEF Look, RxGoto
  <2>2. PICK x \in BufOf(n) : x = mem[Box]
    BY <1>1, <1>2, <2>1 DEF RxData
  <2>3. x \in Line /\ Settled(x, n) /\ Calm(Hart, x) /\ ~l1["rx"][Box].here
    BY <1>1, <1>2, <2>1, <2>2, Bufs, HeldCalm DEF RxData, RxHas
  <2>4. Settled(Box, x)
    BY <1>1, <2>1, <2>2, PostedStays DEF Posted
  <2>5. Value("rx", Box) = x
    BY <1>1, <2>3, <2>4, Reads, Kinds DEF Sees
  <2>6. Settled(x, n)'
    BY <1>1, <2>3, SettledKept, Kinds
  <2>7. QED
    BY <1>2, <2>1, <2>5, <2>6 DEF Settled, BufOf
<1>4. CASE RxFetch
  <2>1. rxpc = "fetch" /\ rxBuf' = chBuf /\ seen' = seen
    BY <1>4 DEF RxFetch, RxGoto
  <2>2. sent = n /\ TxBusy /\ txpc # "flush"
    BY <1>1, <1>2, <2>1, OneMessage, Kinds DEF Protocol, Taking
  <2>3. PICK x \in Line : x = Own(sent)
    BY <1>1, Kinds
  <2>4. x = chBuf /\ Settled(x, n) /\ Calm(Hart, x)
    BY <1>1, <2>1, <2>2, <2>3, OwnCalm DEF TxData, Taking
  <2>5. Settled(x, n)'
    BY <1>1, <2>4, SettledKept, Kinds
  <2>6. x \in BufOf(n)
    BY <2>2, <2>3 DEF BufOf
  <2>7. QED
    BY <1>2, <2>1, <2>4, <2>5, <2>6 DEF Settled, BufOf
<1>5. CASE RxFlushCopy
  <2>1. PICK t \in Line : t = Stored(turn)
    BY <1>1, Kinds
  <2>2. rxpc = "flushcopy" /\ Flush("rx", t) /\ UNCHANGED <<rxBuf, seen>>
    BY <1>5, <2>1 DEF RxFlushCopy, FlushStorage, RxGoto
  <2>3. rxBuf = t /\ Fresh("rx", t, n)
    BY <1>1, <1>2, <2>1, <2>2 DEF RxData
  <2>4. \A g \in Hart : Writes(g, t) => g = "rx"
    BY <1>1, <2>1, <2>2, Kinds, Apart2 DEF Writes, Hart
  <2>5. Settled(t, n)'
    BY <1>1, <2>2, <2>3, <2>4, FlushSettles, FlushEffect, Kinds
  <2>6. t \in BufOf(n)
    BY <1>1, <2>1, Kinds DEF BufOf
  <2>7. QED
    BY <1>2, <2>2, <2>3, <2>5, <2>6 DEF Settled, BufOf
<1>6. CASE ~Look /\ ~RxFetch /\ ~RxFlushCopy
  <2>1. /\ rxpc \in {"drop", "tidy", "flushtidy", "release", "use"}
        /\ UNCHANGED <<rxBuf, seen>>
    <3>1. CASE RxNext
      BY <1>6, <3>1 DEF RxNext, RxClaim, Clear, FlushClear, RxPark, Settle, RxResume, DropMsg, Tidy,
                        FlushTidy, RxTake, RxCopy, RxRelease, Use, RxGoto
    <3>2. CASE TxNext \/ Displace \/ UNCHANGED vars
      BY <3>2, TxLeaves
    <3>3. QED
      BY <3>1, <3>2 DEF Next
  <2>2. PICK x \in BufOf(n) : x = rxBuf
    BY <1>1, <1>2, <2>1 DEF RxData
  <2>3. x \in Line /\ Settled(x, n) /\ Calm(Hart, x)
    BY <1>1, <1>2, <2>1, <2>2, Bufs, HeldCalm DEF RxData, RxHas
  <2>4. Settled(x, n)'
    BY <1>1, <2>3, SettledKept, Kinds
  <2>5. QED
    BY <1>2, <2>1, <2>2, <2>4 DEF Settled, BufOf
<1>7. QED
  BY <1>3, <1>4, <1>5, <1>6

\* and from the eviction on no old copy hides it.
LEMMA SeenStep ==
  ASSUME IInv, ~TwoShires, EvictDest = "L2", [Next]_vars,
         rxpc' \in {"tidy", "flushtidy", "release", "use"}
  PROVE  Sees("rx", rxBuf, Len(seen) + 1)'
<1>1. WInv /\ TxData /\ RxData /\ Counts /\ L2Clean
  BY DEF IInv
<1>2. PICK n \in Nat : n = Len(seen) + 1
  BY SeenType
<1>3. ~Look
  <2>1. ASSUME Look PROVE FALSE
    <3>1. rxpc = "look" /\ rxBuf' = Value("rx", Box) /\ Value("rx", Box) = 0
      BY <2>1 DEF Look, RxGoto
    <3>2. rxBuf' \in BufOf(n)
      <4>1. rxBuf' \in BufOf(Len(seen) + 1)' /\ seen' = seen
        BY <2>1, HeldStep DEF Look
      <4>2. QED
        BY <1>2, <4>1 DEF BufOf
    <3>3. QED
      BY <3>1, <3>2, Bufs DEF Box
  <2>2. QED
    BY <2>1
<1>4. CASE DropMsg \/ RxFetch
  <2>1. PICK x \in Line : x = rxBuf'
    BY <1>1, <1>4, Kinds DEF DropMsg, RxFetch
  <2>2. rxpc \in {"drop", "fetch"} /\ Evict("rx", x) /\ seen' = seen
    BY <1>4, <2>1 DEF DropMsg, RxFetch, RxGoto
  <2>3. Evicted("rx", x)
    BY <1>1, <2>2, RxClean, EvictEffect, Kinds
  <2>4. Sees("rx", x, n)'
    BY <2>3 DEF Evicted, NoCopy, Sees
  <2>5. QED
    BY <1>2, <2>1, <2>2, <2>4 DEF Sees
<1>5. CASE RxFlushCopy
  <2>1. PICK t \in Line : t = Stored(turn)
    BY <1>1, Kinds
  <2>2. rxpc = "flushcopy" /\ Flush("rx", t) /\ UNCHANGED <<rxBuf, seen>>
    BY <1>5, <2>1 DEF RxFlushCopy, FlushStorage, RxGoto
  <2>3. rxBuf = t /\ Fresh("rx", t, n)
    BY <1>1, <1>2, <2>1, <2>2 DEF RxData
  <2>4. \A g \in Hart : Writes(g, t) => g = "rx"
    BY <1>1, <2>1, <2>2, Kinds, Apart2 DEF Writes, Hart
  <2>5. Sees("rx", t, n)'
    BY <1>1, <2>2, <2>3, <2>4, FlushSettles, FlushEffect, Kinds
  <2>6. QED
    BY <1>2, <2>2, <2>3, <2>5 DEF Sees
<1>6. CASE ~DropMsg /\ ~RxFetch /\ ~RxFlushCopy
  <2>1. /\ rxpc \in {"tidy", "flushtidy", "release", "use"}
        /\ UNCHANGED <<rxBuf, seen>>
    <3>1. CASE RxNext
      BY <1>3, <1>6, <3>1 DEF RxNext, RxClaim, Clear, FlushClear, RxPark, Settle, RxResume, Tidy,
                        FlushTidy, RxTake, RxCopy, RxRelease, Use, RxGoto
    <3>2. CASE TxNext \/ Displace \/ UNCHANGED vars
      BY <3>2, TxLeaves
    <3>3. QED
      BY <3>1, <3>2 DEF Next
  <2>2. PICK x \in BufOf(n) : x = rxBuf
    BY <1>1, <1>2, <2>1 DEF RxData
  <2>3. x \in Line /\ Settled(x, n) /\ Sees("rx", x, n) /\ Calm(Hart, x)
    BY <1>1, <1>2, <2>1, <2>2, Bufs, HeldCalm DEF RxData, RxHas
  <2>4. Sees("rx", x, n)'
    BY <1>1, <2>3, SeesKept, Kinds
  <2>5. QED
    BY <1>2, <2>1, <2>2, <2>4 DEF Sees
<1>7. QED
  BY <1>4, <1>5, <1>6

LEMMA RxDataStep == ASSUME IInv, ~TwoShires, EvictDest = "L2", [Next]_vars PROVE RxData'
  BY PostData, BoxDropped, TakenSeen, RxCopyFresh, HeldStep, SeenStep DEF RxData

\* The program reads the next message.
LEMMA ReceivedStep == ASSUME IInv, [Next]_vars PROVE Received'
<1>1. WInv /\ RxData /\ L2Clean /\ Received
  BY DEF IInv
<1>2. PICK n \in Nat : n = Len(seen) + 1
  BY SeenType
<1>3. CASE Use
  <2>1. rxBuf \in BufOf(n) /\ Settled(rxBuf, n) /\ Sees("rx", rxBuf, n)
    BY <1>1, <1>2, <1>3 DEF Use, RxGoto, RxData
  <2>2. rxBuf # 0 /\ Value("rx", rxBuf) = n
    BY <1>1, <2>1, Bufs, Reads, Kinds DEF Box
  <2>3. seen' = Append(seen, n)
    BY <1>3, <2>2 DEF Use
  <2>4. QED
    BY <1>1, <1>2, <2>3, SeenType DEF Received, IInv
<1>4. CASE ~Use
  <2>1. seen' = seen
    <3>1. CASE RxNext
      BY <1>4, <3>1 DEF RxNext, RxClaim, Clear, FlushClear, RxPark, Settle, RxResume, Look, DropMsg,
                        Tidy, FlushTidy, RxTake, RxFetch, RxCopy, RxFlushCopy, RxRelease
    <3>2. CASE TxNext \/ Displace \/ UNCHANGED vars
      BY <3>2, TxLeaves
    <3>3. QED
      BY <3>1, <3>2 DEF Next
  <2>2. QED
    BY <1>1, <2>1 DEF Received
<1>5. QED
  BY <1>3, <1>4

LEMMA InitI == Init => IInv
<1> SUFFICES ASSUME Init PROVE IInv
  OBVIOUS
<1>1. WInv
  BY InitW
<1>2. L2Clean
  BY DEF Init, L2Clean, NoCopy
<1>3. Counts /\ Received
  BY DEF Init, Counts, One, TxBusy, RxHas, Received
<1>4. TxData /\ RxData
  BY DEF Init, TxData, RxData, TxBusy, Taking
<1>5. QED
  BY <1>1, <1>2, <1>3, <1>4 DEF IInv

\* Where tpa_hal_evict drops the L1 copy and both harts share an L2, each
\* message is, at every moment, where the flushes done so far have brought it,
\* and no copy its reader still has can hide it.
THEOREM Inductive == ASSUME EvictDest = "L2", ~TwoShires PROVE Spec => []IInv
<1>1. IInv /\ [Next]_vars => IInv'
  <2> SUFFICES ASSUME IInv, [Next]_vars PROVE IInv'
    OBVIOUS
  <2>1. WInv /\ L2Clean /\ Counts
    BY DEF IInv
  <2>2. WInv' /\ L2Clean' /\ Counts'
    BY <2>1, StepW, L2CleanStep, CountsStep
  <2>3. QED
    BY <2>2, TxDataStep, RxDataStep, ReceivedStep DEF IInv
<1>2. QED
  BY <1>1, InitI, PTL DEF Spec

\* The n-th receive gives its program a pointer, not null, and behind it the
\* n-th message, whatever the caches displaced on the way.
THEOREM ReceivedHolds == ASSUME EvictDest = "L2", ~TwoShires PROVE Spec => []Received
<1>1. IInv => Received
  BY DEF IInv
<1>2. QED
  BY <1>1, Inductive, PTL
=============================================================================
