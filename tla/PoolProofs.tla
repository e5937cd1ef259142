----------------------------- MODULE PoolProofs -----------------------------
(***************************************************************************)
(* Proofs about the slots of the governor (Pool.tla), for any finite set of *)
(* workers and any budgets.                                                *)
(***************************************************************************)
EXTENDS Progress, FiniteSetTheorems, TLAPS

(* A set of natural numbers that is not empty has a least member. *)
LEMMA Least ==
  ASSUME NEW S \in SUBSET Nat, S # {}
  PROVE  \E x \in S : \A y \in S : x <= y
<1> DEFINE below == {ss \in Nat \X Nat : ss[1] < ss[2]}
<1>1. IsWellFoundedOn(below, Nat)
  BY NatLessThanWellFounded, Zenon DEF OpToRel
<1>2. PICK x \in S : \A y \in S : ~ (<<y, x>> \in below)
  <2> HIDE DEF below
  <2> QED BY <1>1, WFMin, Zenon
<1>3. \A y \in S : ~ (y < x)
  BY <1>2, Zenon
<1> QED BY <1>3

(* What counts a set in Pool. *)
LEMMA Counting == \A S : G!Cardinality(S) = Cardinality(S)
BY Zenon DEF G!Cardinality, Cardinality

LEMMA Counted ==
  ASSUME NEW S \in SUBSET G!Workers
  PROVE  /\ IsFiniteSet(S) /\ G!Cardinality(S) \in Nat
         /\ \A T \in SUBSET S : G!Cardinality(T) <= G!Cardinality(S)
         /\ \A w \in G!Workers : w \notin S => G!Cardinality(S \cup {w}) = G!Cardinality(S) + 1
         /\ G!Cardinality(S) = G!Cardinality(S \cap Critical) + G!Cardinality(S \cap Bulk)
<1>1. IsFiniteSet(G!Workers)
  BY ProgressAssumption, FS_Union, Zenon DEF G!Workers
<1>2. IsFiniteSet(S)
  BY <1>1, FS_Subset, Zenon
<1>3. G!Cardinality(S) \in Nat
  BY <1>2, Counting, FS_CardinalityType, Zenon
<1>4. \A T \in SUBSET S : G!Cardinality(T) <= G!Cardinality(S)
  BY <1>2, Counting, FS_Subset, Zenon
<1>5. \A w \in G!Workers : w \notin S => G!Cardinality(S \cup {w}) = G!Cardinality(S) + 1
  BY <1>2, Counting, FS_AddElement, Zenon
<1>6. G!Cardinality(S) = G!Cardinality(S \cap Critical) + G!Cardinality(S \cap Bulk)
  <2>1. IsFiniteSet(S \cap Critical) /\ IsFiniteSet(S \cap Bulk)
    BY <1>2, FS_Subset, Zenon
  <2>2. S = (S \cap Critical) \cup (S \cap Bulk) /\ (S \cap Critical) \cap (S \cap Bulk) = {}
    BY ProgressAssumption, Zenon DEF G!Workers
  <2>3. Cardinality(S) = Cardinality(S \cap Critical) + Cardinality(S \cap Bulk) - Cardinality({})
    BY <2>1, <2>2, FS_Union
  <2> HIDE DEF G!Cardinality
  <2> QED BY <2>1, <2>3, Counting, FS_EmptySet, FS_CardinalityType
<1> QED BY <1>2, <1>3, <1>4, <1>5, <1>6, Zenon

(* A queue nobody is in twice. *)
Queued(s) == s \in Seq(G!Workers) /\ \A i, j \in 1 .. Len(s) : s[i] = s[j] => i = j

In(s) == {s[i] : i \in 1 .. Len(s)}

LEMMA RangeIs == ASSUME NEW s \in Seq(G!Workers) PROVE G!Range(s) = In(s)
BY DEF G!Range, In

LEMMA RemoveTakes ==
  ASSUME NEW s, Queued(s), NEW w \in In(s)
  PROVE  Queued(G!remove(s, w)) /\ In(G!remove(s, w)) = In(s) \ {w}
<1> USE DEF Queued
<1> DEFINE at == CHOOSE i \in DOMAIN s : s[i] = w
           r == [i \in 1 .. (Len(s) - 1) |-> IF i < at THEN s[i] ELSE s[i + 1]]
<1>1. at \in 1 .. Len(s) /\ s[at] = w
  BY DEF In
<1>2. G!remove(s, w) = r
  BY Zenon DEF G!remove
<1> HIDE DEF at
<1>3. r \in Seq(G!Workers) /\ Len(r) = Len(s) - 1
  BY <1>1
<1>4. \A i \in 1 .. Len(r) : r[i] = IF i < at THEN s[i] ELSE s[i + 1]
  BY <1>3, Zenon
<1> HIDE DEF r
<1>5. \A i \in 1 .. Len(r) : r[i] \in In(s) \ {w}
  BY <1>1, <1>3, <1>4 DEF In
<1>6. \A v \in In(s) \ {w} : v \in In(r)
  <2> TAKE v \in In(s) \ {w}
  <2>1. PICK j \in 1 .. Len(s) : s[j] = v
    BY Zenon DEF In
  <2>2. j # at
    BY <1>1, <2>1, Zenon
  <2>3. CASE j < at
    BY <1>1, <1>3, <1>4, <2>1, <2>3 DEF In
  <2>4. CASE j > at
    <3>1. j - 1 \in 1 .. Len(r) /\ r[j - 1] = s[j]
      BY <1>1, <1>3, <1>4, <2>1, <2>4
    <3> QED BY <2>1, <3>1, Zenon DEF In
  <2> QED BY <1>1, <2>2, <2>3, <2>4
<1>7. \A i, j \in 1 .. Len(r) : r[i] = r[j] => i = j
  <2>1. \A i \in 1 .. Len(r) : \E a \in 1 .. Len(s) : r[i] = s[a] /\ a = IF i < at THEN i ELSE i + 1
    BY <1>1, <1>3, <1>4
  <2> TAKE i \in 1 .. Len(r), j \in 1 .. Len(r)
  <2> HAVE r[i] = r[j]
  <2>2. PICK a \in 1 .. Len(s) : r[i] = s[a] /\ a = IF i < at THEN i ELSE i + 1
    BY <2>1, Zenon
  <2>3. PICK b \in 1 .. Len(s) : r[j] = s[b] /\ b = IF j < at THEN j ELSE j + 1
    BY <2>1, Zenon
  <2>4. a = b
    BY <2>2, <2>3, Zenon
  <2> HIDE DEF Queued
  <2> QED BY <1>1, <2>2, <2>3, <2>4
<1>8. In(r) = In(s) \ {w}
  <2>1. \A v \in In(r) : v \in In(s) \ {w}
    BY <1>5, Zenon DEF In
  <2> QED BY <1>6, <2>1, Zenon
<1> QED BY <1>2, <1>3, <1>7, <1>8, Zenon

(* A pool whose fields have their types. *)
Pooled(p) == p \in G!Pools /\ Queued(p.waiting)

(* first finds a waiter whenever one of the class waits, and one only. *)
LEMMA FirstFinds ==
  ASSUME NEW p, Pooled(p), NEW class
  PROVE  /\ G!first(p, class) \subseteq In(p.waiting) \cap class
         /\ In(p.waiting) \cap class # {} => G!first(p, class) # {}
<1> DEFINE at == {i \in DOMAIN p.waiting : p.waiting[i] \in class}
           best == {i \in at : \A j \in at :
             \/ G!rank(p, p.waiting[i]) < G!rank(p, p.waiting[j])
             \/ G!rank(p, p.waiting[i]) = G!rank(p, p.waiting[j]) /\ i <= j}
<1>0. p.waiting \in Seq(G!Workers) /\ DOMAIN p.waiting = 1 .. Len(p.waiting) /\ p.held \subseteq G!Workers
  BY DEF Pooled, Queued, G!Pools
<1>1. G!first(p, class) = {p.waiting[i] : i \in best}
  BY Zenon DEF G!first
<1>2. G!first(p, class) \subseteq In(p.waiting) \cap class
  BY <1>0, <1>1, Zenon DEF In
<1>3. ASSUME In(p.waiting) \cap class # {} PROVE best # {}
  <2>1. PICK k \in at : TRUE
    BY <1>0, <1>3, Zenon DEF In
  <2>2. \A i \in at : G!rank(p, p.waiting[i]) \in Nat
    <3> TAKE i \in at
    <3>1. {v \in p.held : p.module[v] = p.module[p.waiting[i]]} \in SUBSET G!Workers
      BY <1>0, Zenon
    <3> QED BY <3>1, Counted, Zenon DEF G!rank
  <2> DEFINE ranks == {G!rank(p, p.waiting[i]) : i \in at}
  <2>3. ranks \in SUBSET Nat /\ ranks # {}
    BY <2>1, <2>2, Zenon
  <2>4. PICK n \in ranks : \A y \in ranks : n <= y
    <3> HIDE DEF ranks
    <3> QED BY <2>3, Least, Zenon
  <2> DEFINE lowest == {i \in at : G!rank(p, p.waiting[i]) = n}
  <2>5. lowest \in SUBSET Nat /\ lowest # {}
    BY <1>0, <2>4
  <2>6. PICK i \in lowest : \A j \in lowest : i <= j
    <3> HIDE DEF lowest
    <3> QED BY <2>5, Least, Zenon
  <2>7. i \in at /\ \A j \in at : G!rank(p, p.waiting[j]) \in ranks
    BY Zenon
  <2>8. \A j \in at : G!rank(p, p.waiting[i]) <= G!rank(p, p.waiting[j])
    BY <2>4, <2>7, Zenon
  <2>9. i \in best
    BY <2>2, <2>6, <2>7, <2>8
  <2> QED BY <2>9, Zenon
<1> HIDE DEF best
<1> QED BY <1>1, <1>2, <1>3, Zenon

(* next finds nobody exactly when no critical work waits and no bulk work that
   may be served does. *)
LEMMA NextFinds ==
  ASSUME NEW p, Pooled(p)
  PROVE  /\ G!next(p) \subseteq In(p.waiting)
         /\ G!next(p) = {} <=> /\ In(p.waiting) \cap Critical = {}
                               /\ G!bulkMay(p) => In(p.waiting) \cap Bulk = {}
         /\ \A w \in G!next(p) : w \in Bulk => G!bulkMay(p)
         /\ \A w \in G!next(p) : w \notin Bulk => G!passed(p) = {} \/ p.streak < G!favoured
<1>1. /\ G!first(p, Critical) \subseteq In(p.waiting) \cap Critical
      /\ In(p.waiting) \cap Critical # {} => G!first(p, Critical) # {}
  BY FirstFinds, Zenon
<1>2. /\ G!first(p, Bulk) \subseteq In(p.waiting) \cap Bulk
      /\ In(p.waiting) \cap Bulk # {} => G!first(p, Bulk) # {}
  BY FirstFinds, Zenon
<1>3. CASE G!bulkMay(p)
  <2>1. G!passed(p) = G!first(p, Bulk)
    BY <1>3, Zenon DEF G!passed
  <2> QED BY <1>1, <1>2, <1>3, <2>1, ProgressAssumption, Zenon DEF G!next
<1>4. CASE ~G!bulkMay(p)
  <2>1. G!passed(p) = {}
    BY <1>4, Zenon DEF G!passed
  <2> QED BY <1>1, <1>2, <1>4, <2>1, ProgressAssumption, Zenon DEF G!next
<1> QED BY <1>3, <1>4, Zenon

(* What grants make of a pool p: those granted a slot were waiting, and wait no
   more, and bulk work that was is within its own slots. *)
Granted(p, q) ==
  /\ Pooled(q)
  /\ q.work = p.work /\ q.capacity = p.capacity /\ q.reserved = p.reserved /\ q.module = p.module
  /\ p.held \subseteq q.held
  /\ q.held \ p.held \subseteq In(p.waiting)
  /\ In(q.waiting) = In(p.waiting) \ q.held
  /\ q.held \cap Bulk # p.held \cap Bulk => G!Cardinality(q.held \cap Bulk) <= q.capacity - q.reserved

LEMMA PoolFields ==
  ASSUME NEW p, Pooled(p)
  PROVE  /\ p.waiting \in Seq(G!Workers) /\ p.held \in SUBSET G!Workers /\ p.streak \in 0 .. G!favoured
         /\ p.capacity \in Nat \ {0} /\ p.reserved \in 0 .. 1
         /\ p.module \in [G!Workers -> Scanning \cup {"critical", "bulk"}]
         /\ G!Cardinality(p.held) \in Nat
<1>1. p \in G!Pools
  BY Zenon DEF Pooled
<1>2. p.held \in SUBSET G!Workers
  BY <1>1, Zenon DEF G!Pools
<1>3. G!Cardinality(p.held) \in Nat
  BY <1>2, Counted, Zenon
<1> QED BY <1>1, <1>2, <1>3 DEF G!Pools

(* A grant is of one slot, if anybody is there to have it. *)
LEMMA GrantKeeps ==
  ASSUME NEW p, Pooled(p), NEW q, Granted(p, q)
  PROVE  /\ Granted(p, G!grant(q))
         /\ \/ G!next(q) = {} /\ G!grant(q) = q
            \/ G!next(q) # {} /\ G!Cardinality(G!grant(q).held) = G!Cardinality(q.held) + 1
<1>1. CASE G!next(q) = {}
  BY <1>1, Zenon DEF G!grant
<1>2. CASE G!next(q) # {}
  <2> DEFINE w == CHOOSE v \in G!next(q) : TRUE
             g == G!served(q, w)
  <2>1. w \in G!next(q) /\ G!grant(q) = g
    BY <1>2, Zenon DEF G!grant
  <2> HIDE DEF w
  <2>2. Pooled(q) /\ w \in In(q.waiting) /\ w \notin q.held
    BY <2>1, NextFinds, Zenon DEF Granted
  <2>3. w \in G!Workers
    BY <2>2, PoolFields DEF In
  <2>4. Queued(G!remove(q.waiting, w)) /\ In(G!remove(q.waiting, w)) = In(q.waiting) \ {w}
    BY <2>2, RemoveTakes, Zenon DEF Pooled
  <2> DEFINE n == IF w \in Bulk THEN 0 ELSE IF G!passed(q) # {} THEN q.streak + 1 ELSE q.streak
  <2>5. n \in 0 .. G!favoured
    BY <2>1, <2>2, PoolFields, NextFinds DEF G!favoured
  <2>6. /\ g \in G!Pools
        /\ g.waiting = G!remove(q.waiting, w) /\ g.held = q.held \cup {w} /\ g.work = q.work
        /\ g.capacity = q.capacity /\ g.reserved = q.reserved /\ g.module = q.module
    <3>1. g = [q EXCEPT !.waiting = G!remove(q.waiting, w), !.held = q.held \cup {w}, !.streak = n]
      BY Zenon DEF G!served
    <3>2. q \in G!Pools /\ q.held \cup {w} \in SUBSET G!Workers /\ G!remove(q.waiting, w) \in Seq(G!Workers)
      BY <2>2, <2>3, <2>4, PoolFields, Zenon DEF Pooled, Queued
    <3> HIDE DEF n, g
    <3> QED BY <2>5, <3>1, <3>2, Zenon DEF G!Pools
  <2> HIDE DEF g, n
  <2>7. G!Cardinality(g.held) = G!Cardinality(q.held) + 1
    BY <2>2, <2>3, <2>6, Counted, PoolFields, Zenon
  <2>8. Pooled(g)
    BY <2>4, <2>6, Zenon DEF Pooled
  <2>9. /\ p.held \subseteq g.held /\ g.held \ p.held \subseteq In(p.waiting)
        /\ In(g.waiting) = In(p.waiting) \ g.held
    BY <2>2, <2>4, <2>6, Zenon DEF Granted
  <2>10. g.held \cap Bulk # p.held \cap Bulk => G!Cardinality(g.held \cap Bulk) <= g.capacity - g.reserved
    <3>1. CASE w \in Bulk
      <4>1. G!bulkMay(q)
        BY <2>1, <2>2, <3>1, NextFinds, Zenon
      <4>2. q.held \cap Bulk \in SUBSET G!Workers /\ w \notin q.held \cap Bulk
        BY <2>2, PoolFields, Zenon
      <4>3. g.held \cap Bulk = (q.held \cap Bulk) \cup {w}
        BY <2>6, <3>1, Zenon
      <4>4. G!Cardinality(g.held \cap Bulk) = G!Cardinality(q.held \cap Bulk) + 1 /\ G!Cardinality(q.held \cap Bulk) \in Nat
        BY <2>3, <4>2, <4>3, Counted, Zenon
      <4> QED BY <2>2, <2>6, <4>1, <4>4, PoolFields DEF G!bulkMay
    <3>2. CASE w \notin Bulk
      <4>1. g.held \cap Bulk = q.held \cap Bulk
        BY <2>6, <3>2, Zenon
      <4> QED BY <2>6, <4>1, Zenon DEF Granted
    <3> QED BY <3>1, <3>2, Zenon
  <2> QED BY <1>2, <2>1, <2>6, <2>7, <2>8, <2>9, <2>10, Zenon DEF Granted
<1> QED BY <1>1, <1>2, Zenon

(* The rounds of a dispatch of p, up to k. *)
Rounds(f, p, k) == f = [n \in 0 .. k |-> IF n = 0 THEN p ELSE G!grant(f[n - 1])]

(* There are as many as are asked for: the least number for which there were
   none would be 0, or follow one for which there are. *)
LEMMA RoundsExist ==
  ASSUME NEW p, NEW free \in Nat
  PROVE  \E f : Rounds(f, p, free)
<1> DEFINE none == {k \in Nat : ~ \E f : Rounds(f, p, k)}
<1>1. ASSUME none # {} PROVE FALSE
  <2>1. PICK k \in none : \A j \in none : k <= j
    <3>1. none \in SUBSET Nat
      BY Zenon
    <3> HIDE DEF none
    <3> QED BY <1>1, <3>1, Least, Zenon
  <2>2. CASE k = 0
    <3>1. Rounds([n \in 0 .. 0 |-> p], p, 0)
      BY DEF Rounds
    <3> QED BY <2>2, <3>1, Zenon
  <2>3. CASE k # 0
    <3>1. k - 1 \in Nat /\ k - 1 \notin none
      BY <2>1, <2>3
    <3>2. PICK f : Rounds(f, p, k - 1)
      BY <3>1, Zenon
    <3> DEFINE g == [n \in 0 .. k |-> IF n = k THEN G!grant(f[k - 1]) ELSE f[n]]
    <3>3. \A n \in 0 .. (k - 1) : f[n] = IF n = 0 THEN p ELSE G!grant(f[n - 1])
      BY <3>2, Zenon DEF Rounds
    <3>4. \A n \in 0 .. k : g[n] = IF n = 0 THEN p ELSE G!grant(g[n - 1])
      BY <2>3, <3>1, <3>3
    <3>5. Rounds(g, p, k)
      BY <3>4, Zenon DEF Rounds
    <3> QED BY <3>5, Zenon
  <2> QED BY <2>2, <2>3, Zenon
<1>2. \E f : Rounds(f, p, free)
  BY <1>1, Zenon
<1> QED BY <1>2, Zenon

LEMMA DispatchIs ==
  ASSUME NEW p, p.capacity - G!Cardinality(p.held) \in Nat
  PROVE  \E f : /\ Rounds(f, p, p.capacity - G!Cardinality(p.held))
                /\ p.capacity - G!Cardinality(p.held) > 0 => G!dispatch(p) = f[p.capacity - G!Cardinality(p.held)]
<1> DEFINE free == p.capacity - G!Cardinality(p.held)
           after == CHOOSE f : Rounds(f, p, free)
<1>1. Rounds(after, p, free)
  <2>1. free \in Nat
    BY Zenon
  <2>2. \E f : Rounds(f, p, free)
    <3> HIDE DEF free
    <3> QED BY <2>1, RoundsExist, Zenon
  <2> HIDE DEF free
  <2> QED BY <2>2, Zenon
<1>2. free > 0 => G!dispatch(p) = after[free]
  BY Zenon DEF G!dispatch, Rounds
<1> HIDE DEF after
<1> QED BY <1>1, <1>2, Zenon

(* What dispatch makes of a pool: whoever is granted a slot was waiting, no slot
   is left that somebody who waits may have, and none is granted past the
   budget. *)
LEMMA DispatchGrants ==
  ASSUME NEW p, Pooled(p), In(p.waiting) \cap p.held = {}
  PROVE  /\ Granted(p, G!dispatch(p))
         /\ G!Cardinality(G!dispatch(p).held) < p.capacity => G!next(G!dispatch(p)) = {}
         /\ G!dispatch(p).held # p.held => G!Cardinality(G!dispatch(p).held) <= p.capacity
<1>0. Granted(p, p)
  BY Zenon DEF Granted
<1>1. p.capacity \in Nat /\ G!Cardinality(p.held) \in Nat
  BY PoolFields, Zenon
<1>2. CASE p.capacity <= G!Cardinality(p.held)
  <2>1. G!dispatch(p) = p
    <3>1. ~(p.capacity - G!Cardinality(p.held) > 0)
      BY <1>1, <1>2
    <3> QED BY <3>1, Zenon DEF G!dispatch
  <2> QED BY <1>0, <1>1, <1>2, <2>1
<1>3. CASE p.capacity > G!Cardinality(p.held)
  <2>1. PICK free \in Nat : free = p.capacity - G!Cardinality(p.held) /\ free > 0
    BY <1>1, <1>3
  <2>2. PICK f : Rounds(f, p, free) /\ G!dispatch(p) = f[free]
    BY <2>1, DispatchIs, Zenon
  <2> DEFINE Good(n) ==
        /\ Granted(p, f[n])
        /\ G!Cardinality(f[n].held) \in Nat
        /\ \/ G!Cardinality(f[n].held) = G!Cardinality(p.held) + n
           \/ G!Cardinality(f[n].held) <= G!Cardinality(p.held) + n /\ G!next(f[n]) = {}
      bad == {n \in 0 .. free : ~Good(n)}
  <2>3. ASSUME bad # {} PROVE FALSE
    <3>1. PICK n \in bad : \A m \in bad : n <= m
      <4>1. bad \in SUBSET Nat
        OBVIOUS
      <4> HIDE DEF bad
      <4> QED BY <2>3, <4>1, Least, Zenon
    <3>2. CASE n = 0
      BY <1>0, <1>1, <2>2, <3>1, <3>2 DEF Rounds
    <3>3. CASE n # 0
      <4>1. n - 1 \in 0 .. free /\ n - 1 \notin bad /\ n \in 0 .. free
        BY <3>1, <3>3
      <4>2. Good(n - 1)
        BY <4>1, Zenon
      <4>3. f[n] = G!grant(f[n - 1])
        BY <2>2, <3>3, <4>1, Zenon DEF Rounds
      <4>4. /\ Granted(p, f[n])
            /\ \/ G!next(f[n - 1]) = {} /\ f[n] = f[n - 1]
               \/ G!next(f[n - 1]) # {} /\ G!Cardinality(f[n].held) = G!Cardinality(f[n - 1].held) + 1
        BY <4>2, <4>3, GrantKeeps, Zenon
      <4>5. G!Cardinality(f[n].held) \in Nat
        BY <4>4, PoolFields, Zenon DEF Granted
      <4>6. Good(n)
        BY <1>1, <4>1, <4>2, <4>4, <4>5
      <4> QED BY <3>1, <4>6, Zenon
    <3> QED BY <3>2, <3>3, Zenon
  <2>4. Good(free)
    BY <2>3
  <2>5. G!Cardinality(p.held) + free = p.capacity
    BY <1>1, <2>1
  <2> QED BY <2>2, <2>4, <2>5
<1> QED BY <1>1, <1>2, <1>3

(* Where each worker is agrees with what pool p holds. *)
Agrees(p, at) ==
  /\ at \in [G!Workers -> {"idle", "waiting", "running"}]
  /\ In(p.waiting) \cap p.held = {}
  /\ \A w \in G!Workers :
       /\ at[w] = "idle" => w \notin p.held /\ w \notin In(p.waiting)
       /\ at[w] = "running" => w \in p.held
       /\ at[w] = "waiting" => w \in p.held \/ w \in In(p.waiting)

PoolInv == Pooled(pool) /\ Agrees(pool, worker) /\ G!NoSlotIdles

(* No grant goes past the budget, as GrantsWithinBudget says of every step. *)
WithinBudget ==
  LET granted == pool'.held \ pool.held IN
  /\ granted # {} => G!Cardinality(pool'.held) <= pool'.capacity
  /\ granted \cap Bulk # {} => G!Cardinality(pool'.held \cap Bulk) <= pool'.capacity - pool'.reserved

(* A critical section that ends with dispatch, of what it made of the pool. *)
LEMMA DispatchKeeps ==
  ASSUME NEW p, Pooled(p), Agrees(p, worker'), p.held \subseteq pool.held, pool' = G!dispatch(p)
  PROVE  PoolInv' /\ WithinBudget
<1>1. /\ Granted(p, pool')
      /\ G!Cardinality(pool'.held) < p.capacity => G!next(pool') = {}
      /\ pool'.held # p.held => G!Cardinality(pool'.held) <= p.capacity
  BY DispatchGrants, Zenon DEF Agrees
<1>2. Agrees(pool', worker')
  BY <1>1, Zenon DEF Agrees, Granted
<1>3. PoolInv'
  <2>1. Pooled(pool') /\ (G!Cardinality(pool'.held) < pool'.capacity => G!next(pool') = {})
    BY <1>1, Zenon DEF Granted
  <2> QED BY <1>2, <2>1, Zenon DEF PoolInv, Pooled, Queued, Agrees, In, G!NoSlotIdles
<1> QED BY <1>1, <1>3, Zenon DEF Granted, WithinBudget

LEMMA PoolStarts == G!Init => PoolInv
<1> SUFFICES ASSUME G!Init PROVE PoolInv
  BY Zenon
<1>1. PICK work \in {"scans", "uploads"}, c \in 1 .. MaxCapacity :
        pool = [work |-> work, waiting |-> <<>>, held |-> {}, streak |-> 0, capacity |-> c,
                reserved |-> G!reservedOf(work, c), module |-> [w \in G!Workers |-> G!ClassOf(w)]]
  BY Zenon DEF G!Init
<1>2. Pooled(pool)
  <2>1. G!reservedOf(work, c) \in 0 .. 1
    BY DEF G!reservedOf
  <2>2. [w \in G!Workers |-> G!ClassOf(w)] \in [G!Workers -> Scanning \cup {"critical", "bulk"}]
    BY Zenon DEF G!ClassOf
  <2>3. <<>> \in Seq(G!Workers) /\ 0 \in 0 .. G!favoured
    BY DEF G!favoured
  <2>4. pool \in G!Pools
    BY <1>1, <2>1, <2>2, <2>3, Zenon DEF G!Pools
  <2> QED BY <1>1, <2>4 DEF Pooled, Queued
<1>3. In(pool.waiting) = {} /\ pool.held = {}
  BY <1>1 DEF In
<1>4. Agrees(pool, worker)
  BY <1>3, Zenon DEF Agrees, G!Init
<1>5. G!NoSlotIdles
  BY <1>2, <1>3, NextFinds, Zenon DEF G!NoSlotIdles
<1> QED BY <1>2, <1>4, <1>5, Zenon DEF PoolInv

(* put gives a slot back. *)
LEMMA PutKeeps ==
  ASSUME PoolInv, NEW w \in G!Workers, w \in pool.held, pool' = G!put(pool, w), worker' = [worker EXCEPT ![w] = "idle"]
  PROVE  PoolInv' /\ WithinBudget
<1> DEFINE p == [pool EXCEPT !.held = pool.held \ {w}]
<1>1. pool \in G!Pools
  BY Zenon DEF PoolInv, Pooled
<1>2. p \in G!Pools /\ p.waiting = pool.waiting /\ p.held = pool.held \ {w}
  BY <1>1, Zenon DEF G!Pools
<1>3. pool' = G!dispatch(p)
  BY Zenon DEF G!put
<1> HIDE DEF p
<1>4. Pooled(p)
  BY <1>2, Zenon DEF PoolInv, Pooled
<1>5. Agrees(p, worker')
  BY <1>2, Zenon DEF PoolInv, Agrees
<1> QED BY <1>2, <1>3, <1>4, <1>5, DispatchKeeps, Zenon

LEMMA AcquireKeeps ==
  ASSUME PoolInv, NEW w \in G!Workers, G!Acquire(w)
  PROVE  PoolInv' /\ WithinBudget
<1>1. PICK m \in G!Named(w) :
        pool' = G!dispatch([pool EXCEPT !.waiting = Append(pool.waiting, w), !.module[w] = m])
  BY Zenon DEF G!Acquire
<1> DEFINE p == [pool EXCEPT !.waiting = Append(pool.waiting, w), !.module[w] = m]
<1>2. pool \in G!Pools /\ pool.waiting \in Seq(G!Workers) /\ pool.module \in [G!Workers -> Scanning \cup {"critical", "bulk"}]
  BY PoolFields, Zenon DEF PoolInv, Pooled
<1>3. m \in Scanning \cup {"critical", "bulk"}
  BY Zenon DEF G!Named, G!ClassOf
<1>4. p \in G!Pools /\ p.waiting = Append(pool.waiting, w) /\ p.held = pool.held
  <2>1. p = [pool EXCEPT !.waiting = Append(pool.waiting, w), !.module = [pool.module EXCEPT ![w] = m]]
    BY <1>2, Zenon DEF G!Pools
  <2>2. Append(pool.waiting, w) \in Seq(G!Workers) /\ [pool.module EXCEPT ![w] = m] \in [G!Workers -> Scanning \cup {"critical", "bulk"}]
    BY <1>2, <1>3
  <2> QED BY <1>2, <2>1, <2>2, Zenon DEF G!Pools
<1>5. w \notin In(pool.waiting) /\ w \notin pool.held
  BY Zenon DEF PoolInv, Agrees, G!Acquire
<1> HIDE DEF p
<1>6. /\ Len(p.waiting) = Len(pool.waiting) + 1 /\ p.waiting[Len(pool.waiting) + 1] = w
      /\ \A i \in 1 .. Len(pool.waiting) : p.waiting[i] = pool.waiting[i]
      /\ p.waiting \in Seq(G!Workers)
  BY <1>2, <1>4
<1>7. \A i \in 1 .. Len(p.waiting) : i \in 1 .. Len(pool.waiting) \/ i = Len(pool.waiting) + 1
  BY <1>2, <1>6
<1>8. In(p.waiting) = In(pool.waiting) \cup {w}
  <2>1. \A i \in 1 .. Len(pool.waiting) : i \in 1 .. Len(p.waiting)
    BY <1>2, <1>6
  <2>2. Len(pool.waiting) + 1 \in 1 .. Len(p.waiting)
    BY <1>2, <1>6
  <2> QED BY <1>6, <1>7, <2>1, <2>2, Zenon DEF In
<1>9. Pooled(p)
  <2>1. \A i, j \in 1 .. Len(p.waiting) : p.waiting[i] = p.waiting[j] => i = j
    <3>1. \A i \in 1 .. Len(pool.waiting) : p.waiting[i] # w
      BY <1>5, <1>6, Zenon DEF In
    <3>2. \A i, j \in 1 .. Len(pool.waiting) : p.waiting[i] = p.waiting[j] => i = j
      BY <1>6, Zenon DEF PoolInv, Pooled, Queued
    <3> QED BY <1>6, <1>7, <3>1, <3>2, Zenon
  <2> QED BY <1>4, <1>6, <2>1, Zenon DEF Pooled, Queued
<1>10. Agrees(p, worker')
  BY <1>4, <1>5, <1>8, Zenon DEF PoolInv, Agrees, G!Acquire
<1> QED BY <1>1, <1>4, <1>9, <1>10, DispatchKeeps, Zenon DEF p

LEMMA LimitKeeps ==
  ASSUME PoolInv, NEW c \in 1 .. MaxCapacity, G!limit(c)
  PROVE  PoolInv' /\ WithinBudget
<1> DEFINE p == [pool EXCEPT !.capacity = c, !.reserved = G!reservedOf(pool.work, c)]
<1>1. pool \in G!Pools /\ G!reservedOf(pool.work, c) \in 0 .. 1
  BY DEF PoolInv, Pooled, G!reservedOf
<1>2. p \in G!Pools /\ p.waiting = pool.waiting /\ p.held = pool.held
  BY <1>1, Zenon DEF G!Pools
<1>3. pool' = G!dispatch(p) /\ worker' = worker
  BY Zenon DEF G!limit
<1> HIDE DEF p
<1> QED BY <1>2, <1>3, DispatchKeeps, Zenon DEF PoolInv, Pooled, Agrees

(* A worker that waits leaves the queue: nobody else is served because of it. *)
LEMMA LeaveKeeps ==
  ASSUME PoolInv, NEW w \in G!Workers, worker[w] = "waiting", w \notin pool.held,
         pool' = [pool EXCEPT !.waiting = G!remove(pool.waiting, w)], worker' = [worker EXCEPT ![w] = "idle"]
  PROVE  PoolInv' /\ WithinBudget
<1>1. pool \in G!Pools /\ w \in In(pool.waiting)
  BY Zenon DEF PoolInv, Pooled, Agrees
<1>2. Queued(G!remove(pool.waiting, w)) /\ In(G!remove(pool.waiting, w)) = In(pool.waiting) \ {w}
  BY <1>1, RemoveTakes, Zenon DEF PoolInv, Pooled
<1>3. /\ pool' \in G!Pools /\ pool'.waiting = G!remove(pool.waiting, w) /\ pool'.held = pool.held
      /\ pool'.capacity = pool.capacity /\ pool'.reserved = pool.reserved
  BY <1>1, <1>2, Zenon DEF G!Pools, Queued
<1>4. Pooled(pool')
  BY <1>2, <1>3, Zenon DEF Pooled
<1>5. Agrees(pool', worker')
  BY <1>2, <1>3, Zenon DEF PoolInv, Agrees
<1>6. G!Cardinality(pool'.held) < pool'.capacity => G!next(pool') = {}
  <2>1. G!bulkMay(pool') <=> G!bulkMay(pool)
    BY <1>3, Zenon DEF G!bulkMay
  <2>2. In(pool'.waiting) \subseteq In(pool.waiting)
    BY <1>2, <1>3, Zenon
  <2>3. G!next(pool) = {} => G!next(pool') = {}
    BY <1>4, <2>1, <2>2, NextFinds, Zenon DEF PoolInv
  <2> QED BY <1>3, <2>3, Zenon DEF PoolInv, G!NoSlotIdles
<1>7. PoolInv'
  BY <1>4, <1>5, <1>6, Zenon DEF PoolInv, Pooled, Queued, Agrees, In, G!NoSlotIdles
<1> QED BY <1>3, <1>7, Zenon DEF WithinBudget

LEMMA PoolKeeps ==
  ASSUME PoolInv, G!Next \/ UNCHANGED slots
  PROVE  PoolInv' /\ WithinBudget
<1>1. ASSUME NEW w \in G!Workers, G!Acquire(w) PROVE PoolInv' /\ WithinBudget
  BY <1>1, AcquireKeeps, Zenon
<1>2. ASSUME NEW w \in G!Workers, G!Enter(w) PROVE PoolInv' /\ WithinBudget
  <2>1. pool' = pool /\ Agrees(pool, worker')
    BY <1>2, Zenon DEF G!Enter, PoolInv, Agrees
  <2>2. WithinBudget
    BY <2>1, Zenon DEF WithinBudget
  <2>3. G!NoSlotIdles'
    BY <2>1, Zenon DEF PoolInv, G!NoSlotIdles
  <2> QED BY <2>1, <2>2, <2>3 DEF PoolInv, Pooled, Queued, Agrees, In
<1>3. ASSUME NEW w \in G!Workers, G!Cancel(w) PROVE PoolInv' /\ WithinBudget
  <2>1. CASE w \in pool.held
    BY <1>3, <2>1, PutKeeps, Zenon DEF G!Cancel
  <2>2. CASE w \notin pool.held
    BY <1>3, <2>2, LeaveKeeps, Zenon DEF G!Cancel
  <2> QED BY <2>1, <2>2, Zenon
<1>4. ASSUME NEW w \in G!Workers, G!Release(w) PROVE PoolInv' /\ WithinBudget
  <2>1. w \in pool.held
    BY <1>4, Zenon DEF G!Release, PoolInv, Agrees
  <2> QED BY <1>4, <2>1, PutKeeps, Zenon DEF G!Release
<1>5. CASE UNCHANGED slots
  BY <1>5 DEF slots, PoolInv, Pooled, Queued, Agrees, In, G!NoSlotIdles, WithinBudget
<1> QED BY <1>1, <1>2, <1>3, <1>4, <1>5, LimitKeeps, Zenon DEF G!Next

(* What SlotsAreKept says of a state. *)
LEMMA PoolHolds == PoolInv => G!NoSlotLeaks /\ G!NoSlotIdles /\ G!CriticalWaitsOnCritical
<1> SUFFICES ASSUME PoolInv PROVE G!NoSlotLeaks /\ G!NoSlotIdles /\ G!CriticalWaitsOnCritical
  BY Zenon
<1>1. G!Range(pool.waiting) = In(pool.waiting) /\ In(pool.waiting) \subseteq G!Workers
  BY PoolFields, RangeIs DEF PoolInv, In
<1>2. G!NoSlotLeaks
  BY <1>1, Zenon DEF PoolInv, Agrees, G!NoSlotLeaks
<1>3. G!NoSlotIdles
  BY Zenon DEF PoolInv
<1>4. G!CriticalWaitsOnCritical
  <2> SUFFICES ASSUME pool.reserved > 0, G!Cardinality(pool.held \cap Bulk) <= pool.capacity - pool.reserved,
                      In(pool.waiting) \cap Critical # {}
               PROVE  G!Cardinality(pool.held \cap Critical) >= pool.reserved
    BY <1>1, Zenon DEF G!CriticalWaitsOnCritical
  <2>1. G!next(pool) # {}
    BY NextFinds, Zenon DEF PoolInv
  <2>2. /\ pool.capacity \in Nat /\ pool.reserved \in Nat /\ G!Cardinality(pool.held) \in Nat
        /\ pool.held \in SUBSET G!Workers
    BY PoolFields DEF PoolInv
  <2>3. G!Cardinality(pool.held) >= pool.capacity
    BY <1>3, <2>1, <2>2 DEF G!NoSlotIdles
  <2>4. G!Cardinality(pool.held) = G!Cardinality(pool.held \cap Critical) + G!Cardinality(pool.held \cap Bulk)
    BY <2>2, Counted, Zenon
  <2>5. G!Cardinality(pool.held \cap Critical) \in Nat /\ G!Cardinality(pool.held \cap Bulk) \in Nat
    <3>1. pool.held \cap Critical \in SUBSET G!Workers /\ pool.held \cap Bulk \in SUBSET G!Workers
      BY <2>2, Zenon
    <3> QED BY <3>1, Counted, Zenon
  <2> QED BY <2>2, <2>3, <2>4, <2>5
<1> QED BY <1>2, <1>3, <1>4, Zenon

-----------------------------------------------------------------------------
(* A step is one of the slots, or leaves them alone. *)
LEMMA PoolSteps == [ProgressNext]_every => G!Next \/ UNCHANGED slots
BY Zenon DEF ProgressNext, every

LEMMA PoolAlways == ProgressSpec => []PoolInv
<1>1. ProgressInit => PoolInv
  BY PoolStarts, Zenon DEF ProgressInit
<1>2. PoolInv /\ [ProgressNext]_every => PoolInv'
  BY PoolSteps, PoolKeeps, Zenon
<1> QED BY <1>1, <1>2, PTL DEF ProgressSpec

(* However workers ask, cancel and finish as budgets are replaced: a slot is held
   by whoever works and by nobody else, none is free while work that may have it
   waits, critical work waits on critical work alone, and no grant goes past the
   budget. queue.go's acquire, dispatch, put and limit. *)
THEOREM SlotsAlwaysKept == ProgressSpec => SlotsAreKept
<1>1. PoolInv => G!NoSlotLeaks /\ G!NoSlotIdles /\ G!CriticalWaitsOnCritical
  BY PoolHolds, Zenon
<1>2. PoolInv /\ [ProgressNext]_every => WithinBudget
  BY PoolSteps, PoolKeeps, Zenon
<1>3. PoolInv /\ [ProgressNext]_every =>
        [LET granted == pool'.held \ pool.held IN
         /\ granted # {} => G!Cardinality(pool'.held) <= pool'.capacity
         /\ granted \cap Bulk # {} =>
              G!Cardinality(pool'.held \cap Bulk) <= pool'.capacity - pool'.reserved]_(G!vars)
  BY <1>2, Zenon DEF WithinBudget
<1> QED BY <1>1, <1>3, PoolAlways, PTL DEF ProgressSpec, SlotsAreKept, G!GrantsWithinBudget
=============================================================================
