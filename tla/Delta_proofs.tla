---------------------------- MODULE Delta_proofs ----------------------------
(***************************************************************************)
(* Proofs about src/delta: content maps built by any number of goroutines  *)
(* (ShardedMap), and the patch and blob codec with the fetch of a blob     *)
(* (Codec).                                                                *)
(***************************************************************************)
EXTENDS Codec, Predict, ShardedMap, FiniteSetTheorems, SequenceTheorems, WellFoundedInduction, TLAPS

(***************************************************************************)
(* The map under construction.  A block is Right when it is what a single  *)
(* pass computes from the block before it.                                 *)
(***************************************************************************)
Block == [d : Int, m : BOOLEAN, a : BOOLEAN]

NB == Blocks(mjob)
FromPrev(bs, k) == bs[k + 1] = Step(mjob, ix, k, bs[k].d)
FromZero(bs, k) == bs[k + 1] = Step(mjob, ix, k, 0)
Right(bs, k) == IF k = 0 THEN FromZero(bs, 0) ELSE FromPrev(bs, k)

MapTyped ==
  /\ mstage \in {"index", "pass", "repair", "done"}
  /\ mjob \in MapJobs /\ ~TooShort(mjob)
  /\ mstage # "done" => mblocks \in [1..NB -> Block]

(* The index holds the windows of the goroutines that are done.            *)
Indexing ==
  IF mstage = "index"
  THEN /\ mcur \in [MW -> {-1, 0}]
       /\ \A e : e \in ix <=>
            \E w \in Active(NumWindows(mjob)) :
              /\ mcur[w] = 0
              /\ e \in Windows(mjob, Lo(NumWindows(mjob), w), Hi(NumWindows(mjob), w))
  ELSE ix = WinIndex(mjob)

(* A shard's blocks so far follow from each other, the first from shift 0. *)
Passing ==
  mstage = "pass" =>
    /\ mcur \in [MW -> Int]
    /\ \A w \in Active(NB) :
         /\ Lo(NB, w) <= mcur[w] /\ mcur[w] <= Hi(NB, w)
         /\ \A k \in Lo(NB, w)..(mcur[w] - 1) :
              IF k = Lo(NB, w) THEN FromZero(mblocks, k) ELSE FromPrev(mblocks, k)

(* What may still be wrong is the block the repair is at and the first     *)
(* block of every later shard, but never the first block of all.           *)
Repaired ==
  mstage = "repair" =>
    /\ mfix \in [w : Nat, i : Nat] /\ mfix.w >= 1 /\ mfix.w <= Shards(NB)
    /\ Lo(NB, mfix.w) <= mfix.i
    /\ mfix.w < Shards(NB) =>
         mfix.i <= Hi(NB, mfix.w) /\ (Lo(NB, mfix.w) = 0 => mfix.i = 0)
    /\ \A k \in 0..(NB - 1) :
         (k = 0 \/ (k # mfix.i /\ \A v \in (mfix.w + 1)..(Shards(NB) - 1) : k # Lo(NB, v)))
           => Right(mblocks, k)

(* The finished map is the single pass's, resolved.                        *)
Finished ==
  mstage = "done" =>
    \E bs \in [1..NB -> Block] :
      (\A k \in 0..(NB - 1) : Right(bs, k)) /\ mblocks = Resolved(mjob, bs)

MapInv == mstage = "idle" \/ (MapTyped /\ Indexing /\ Passing /\ Repaired /\ Finished)

-----------------------------------------------------------------------------
(***************************************************************************)
(* Numbers and sets of them.                                               *)
(***************************************************************************)
\* A nonempty set of numbers has a least one: induction, for what follows.
LEMMA LeastNat ==
  ASSUME NEW T, T \subseteq Nat, T # {}
  PROVE  \E n \in T : \A m \in T : n <= m
<1>1. IsWellFoundedOn(OpToRel(<, Nat), Nat) BY NatLessThanWellFounded
<1>2. PICK n \in T : \A m \in T : ~(<<m, n>> \in OpToRel(<, Nat)) BY <1>1, WFMin
<1>3. \A m \in T : ~(m < n)
  <2> TAKE m \in T
  <2>1. <<m, n>> \notin OpToRel(<, Nat) BY <1>2
  <2>2. QED BY <2>1 DEF OpToRel
<1>4. QED BY <1>3

\* The least and the greatest of a set of numbers between two bounds.
LEMMA MinMaxOf ==
  ASSUME NEW a \in Int, NEW b \in Int, NEW T, T \subseteq a..b, T # {}
  PROVE  /\ Min(T) \in T /\ \A x \in T : Min(T) <= x
         /\ Max(T) \in T /\ \A x \in T : x <= Max(T)
<1>1. \E x \in T : \A y \in T : x <= y
  <2> DEFINE D == {x - a : x \in T}
  <2>0. \A x \in T : x - a \in Nat OBVIOUS
  <2>1. D \subseteq Nat /\ D # {} BY <2>0
  <2> HIDE DEF D
  <2>2. PICK n \in D : \A m \in D : n <= m BY <2>1, LeastNat
  <2> USE DEF D
  <2>3. PICK x \in T : n = x - a BY <2>2
  <2>4. \A y \in T : x - a <= y - a BY <2>2, <2>3
  <2>5. QED BY <2>4
<1>2. \E x \in T : \A y \in T : x >= y
  <2> DEFINE D == {b - x : x \in T}
  <2>0. \A x \in T : b - x \in Nat OBVIOUS
  <2>1. D \subseteq Nat /\ D # {} BY <2>0
  <2> HIDE DEF D
  <2>2. PICK n \in D : \A m \in D : n <= m BY <2>1, LeastNat
  <2> USE DEF D
  <2>3. PICK x \in T : n = b - x BY <2>2
  <2>4. \A y \in T : b - x <= b - y BY <2>2, <2>3
  <2>5. QED BY <2>4
<1>3. Min(T) \in T /\ \A y \in T : Min(T) <= y BY <1>1 DEF Min
<1>4. Max(T) \in T /\ \A y \in T : Max(T) >= y BY <1>2 DEF Max
<1>5. QED BY <1>3, <1>4

\* Division by a positive number: quotient and remainder.
LEMMA DivIs ==
  ASSUME NEW x \in Nat, NEW s \in Nat \ {0}
  PROVE  /\ x \div s \in Nat
         /\ s * (x \div s) <= x /\ x < s * (x \div s) + s
OBVIOUS

\* It does not reverse an order,
LEMMA DivMono ==
  ASSUME NEW x \in Nat, NEW y \in Nat, NEW s \in Nat \ {0}, x <= y
  PROVE  x \div s <= y \div s
<1>1. SUFFICES ASSUME (y \div s) + 1 <= x \div s PROVE FALSE BY DivIs
<1> DEFINE p == x \div s
           q == y \div s
<1>2. p \in Nat /\ q \in Nat /\ s * p <= x /\ y < s * q + s BY DivIs
<1> HIDE DEF p, q
<1>3. q + 1 <= p BY <1>1 DEF p, q
<1>4. s * (q + 1) <= s * p BY <1>2, <1>3
<1>5. QED BY <1>2, <1>4

\* and undoes a multiplication.
LEMMA DivMul ==
  ASSUME NEW n \in Nat, NEW s \in Nat \ {0}
  PROVE  (n * s) \div s = n
<1> DEFINE q == (n * s) \div s
<1>1. n * s \in Nat OBVIOUS
<1>2. q \in Nat /\ s * q <= n * s /\ n * s < s * q + s BY <1>1, DivIs
<1> HIDE DEF q
<1>3. q <= n
  <2>1. SUFFICES ASSUME n + 1 <= q PROVE FALSE BY <1>2
  <2>2. s * (n + 1) <= s * q BY <1>2, <2>1
  <2>3. QED BY <1>2, <2>2
<1>4. n <= q
  <2>1. SUFFICES ASSUME q + 1 <= n PROVE FALSE BY <1>2
  <2>2. s * (q + 1) <= s * n BY <1>2, <2>1
  <2>3. QED BY <1>2, <2>2
<1>5. QED BY <1>2, <1>3, <1>4 DEF q

-----------------------------------------------------------------------------
(***************************************************************************)
(* Content maps.  How the work is split: the shards cover the items and    *)
(* do not overlap.                                                         *)
(***************************************************************************)
\* A job's sizes.
LEMMA JobSizes ==
  ASSUME NEW j \in MapJobs
  PROVE  /\ Len(j.old) \in Nat /\ Len(j.new) \in Nat /\ j.block \in Nat \ {0}
         /\ Blocks(j) \in Nat
         /\ ~TooShort(j) => NumWindows(j) \in Nat
<1>1. j.old \in Seq(Int) /\ j.new \in Seq(Int) /\ j.block \in Nat \ {0} BY MapAssumption
<1>2. Len(j.old) \in Nat /\ Len(j.new) \in Nat BY <1>1, LenProperties
<1>3. Len(j.old) + j.block - 1 \in Nat BY <1>1, <1>2
<1>4. Blocks(j) \in Nat BY <1>1, <1>3, DivIs DEF Blocks, CeilTo
<1>5. QED BY <1>1, <1>2, <1>4 DEF NumWindows, TooShort

\* There is a shard, and a goroutine for each.
LEMMA ShardCount ==
  ASSUME NEW n \in Nat
  PROVE  Shards(n) \in Nat \ {0} /\ Active(n) \subseteq MW
BY MapAssumption DEF Shards, Active, MW

\* Where the shards of n items start: in order, from 0 to n.
LEMMA ShardStarts ==
  ASSUME NEW n \in Nat
  PROVE  /\ \A w \in Nat : Lo(n, w) \in Nat /\ Hi(n, w) = Lo(n, w + 1)
         /\ \A w, v \in Nat : w <= v => Lo(n, w) <= Lo(n, v)
         /\ Lo(n, 0) = 0 /\ Lo(n, Shards(n)) = n
<1> DEFINE s == Shards(n)
<1>1. s \in Nat \ {0} BY ShardCount
<1>2. \A w \in Nat : Lo(n, w) = (n * w) \div s /\ Hi(n, w) = (n * (w + 1)) \div s /\ n * w \in Nat
  BY DEF Lo, Hi
<1> HIDE DEF s
<1>3. ASSUME NEW w \in Nat PROVE Lo(n, w) \in Nat /\ Hi(n, w) = Lo(n, w + 1)
  <2>1. Lo(n, w) \in Nat BY <1>1, <1>2, DivIs
  <2>2. w + 1 \in Nat OBVIOUS
  <2>3. QED BY <1>2, <2>1, <2>2
<1>4. ASSUME NEW w \in Nat, NEW v \in Nat, w <= v PROVE Lo(n, w) <= Lo(n, v)
  <2>1. n * w <= n * v BY <1>4
  <2>2. (n * w) \div s <= (n * v) \div s BY <1>1, <1>2, <2>1, DivMono
  <2>3. QED BY <1>2, <2>2
<1>5. Lo(n, 0) = 0 BY <1>1, <1>2
<1>6. Lo(n, s) = n BY <1>1, <1>2, DivMul
<1>7. QED BY <1>3, <1>4, <1>5, <1>6 DEF s

\* Every item is some shard's.
LEMMA ShardsCover ==
  ASSUME NEW n \in Nat, NEW p \in 0..(n - 1)
  PROVE  \E w \in Active(n) : p \in Lo(n, w)..(Hi(n, w) - 1)
<1> DEFINE T == {k \in Nat : k <= Shards(n) /\ p < Lo(n, k)}
<1>1. Shards(n) \in Nat \ {0} BY ShardCount
<1>2. Shards(n) \in T
  <2>1. Lo(n, Shards(n)) = n BY ShardStarts
  <2>2. QED BY <1>1, <2>1
<1>3. T \subseteq Nat /\ T # {} BY <1>2
<1> HIDE DEF T
<1>4. PICK k \in T : \A m \in T : k <= m BY <1>3, LeastNat
<1> USE DEF T
<1>5. k \in Nat /\ k <= Shards(n) /\ p < Lo(n, k) BY <1>4
<1>6. k # 0
  <2>1. Lo(n, 0) = 0 BY ShardStarts
  <2>2. QED BY <1>5, <2>1
<1> DEFINE w == k - 1
<1>7. w \in Nat /\ w < k /\ w <= Shards(n) /\ w + 1 = k BY <1>1, <1>5, <1>6
<1> HIDE DEF w
<1>8. w \notin T BY <1>4, <1>5, <1>7
<1>9. ~(p < Lo(n, w)) BY <1>7, <1>8
<1>10. Lo(n, w) \in Nat /\ Lo(n, k) \in Nat /\ Hi(n, w) = Lo(n, k) BY <1>5, <1>7, ShardStarts
<1>11. p \in Lo(n, w)..(Hi(n, w) - 1) BY <1>5, <1>9, <1>10
<1>12. w \in Active(n) BY <1>1, <1>5, <1>7 DEF Active
<1>13. QED BY <1>11, <1>12

\* No item is two shards'.
LEMMA ShardsApart ==
  ASSUME NEW n \in Nat, NEW w \in Nat, NEW v \in Nat, w # v,
         NEW p \in Lo(n, w)..(Hi(n, w) - 1)
  PROVE  p \notin Lo(n, v)..(Hi(n, v) - 1)
<1>1. /\ Lo(n, w) \in Nat /\ Lo(n, v) \in Nat /\ Lo(n, w + 1) \in Nat /\ Lo(n, v + 1) \in Nat
      /\ Hi(n, w) = Lo(n, w + 1) /\ Hi(n, v) = Lo(n, v + 1)
  <2>1. w + 1 \in Nat /\ v + 1 \in Nat OBVIOUS
  <2>2. QED BY <2>1, ShardStarts
<1>2. CASE w < v
  <2>1. w + 1 \in Nat /\ w + 1 <= v BY <1>2
  <2>2. Lo(n, w + 1) <= Lo(n, v) BY <2>1, ShardStarts
  <2>3. QED BY <1>1, <2>2
<1>3. CASE v < w
  <2>1. v + 1 \in Nat /\ v + 1 <= w BY <1>3
  <2>2. Lo(n, v + 1) <= Lo(n, w) BY <2>1, ShardStarts
  <2>3. QED BY <1>1, <2>2
<1>4. QED BY <1>2, <1>3

\* A shard ends where its items do.
LEMMA ShardWithin ==
  ASSUME NEW n \in Nat, NEW w \in Active(n)
  PROVE  /\ w \in Nat /\ w + 1 \in Nat /\ w < Shards(n)
         /\ Lo(n, w) \in Nat /\ Hi(n, w) \in Nat
         /\ Lo(n, w) <= Hi(n, w) /\ Hi(n, w) <= n
<1>1. Shards(n) \in Nat \ {0} BY ShardCount
<1>2. w \in Nat /\ w + 1 \in Nat /\ w < Shards(n) /\ w + 1 <= Shards(n) BY <1>1 DEF Active
<1>3. Lo(n, w) \in Nat /\ Lo(n, w + 1) \in Nat /\ Hi(n, w) = Lo(n, w + 1) BY <1>2, ShardStarts
<1>4. Lo(n, w) <= Lo(n, w + 1) BY <1>2, ShardStarts
<1>5. Lo(n, w + 1) <= Lo(n, Shards(n)) BY <1>1, <1>2, ShardStarts
<1>6. Lo(n, Shards(n)) = n BY ShardStarts
<1>7. QED BY <1>2, <1>3, <1>4, <1>5, <1>6

-----------------------------------------------------------------------------
(***************************************************************************)
(* One block of a map.                                                     *)
(***************************************************************************)
\* Of some candidate shifts one is the nearest, the first met of equals.
LEMMA NearestExists ==
  ASSUME NEW cs, cs # {},
         \A c \in cs : c.key[1] \in Nat /\ c.key[2] \in Nat
  PROVE  \E c \in cs : \A c2 \in cs : Nearer(c.key, c2.key)
<1> DEFINE K == {c.key[1] : c \in cs}
<1>1. K \subseteq Nat /\ K # {} OBVIOUS
<1> HIDE DEF K
<1>2. PICK n \in K : \A m \in K : n <= m BY <1>1, LeastNat
<1> USE DEF K
<1> DEFINE near == {c \in cs : c.key[1] = n}
           L    == {c.key[2] : c \in near}
<1>3. n \in Nat /\ near # {} BY <1>1, <1>2
<1>4. L \subseteq Nat /\ L # {} BY <1>3
<1> HIDE DEF L
<1>5. PICK l \in L : \A m \in L : l <= m BY <1>4, LeastNat
<1> USE DEF L
<1>6. PICK c \in near : c.key[2] = l BY <1>5
<1>7. c \in cs /\ c.key[1] = n /\ c.key[2] = l BY <1>6
<1>8. ASSUME NEW c2 \in cs PROVE Nearer(c.key, c2.key)
  <2>1. c2.key[1] \in Nat /\ n <= c2.key[1] BY <1>2
  <2>2. CASE c2.key[1] = n
    <3>1. c2.key[2] \in L BY <2>2
    <3>2. l <= c2.key[2] BY <1>5, <3>1
    <3>3. QED BY <1>7, <2>2, <3>2 DEF Nearer
  <2>3. CASE c2.key[1] # n
    <3>1. n < c2.key[1] BY <1>3, <2>1, <2>3
    <3>2. QED BY <1>7, <3>1 DEF Nearer
  <2>4. QED BY <2>2, <2>3
<1>9. QED BY <1>7, <1>8

\* The windows an index of the whole section finds are positions in it.
LEMMA FoundIs ==
  ASSUME NEW j \in MapJobs, ~TooShort(j), NEW h
  PROVE  Found(WinIndex(j), h) \subseteq 0..(NumWindows(j) - 1)
BY DEF Found, WinIndex, Windows

\* A candidate is a shift at which the block was found, with its key.
LEMMA CandidatesAre ==
  ASSUME NEW j \in MapJobs, ~TooShort(j), NEW o \in Nat, NEW prev \in Int,
         NEW c \in Candidates(j, WinIndex(j), o, prev)
  PROVE  c.d \in Int /\ MatchAt(j, o, c.d) /\ c.key[1] \in Nat /\ c.key[2] \in Nat
<1> DEFINE qs == o..Min({o + j.block + Lookahead, Len(j.old) - j.block})
           ps(q) == Found(WinIndex(j), WindowHash(Cut(j.old, q, q + j.block)))
           lo(q) == {p \in ps(q) : p < q + prev}
           hi(q) == ps(q) \ lo(q)
           Near(q) == IF Cardinality(ps(q)) >= MaxOccur THEN {}
             ELSE (IF lo(q) = {} THEN {} ELSE {[d |-> Max(lo(q)) - q, n |-> 2 * q]})
                  \cup (IF hi(q) = {} THEN {} ELSE {[d |-> Min(hi(q)) - q, n |-> 2 * q + 1]})
           Dist(d) == IF d > prev THEN d - prev ELSE prev - d
<1>1. Candidates(j, WinIndex(j), o, prev)
        = {[d |-> e.d, key |-> <<Dist(e.d), e.n>>] :
             e \in {e \in UNION {Near(q) : q \in qs} : Verified(j, o, prev, e.d)}}
  BY DEF Candidates
<1>2. NumWindows(j) \in Nat BY JobSizes
<1>3. ASSUME NEW q \in qs, NEW e \in Near(q) PROVE e.d \in Int /\ e.n \in Nat
  <2>1. q \in Nat OBVIOUS
  <2>2. ps(q) \subseteq 0..(NumWindows(j) - 1) BY FoundIs
  <2>3. lo(q) # {} => Max(lo(q)) \in lo(q)
    <3>1. lo(q) \subseteq 0..(NumWindows(j) - 1) BY <2>2
    <3> HIDE DEF lo
    <3>2. 0 \in Int /\ NumWindows(j) - 1 \in Int BY <1>2
    <3>3. QED BY <3>1, <3>2, MinMaxOf
  <2>4. hi(q) # {} => Min(hi(q)) \in hi(q)
    <3>1. hi(q) \subseteq 0..(NumWindows(j) - 1) BY <2>2
    <3> HIDE DEF hi
    <3>2. 0 \in Int /\ NumWindows(j) - 1 \in Int BY <1>2
    <3>3. QED BY <3>1, <3>2, MinMaxOf
  <2>5. lo(q) # {} => Max(lo(q)) \in Int BY <2>2, <2>3
  <2>6. hi(q) # {} => Min(hi(q)) \in Int BY <2>2, <2>4
  <2> HIDE DEF lo, hi
  <2>7. \/ lo(q) # {} /\ e = [d |-> Max(lo(q)) - q, n |-> 2 * q]
        \/ hi(q) # {} /\ e = [d |-> Min(hi(q)) - q, n |-> 2 * q + 1]
    BY <1>3
  <2>8. QED BY <2>1, <2>5, <2>6, <2>7
<1> HIDE DEF qs, Near, Dist
<1>4. PICK q \in qs : \E e \in Near(q) :
        Verified(j, o, prev, e.d) /\ c = [d |-> e.d, key |-> <<Dist(e.d), e.n>>]
  BY <1>1
<1>5. PICK e \in Near(q) :
        Verified(j, o, prev, e.d) /\ c = [d |-> e.d, key |-> <<Dist(e.d), e.n>>]
  BY <1>4
<1>6. e.d \in Int /\ e.n \in Nat BY <1>3
<1>7. Dist(e.d) \in Nat BY <1>6 DEF Dist
<1>8. c.d = e.d /\ c.key[1] = Dist(e.d) /\ c.key[2] = e.n BY <1>5
<1>9. QED BY <1>5, <1>6, <1>7, <1>8 DEF Verified

\* Step gives a block; one that counts as matched is where it says, and an
\* ambiguous one does not count.
LEMMA StepIs ==
  ASSUME NEW j \in MapJobs, ~TooShort(j), NEW i \in Nat, NEW prev \in Int
  PROVE  /\ Step(j, WinIndex(j), i, prev) \in Block
         /\ Step(j, WinIndex(j), i, prev).m =>
              MatchAt(j, i * j.block, Step(j, WinIndex(j), i, prev).d)
         /\ Step(j, WinIndex(j), i, prev).a => ~Step(j, WinIndex(j), i, prev).m
<1> DEFINE o    == i * j.block
           cs   == Candidates(j, WinIndex(j), o, prev)
           best == (CHOOSE c \in cs : \A c2 \in cs : Nearer(c.key, c2.key)).d
           b    == Step(j, WinIndex(j), i, prev)
<1>1. o \in Nat
  <2>1. j.block \in Nat BY JobSizes
  <2>2. QED BY <2>1
<1>2. cs # {} => best \in Int /\ MatchAt(j, o, best)
  <2>1. SUFFICES ASSUME cs # {} PROVE best \in Int /\ MatchAt(j, o, best) OBVIOUS
  <2>2. \A c \in cs : c.d \in Int /\ MatchAt(j, o, c.d) /\ c.key[1] \in Nat /\ c.key[2] \in Nat
    BY <1>1, CandidatesAre
  <2> HIDE DEF cs
  <2>3. \E c \in cs : \A c2 \in cs : Nearer(c.key, c2.key) BY <2>1, <2>2, NearestExists
  <2>4. PICK c \in cs : c = CHOOSE c1 \in cs : \A c2 \in cs : Nearer(c1.key, c2.key) BY <2>3
  <2>5. QED BY <2>2, <2>4
<1>3. \/ b = [d |-> prev, m |-> FALSE, a |-> FALSE]
      \/ b = [d |-> prev, m |-> TRUE, a |-> FALSE] /\ MatchAt(j, o, prev)
      \/ b = [d |-> prev, m |-> FALSE, a |-> Overflows(j, WinIndex(j), o)]
      \/ b = [d |-> best, m |-> TRUE, a |-> FALSE] /\ cs # {}
  BY DEF Step
<1>4. Overflows(j, WinIndex(j), o) \in BOOLEAN BY DEF Overflows
<1> HIDE DEF o, cs, best, b
<1>5. CASE b = [d |-> prev, m |-> FALSE, a |-> Overflows(j, WinIndex(j), o)]
  BY <1>4, <1>5 DEF Block, b
<1>6. CASE b = [d |-> best, m |-> TRUE, a |-> FALSE] /\ cs # {}
  BY <1>2, <1>6 DEF Block, b, o
<1>7. CASE b = [d |-> prev, m |-> TRUE, a |-> FALSE] /\ MatchAt(j, o, prev)
  BY <1>7 DEF Block, b, o
<1>8. CASE b = [d |-> prev, m |-> FALSE, a |-> FALSE] BY <1>8 DEF Block, b
<1>9. QED BY <1>3, <1>5, <1>6, <1>7, <1>8

\* A sequence of n blocks, each of which follows from the one before.
IsPass(j, x, n, bs) ==
  /\ bs = [i \in 1..n |-> bs[i]]
  /\ n > 0 => bs[1] = Step(j, x, 0, 0)
  /\ \A k \in 1..(n - 1) : bs[k + 1] = Step(j, x, k, bs[k].d)

\* A sequence of blocks each of which follows from the one before is the
\* single pass's.
LEMMA PassIs ==
  ASSUME NEW j, NEW x, NEW n \in Nat, NEW bs, IsPass(j, x, n, bs)
  PROVE  Pass(j, x, n) = bs
<1>0. /\ bs = [i \in 1..n |-> bs[i]]
      /\ n > 0 => bs[1] = Step(j, x, 0, 0)
      /\ \A k \in 1..(n - 1) : bs[k + 1] = Step(j, x, k, bs[k].d)
  BY DEF IsPass
<1> DEFINE V     == {bs[k] : k \in 1..n}
           Is(f) == f = [i \in 0..n |->
                      IF i = 0 THEN <<>>
                      ELSE Append(f[i - 1], Step(j, x, i - 1, IF i = 1 THEN 0 ELSE f[i - 1][i - 1].d))]
           u     == CHOOSE f : Is(f)
           v     == [i \in 0..n |-> [k \in 1..i |-> bs[k]]]
<1>1. ASSUME NEW i \in 1..n
      PROVE  Append(v[i - 1], Step(j, x, i - 1, IF i = 1 THEN 0 ELSE v[i - 1][i - 1].d)) = v[i]
  <2>1. i - 1 \in 0..n /\ i - 1 \in Nat /\ i \in 0..n OBVIOUS
  <2>2. v[i - 1] = [k \in 1..(i - 1) |-> bs[k]] /\ v[i] = [k \in 1..i |-> bs[k]] BY <2>1
  <2>3. v[i - 1] \in [1..(i - 1) -> V] BY <2>2
  <2>4. v[i - 1] \in Seq(V) /\ Len(v[i - 1]) = i - 1 BY <2>1, <2>3
  <2>5. Step(j, x, i - 1, IF i = 1 THEN 0 ELSE v[i - 1][i - 1].d) = bs[i]
    <3>1. CASE i = 1 BY <1>0, <3>1
    <3>2. CASE i # 1
      <4>1. i - 1 \in 1..(n - 1) /\ i - 1 \in 1..(i - 1) /\ (i - 1) + 1 = i BY <3>2
      <4>2. bs[(i - 1) + 1] = Step(j, x, i - 1, bs[i - 1].d) BY <1>0, <4>1
      <4>3. v[i - 1][i - 1] = bs[i - 1] BY <2>2, <4>1
      <4>4. QED BY <3>2, <4>1, <4>2, <4>3
    <3>3. QED BY <3>1, <3>2
  <2>6. bs[i] \in V OBVIOUS
  <2> HIDE DEF v, V
  <2>7. /\ Append(v[i - 1], bs[i]) \in Seq(V) /\ Len(Append(v[i - 1], bs[i])) = i
        /\ \A k \in 1..(i - 1) : Append(v[i - 1], bs[i])[k] = v[i - 1][k]
        /\ Append(v[i - 1], bs[i])[i] = bs[i]
    BY <2>1, <2>4, <2>6, AppendProperties
  <2>8. \A k \in 1..i : Append(v[i - 1], bs[i])[k] = bs[k]
    <3> TAKE k \in 1..i
    <3>1. CASE k = i BY <2>7, <3>1
    <3>2. CASE k # i
      <4>1. k \in 1..(i - 1) BY <3>2
      <4>2. QED BY <2>2, <2>7, <4>1
    <3>3. QED BY <3>1, <3>2
  <2>9. Append(v[i - 1], bs[i]) = [k \in 1..i |-> bs[k]] BY <2>7, <2>8
  <2>10. QED BY <2>2, <2>5, <2>9
<1>2. v[0] = <<>> OBVIOUS
<1>3. v[n] = bs
  <2>1. n \in 0..n OBVIOUS
  <2>2. v[n] = [k \in 1..n |-> bs[k]] BY <2>1
  <2> HIDE DEF v
  <2>3. QED BY <1>0, <2>2
<1>4. v = [i \in 0..n |-> v[i]] OBVIOUS
<1>5. Pass(j, x, n) = u[n] BY DEF Pass
<1> HIDE DEF v
<1>6. Is(v)
  <2>1. ASSUME NEW i \in 0..n
        PROVE  v[i] = IF i = 0 THEN <<>>
                      ELSE Append(v[i - 1], Step(j, x, i - 1, IF i = 1 THEN 0 ELSE v[i - 1][i - 1].d))
    <3>1. CASE i = 0 BY <1>2, <3>1
    <3>2. CASE i # 0
      <4>1. i \in 1..n BY <3>2
      <4>2. QED BY <1>1, <3>2, <4>1
    <3>3. QED BY <3>1, <3>2
  <2>2. QED BY <1>4, <2>1
<1>7. Is(u) BY <1>6
<1> HIDE DEF u
<1>8. \A i \in 0..n : u[i] =
        IF i = 0 THEN <<>>
        ELSE Append(u[i - 1], Step(j, x, i - 1, IF i = 1 THEN 0 ELSE u[i - 1][i - 1].d))
  BY <1>7
<1> DEFINE T == {i \in 0..n : u[i] # v[i]}
<1>9. T = {}
  <2>1. SUFFICES ASSUME T # {} PROVE FALSE OBVIOUS
  <2>2. T \subseteq Nat OBVIOUS
  <2>3. PICK i \in T : \A m \in T : i <= m
    <3> HIDE DEF T
    <3>1. QED BY <2>1, <2>2, LeastNat
  <2>4. i \in 0..n /\ u[i] # v[i] BY <2>3
  <2>5. i # 0 BY <1>2, <1>8, <2>4
  <2>6. i \in 1..n /\ i - 1 \in 0..n /\ ~(i <= i - 1) BY <2>4, <2>5
  <2>7. u[i - 1] = v[i - 1] BY <2>3, <2>6
  <2>8. u[i] = Append(u[i - 1], Step(j, x, i - 1, IF i = 1 THEN 0 ELSE u[i - 1][i - 1].d))
    BY <1>8, <2>4, <2>5
  <2>9. QED BY <1>1, <2>4, <2>6, <2>7, <2>8
<1>10. QED BY <1>3, <1>5, <1>9

\* The backward pass leaves every block's match and all the others' shifts.
LEMMA ResolvedIs ==
  ASSUME NEW j, NEW n \in Nat, NEW bs \in [1..n -> Block]
  PROVE  /\ Len(Resolved(j, bs)) = n
         /\ \A i \in 1..n : /\ Resolved(j, bs)[i].m = bs[i].m
                            /\ ~bs[i].a => Resolved(j, bs)[i] = bs[i]
<1>1. Len(bs) = n OBVIOUS
<1>2. Len(Resolved(j, bs)) = n BY <1>1 DEF Resolved
<1>3. ASSUME NEW i \in 1..n
      PROVE  /\ Resolved(j, bs)[i].m = bs[i].m
             /\ ~bs[i].a => Resolved(j, bs)[i] = bs[i]
  <2>1. bs[i] \in Block OBVIOUS
  <2>2. \A x : [bs[i] EXCEPT !.d = x].m = bs[i].m BY <2>1 DEF Block
  <2>3. \/ Resolved(j, bs)[i] = bs[i]
        \/ bs[i].a /\ \E x : Resolved(j, bs)[i] = [bs[i] EXCEPT !.d = x]
    BY <1>1 DEF Resolved
  <2>4. QED BY <2>2, <2>3
<1>4. QED BY <1>2, <1>3

-----------------------------------------------------------------------------
(***************************************************************************)
(* The goroutines.                                                         *)
(***************************************************************************)
LEMMA MapInvInit == MapInit \/ MapIdle => MapInv
<1>1. CASE MapIdle BY <1>1 DEF MapIdle, MapInv
<1>2. CASE MapInit
  <2>1. mjob \in MapJobs /\ ~TooShort(mjob) /\ mstage = "index" /\ ix = {}
        /\ mcur = [w \in MW |-> -1] /\ mblocks = [i \in 1..NB |-> Unset]
    BY <1>2 DEF MapInit, NB
  <2>2. Unset \in Block BY DEF Unset, Block
  <2>3. MapTyped BY <2>1, <2>2 DEF MapTyped
  <2>4. NumWindows(mjob) \in Nat BY <2>1, JobSizes
  <2>5. \A w \in Active(NumWindows(mjob)) : mcur[w] # 0 BY <2>1, <2>4, ShardCount
  <2>6. Indexing BY <2>1, <2>5 DEF Indexing
  <2>7. QED BY <2>1, <2>3, <2>6 DEF MapInv, Passing, Repaired, Finished
<1>3. QED BY <1>1, <1>2

\* A goroutine indexes its range.
LEMMA IndexShardStep ==
  ASSUME MapInv, NEW w \in MW, IndexShard(w)
  PROVE  MapInv'
<1> DEFINE n == NumWindows(mjob)
<1>1. /\ MapTyped /\ Indexing /\ mstage = "index" /\ w \in Active(n) /\ mcur[w] = -1
      /\ ix' = ix \cup Windows(mjob, Lo(n, w), Hi(n, w)) /\ mcur' = [mcur EXCEPT ![w] = 0]
      /\ mjob' = mjob /\ mstage' = mstage /\ mblocks' = mblocks
  BY DEF IndexShard, MapInv
<1>2. MapTyped' BY <1>1 DEF MapTyped, NB
<1>3. /\ mcur \in [MW -> {-1, 0}]
      /\ \A e : e \in ix <=> \E v \in Active(n) : mcur[v] = 0 /\ e \in Windows(mjob, Lo(n, v), Hi(n, v))
  BY <1>1 DEF Indexing
<1>4. Active(n) \subseteq MW BY <1>1, JobSizes, ShardCount DEF MapTyped
<1>5. mcur' \in [MW -> {-1, 0}] BY <1>1, <1>3
<1>6. \A v \in Active(n) : mcur'[v] = 0 <=> (v = w \/ mcur[v] = 0) BY <1>1, <1>3, <1>4
<1> HIDE DEF n
<1>7. \A e : e \in ix' <=>
        \E v \in Active(n) : mcur'[v] = 0 /\ e \in Windows(mjob, Lo(n, v), Hi(n, v))
  BY <1>1, <1>3, <1>6
<1>8. Indexing' BY <1>1, <1>5, <1>7 DEF Indexing, n
<1>9. QED BY <1>1, <1>2, <1>8 DEF MapInv, Passing, Repaired, Finished

\* The index is complete.
LEMMA IndexBuiltStep ==
  ASSUME MapInv, IndexBuilt
  PROVE  MapInv'
<1> DEFINE n == NumWindows(mjob)
<1>1. /\ MapTyped /\ Indexing /\ mstage = "index" /\ \A w \in Active(n) : mcur[w] = 0
      /\ mcur' = [w \in MW |-> Lo(NB, w)] /\ mstage' = "pass"
      /\ mjob' = mjob /\ ix' = ix /\ mblocks' = mblocks
  BY DEF IndexBuilt, MapInv, NB
<1>2. MapTyped' BY <1>1 DEF MapTyped, NB
<1>3. n \in Nat /\ NB \in Nat BY <1>1, JobSizes DEF MapTyped, NB
<1>4. \A e : e \in ix <=> \E w \in Active(n) : e \in Windows(mjob, Lo(n, w), Hi(n, w))
  BY <1>1 DEF Indexing
<1>5. ASSUME NEW e, e \in WinIndex(mjob) PROVE e \in ix
  <2> DEFINE Entry(p) == <<WindowHash(Cut(mjob.new, p, p + mjob.block)), p>>
  <2>1. PICK p \in 0..(n - 1) : e = Entry(p) BY <1>5 DEF WinIndex, Windows
  <2>2. PICK w \in Active(n) : p \in Lo(n, w)..(Hi(n, w) - 1) BY <1>3, ShardsCover
  <2>3. Entry(p) \in Windows(mjob, Lo(n, w), Hi(n, w)) BY <2>2 DEF Windows
  <2>4. QED BY <1>4, <2>1, <2>3
<1>6. ASSUME NEW e \in ix PROVE e \in WinIndex(mjob)
  <2> DEFINE Entry(p) == <<WindowHash(Cut(mjob.new, p, p + mjob.block)), p>>
  <2>1. PICK w \in Active(n) : e \in Windows(mjob, Lo(n, w), Hi(n, w)) BY <1>4
  <2>2. PICK p \in Lo(n, w)..(Hi(n, w) - 1) : e = Entry(p) BY <2>1 DEF Windows
  <2>3. Lo(n, w) \in Nat /\ Hi(n, w) \in Nat /\ Hi(n, w) <= n BY <1>3, ShardWithin
  <2>4. p \in 0..(n - 1) BY <1>3, <2>2, <2>3
  <2>5. QED BY <2>2, <2>4 DEF WinIndex, Windows
<1>7. Indexing' BY <1>1, <1>5, <1>6 DEF Indexing
<1>8. ASSUME NEW w \in Active(NB)
      PROVE  mcur'[w] = Lo(NB, w) /\ Lo(NB, w) \in Nat /\ Lo(NB, w) <= Hi(NB, w)
  <2>1. w \in MW BY <1>3, ShardCount
  <2>2. QED BY <1>1, <1>3, <2>1, ShardWithin
<1>9. mcur' \in [MW -> Int]
  <2>1. \A w \in MW : w \in Nat BY DEF MW
  <2>2. QED BY <1>1, <1>3, <2>1, ShardStarts
<1>10. Passing'
  <2>1. NB' = NB BY <1>1 DEF NB
  <2>2. ASSUME NEW w \in Active(NB)
        PROVE  /\ Lo(NB, w) <= mcur'[w] /\ mcur'[w] <= Hi(NB, w)
               /\ \A k \in Lo(NB, w)..(mcur'[w] - 1) : FALSE
    BY <1>8
  <2>3. QED BY <1>9, <2>1, <2>2 DEF Passing
<1>11. QED BY <1>1, <1>2, <1>7, <1>10 DEF MapInv, Repaired, Finished

\* A goroutine computes the next block of its shard.
LEMMA ShardStepStep ==
  ASSUME MapInv, NEW w \in MW, ShardStep(w)
  PROVE  MapInv'
<1>0. PICK i : i = mcur[w] OBVIOUS
<1> DEFINE n == NB
           b == Step(mjob, ix, i, IF i = Lo(n, w) THEN 0 ELSE mblocks[i].d)
<1>1. /\ MapTyped /\ Indexing /\ Passing /\ mstage = "pass" /\ w \in Active(n) /\ i < Hi(n, w)
      /\ mblocks' = [mblocks EXCEPT ![i + 1] = b] /\ mcur' = [mcur EXCEPT ![w] = i + 1]
      /\ mjob' = mjob /\ ix' = ix /\ mstage' = mstage
  BY <1>0 DEF ShardStep, MapInv, NB
<1>2. mjob \in MapJobs /\ ~TooShort(mjob) /\ mblocks \in [1..n -> Block] /\ ix = WinIndex(mjob)
  BY <1>1 DEF MapTyped, Indexing
<1>3. n \in Nat BY <1>2, JobSizes DEF NB
<1>4. /\ mcur \in [MW -> Int]
      /\ \A v \in Active(n) :
           /\ Lo(n, v) <= mcur[v] /\ mcur[v] <= Hi(n, v)
           /\ \A k \in Lo(n, v)..(mcur[v] - 1) :
                IF k = Lo(n, v) THEN FromZero(mblocks, k) ELSE FromPrev(mblocks, k)
  BY <1>1 DEF Passing
<1>5. /\ w \in Nat /\ Lo(n, w) \in Nat /\ Hi(n, w) \in Nat /\ Hi(n, w) <= n
  BY <1>1, <1>3, ShardWithin
<1>6. i \in Nat /\ Lo(n, w) <= i /\ i + 1 \in 1..n /\ i \in Lo(n, w)..(Hi(n, w) - 1)
  <2>1. w \in MW /\ i \in Int BY <1>0, <1>4
  <2>2. Lo(n, w) <= i /\ i < Hi(n, w) BY <1>0, <1>1, <1>4
  <2> HIDE DEF n
  <2>3. QED BY <1>3, <1>5, <2>1, <2>2
<1> HIDE DEF n
<1>7. b \in Block
  <2>1. CASE i = Lo(n, w)
    <3>1. b = Step(mjob, ix, i, 0) BY <2>1
    <3>2. QED BY <1>2, <1>6, <3>1, StepIs
  <2>2. CASE i # Lo(n, w)
    <3>1. i \in 1..n BY <1>3, <1>5, <1>6, <2>2
    <3>2. mblocks[i].d \in Int BY <1>2, <3>1 DEF Block
    <3>3. b = Step(mjob, ix, i, mblocks[i].d) BY <2>2
    <3>4. QED BY <1>2, <1>6, <3>2, <3>3, StepIs
  <2>3. QED BY <2>1, <2>2
<1> DEFINE nb == b
<1>8. /\ mblocks' \in [1..n -> Block] /\ mblocks'[i + 1] = nb
      /\ \A k \in 1..n : k # i + 1 => mblocks'[k] = mblocks[k]
  <2> HIDE DEF nb
  <2>1. mblocks' = [mblocks EXCEPT ![i + 1] = nb] BY <1>1 DEF nb, n
  <2>2. nb \in Block BY <1>7 DEF nb
  <2>3. i + 1 \in 1..n BY <1>6
  <2>4. mblocks \in [1..n -> Block] BY <1>2
  <2>5. QED BY <2>1, <2>2, <2>3, <2>4
<1>9. NB' = n BY <1>1 DEF NB, n
<1>10. MapTyped' BY <1>1, <1>2, <1>8, <1>9 DEF MapTyped
<1>11. mcur' \in [MW -> Int] /\ mcur'[w] = i + 1 /\ \A v \in MW : v # w => mcur'[v] = mcur[v]
  BY <1>0, <1>1, <1>4, <1>6
<1>12. ASSUME NEW v \in Active(n)
       PROVE  /\ Lo(n, v) <= mcur'[v] /\ mcur'[v] <= Hi(n, v)
              /\ \A k \in Lo(n, v)..(mcur'[v] - 1) :
                   IF k = Lo(n, v) THEN FromZero(mblocks, k)' ELSE FromPrev(mblocks, k)'
  <2>1. v \in Nat /\ v \in MW /\ Lo(n, v) \in Nat /\ Hi(n, v) \in Nat /\ Hi(n, v) <= n
    BY <1>3, ShardWithin, ShardCount
  <2>2. mcur[v] \in Int /\ mcur[v] <= n
    <3>1. mcur[v] \in Int /\ mcur[v] <= Hi(n, v) BY <1>4, <2>1
    <3>2. QED BY <1>3, <2>1, <3>1
  <2>3. ASSUME NEW k \in Lo(n, v)..(mcur[v] - 1), k # i
        PROVE  IF k = Lo(n, v) THEN FromZero(mblocks, k)' ELSE FromPrev(mblocks, k)'
    <3>1. k \in Nat /\ k + 1 # i + 1 /\ k + 1 \in 1..n BY <1>3, <1>6, <2>1, <2>2, <2>3
    <3>2. mblocks'[k + 1] = mblocks[k + 1] BY <1>8, <3>1
    <3>3. CASE k = Lo(n, v)
      <4>1. FromZero(mblocks, k) BY <1>4, <3>3
      <4>2. QED BY <1>1, <3>2, <3>3, <4>1 DEF FromZero
    <3>4. CASE k # Lo(n, v)
      <4>1. FromPrev(mblocks, k) BY <1>4, <3>4
      <4>2. k # i + 1
        <5>1. CASE v = w BY <1>0, <1>6, <2>1, <2>2, <5>1
        <5>2. CASE v # w
          <6>1. i \notin Lo(n, v)..(Hi(n, v) - 1) BY <1>3, <1>5, <1>6, <2>1, <5>2, ShardsApart
          <6>2. mcur[v] <= Hi(n, v) BY <1>4
          <6>3. QED BY <1>6, <2>1, <2>2, <3>4, <6>1, <6>2
        <5>3. QED BY <5>1, <5>2
      <4>3. mblocks'[k] = mblocks[k]
        <5>1. k \in 1..n BY <1>3, <2>1, <2>2, <3>4
        <5>2. QED BY <1>8, <4>2, <5>1
      <4>4. QED BY <1>1, <3>2, <3>4, <4>1, <4>3 DEF FromPrev
    <3>5. QED BY <3>3, <3>4
  <2>4. CASE v # w
    <3>1. mcur'[v] = mcur[v] BY <1>11, <2>1, <2>4
    <3>2. i \notin Lo(n, v)..(Hi(n, v) - 1) BY <1>3, <1>5, <1>6, <2>1, <2>4, ShardsApart
    <3>3. Lo(n, v) <= mcur[v] /\ mcur[v] <= Hi(n, v) BY <1>4
    <3>4. \A k \in Lo(n, v)..(mcur[v] - 1) : k # i BY <2>1, <2>2, <3>2, <3>3
    <3>5. QED BY <2>3, <3>1, <3>3, <3>4
  <2>5. CASE v = w
    <3>1. mcur'[v] = i + 1 /\ mcur[v] = i BY <1>0, <1>11, <2>5
    <3>2. Lo(n, v) <= i + 1 /\ i + 1 <= Hi(n, v) BY <1>5, <1>6, <2>5
    <3>3. IF i = Lo(n, v) THEN FromZero(mblocks, i)' ELSE FromPrev(mblocks, i)'
      <4>1. mblocks'[i + 1] = nb BY <1>8
      <4>2. CASE i = Lo(n, v)
        <5>1. nb = Step(mjob, ix, i, 0) BY <2>5, <4>2
        <5>2. QED BY <1>1, <2>5, <4>1, <4>2, <5>1 DEF FromZero
      <4>3. CASE i # Lo(n, v)
        <5>1. nb = Step(mjob, ix, i, mblocks[i].d) BY <2>5, <4>3
        <5>2. mblocks'[i] = mblocks[i]
          <6>1. i \in 1..n /\ i # i + 1 BY <1>3, <1>5, <1>6, <2>5, <4>3
          <6>2. QED BY <1>8, <6>1
        <5>3. QED BY <1>1, <2>5, <4>1, <4>3, <5>1, <5>2 DEF FromPrev
      <4>4. QED BY <4>2, <4>3
    <3>4. \A k \in Lo(n, v)..((i + 1) - 1) : k = i \/ k \in Lo(n, v)..(mcur[v] - 1)
      BY <1>6, <2>1, <3>1
    <3>5. QED BY <2>3, <3>1, <3>2, <3>3, <3>4
  <2>6. QED BY <2>4, <2>5
<1>13. Passing' BY <1>9, <1>11, <1>12 DEF Passing
<1>14. Indexing' BY <1>1, <1>2 DEF Indexing
<1>15. QED BY <1>1, <1>10, <1>13, <1>14 DEF MapInv, Repaired, Finished

\* The pass is over: only the heads of the shards after the first are open.
LEMMA PassDoneStep ==
  ASSUME MapInv, PassDone
  PROVE  MapInv'
<1> DEFINE n == NB
           s == Shards(n)
<1>1. /\ MapTyped /\ Indexing /\ Passing /\ mstage = "pass" /\ mstage' = "repair"
      /\ \A w \in Active(n) : mcur[w] >= Hi(n, w)
      /\ mfix' = [w |-> 1, i |-> Lo(n, 1)]
      /\ mjob' = mjob /\ ix' = ix /\ mblocks' = mblocks
  BY DEF PassDone, MapInv, NB
<1>2. NB' = n BY <1>1 DEF NB
<1>3. MapTyped' /\ Indexing' BY <1>1, <1>2 DEF MapTyped, Indexing
<1>4. n \in Nat /\ s \in Nat \ {0}
  <2>1. n \in Nat BY <1>1, JobSizes DEF MapTyped, NB
  <2>2. QED BY <2>1, ShardCount
<1>5. \A w \in Active(n) :
        /\ mcur[w] \in Int /\ mcur[w] >= Hi(n, w)
        /\ \A k \in Lo(n, w)..(mcur[w] - 1) :
             IF k = Lo(n, w) THEN FromZero(mblocks, k) ELSE FromPrev(mblocks, k)
  <2>1. Active(n) \subseteq MW BY <1>4, ShardCount
  <2>2. QED BY <1>1, <2>1 DEF Passing
<1> HIDE DEF n
<1>6. ASSUME NEW k \in 0..(n - 1),
             k = 0 \/ (k # Lo(n, 1) /\ \A v \in 2..(s - 1) : k # Lo(n, v))
      PROVE  Right(mblocks, k)
  <2>1. PICK w \in Active(n) : k \in Lo(n, w)..(Hi(n, w) - 1) BY <1>4, ShardsCover
  <2>2. w \in Nat /\ w < s /\ Lo(n, w) \in Nat /\ Hi(n, w) \in Nat BY <1>4, ShardWithin
  <2>3. k \in Lo(n, w)..(mcur[w] - 1)
    <3>1. mcur[w] \in Int /\ mcur[w] >= Hi(n, w) BY <1>5
    <3>2. QED BY <2>1, <2>2, <3>1
  <2>4. IF k = Lo(n, w) THEN FromZero(mblocks, k) ELSE FromPrev(mblocks, k) BY <1>5, <2>3
  <2>5. CASE k = Lo(n, w)
    <3>1. k = 0
      <4>1. CASE w = 0 BY <1>4, <2>5, <4>1, ShardStarts
      <4>2. CASE w = 1 BY <1>6, <2>5, <4>2
      <4>3. CASE w # 0 /\ w # 1
        <5>1. w \in 2..(s - 1) BY <1>4, <2>2, <4>3
        <5>2. QED BY <1>6, <2>5, <5>1
      <4>4. QED BY <4>1, <4>2, <4>3
    <3>2. QED BY <2>4, <2>5, <3>1 DEF Right
  <2>6. CASE k # Lo(n, w)
    <3>1. k # 0 BY <2>2, <2>3, <2>6
    <3>2. QED BY <2>4, <2>6, <3>1 DEF Right
  <2>7. QED BY <2>5, <2>6
<1>7. Lo(n, 1) \in Nat /\ (1 < s => Lo(n, 1) <= Hi(n, 1))
  <2>1. Lo(n, 1) \in Nat BY <1>4, ShardStarts
  <2>2. 1 < s => 1 \in Active(n) BY <1>4 DEF Active
  <2>3. QED BY <1>4, <2>1, <2>2, ShardWithin
<1>8. /\ mfix' \in [w : Nat, i : Nat] /\ mfix'.w >= 1 /\ mfix'.w <= s
      /\ Lo(n, mfix'.w) <= mfix'.i
      /\ mfix'.w < s => mfix'.i <= Hi(n, mfix'.w) /\ (Lo(n, mfix'.w) = 0 => mfix'.i = 0)
  <2>1. mfix'.w = 1 /\ mfix'.i = Lo(n, 1) /\ mfix' \in [w : Nat, i : Nat] BY <1>1, <1>7
  <2>2. QED BY <1>4, <1>7, <2>1
<1>9. \A k \in 0..(n - 1) :
        (k = 0 \/ (k # mfix'.i /\ \A v \in (mfix'.w + 1)..(s - 1) : k # Lo(n, v)))
          => Right(mblocks, k)'
  <2>1. mfix'.i = Lo(n, 1) /\ mfix'.w + 1 = 2 BY <1>1
  <2>2. \A k : Right(mblocks, k)' <=> Right(mblocks, k) BY <1>1 DEF Right, FromZero, FromPrev
  <2>3. QED BY <1>6, <2>1, <2>2
<1>10. Repaired' BY <1>2, <1>8, <1>9 DEF Repaired
<1>11. QED BY <1>1, <1>3, <1>10 DEF MapInv, Passing, Finished

\* Where the repair is.
LEMMA RepairAt ==
  ASSUME MapInv, Repairing
  PROVE  /\ MapTyped /\ Indexing /\ mstage = "repair" /\ NB \in Nat
         /\ mjob \in MapJobs /\ ~TooShort(mjob) /\ ix = WinIndex(mjob)
         /\ mblocks \in [1..NB -> Block]
         /\ Shards(NB) \in Nat \ {0} /\ mfix.w \in Nat /\ mfix.i \in Nat
         /\ mfix \in [w : Nat, i : Nat] /\ mfix.w \in Active(NB) /\ mfix.w >= 1
         /\ Lo(NB, mfix.w) <= mfix.i /\ mfix.i <= Hi(NB, mfix.w)
         /\ Lo(NB, mfix.w) = 0 => mfix.i = 0
         /\ Lo(NB, mfix.w) \in Nat /\ Hi(NB, mfix.w) \in Nat /\ Hi(NB, mfix.w) <= NB
         /\ \A k \in 0..(NB - 1) :
              (k = 0 \/ (k # mfix.i /\ \A v \in (mfix.w + 1)..(Shards(NB) - 1) : k # Lo(NB, v)))
                => Right(mblocks, k)
         /\ mjob' = mjob /\ mstage' = mstage /\ ix' = ix /\ NB' = NB
<1>1. /\ MapTyped /\ Indexing /\ Repaired /\ mstage = "repair" /\ mfix.w < Shards(NB)
      /\ mjob' = mjob /\ mstage' = mstage /\ ix' = ix
  BY DEF Repairing, MapInv, NB
<1>2. mjob \in MapJobs /\ ~TooShort(mjob) /\ mblocks \in [1..NB -> Block] /\ ix = WinIndex(mjob)
  BY <1>1 DEF MapTyped, Indexing
<1>3. NB \in Nat BY <1>2, JobSizes DEF NB
<1>4. Shards(NB) \in Nat \ {0} BY <1>3, ShardCount
<1>5. mfix \in [w : Nat, i : Nat] /\ mfix.w >= 1 /\ Lo(NB, mfix.w) <= mfix.i
      /\ mfix.i <= Hi(NB, mfix.w) /\ (Lo(NB, mfix.w) = 0 => mfix.i = 0)
  BY <1>1 DEF Repaired
<1>6. mfix.w \in Nat /\ mfix.i \in Nat BY <1>5
<1>7. mfix.w \in Active(NB) BY <1>1, <1>4, <1>5, <1>6 DEF Active
<1>8. Lo(NB, mfix.w) \in Nat /\ Hi(NB, mfix.w) \in Nat /\ Hi(NB, mfix.w) <= NB
  BY <1>3, <1>7, ShardWithin
<1>9. NB' = NB BY <1>1 DEF NB
<1>10. \A k \in 0..(NB - 1) :
         (k = 0 \/ (k # mfix.i /\ \A v \in (mfix.w + 1)..(Shards(NB) - 1) : k # Lo(NB, v)))
           => Right(mblocks, k)
  BY <1>1 DEF Repaired
<1>11. QED BY <1>1, <1>2, <1>3, <1>4, <1>5, <1>6, <1>7, <1>8, <1>9, <1>10

\* On to the next shard: what was open there is what is open now.
LEMMA NextShardStep ==
  ASSUME MapInv, Repairing, NextShard, mblocks' = mblocks,
         \/ mfix.i = 0
         \/ mfix.i = Hi(NB, mfix.w)
         \/ mfix.i < NB /\ Right(mblocks, mfix.i)
  PROVE  MapInv'
<1>1. PICK w : w = mfix.w OBVIOUS
<1>2. PICK i : i = mfix.i OBVIOUS
<1>3. /\ MapTyped /\ Indexing /\ mstage = "repair" /\ NB \in Nat
      /\ Shards(NB) \in Nat \ {0} /\ w \in Nat /\ i \in Nat
      /\ w \in Active(NB) /\ w >= 1 /\ w < Shards(NB)
      /\ Hi(NB, w) = Lo(NB, w + 1) /\ Lo(NB, w + 1) \in Nat
      /\ mjob' = mjob /\ mstage' = mstage /\ ix' = ix /\ NB' = NB
  <2>1. /\ MapTyped /\ Indexing /\ mstage = "repair" /\ NB \in Nat
        /\ Shards(NB) \in Nat \ {0} /\ w \in Nat /\ i \in Nat /\ w \in Active(NB) /\ w >= 1
        /\ mjob' = mjob /\ mstage' = mstage /\ ix' = ix /\ NB' = NB
    BY <1>1, <1>2, RepairAt
  <2>2. w + 1 \in Nat /\ w < Shards(NB) BY <2>1, ShardWithin
  <2>3. Hi(NB, w) = Lo(NB, w + 1) /\ Lo(NB, w + 1) \in Nat BY <2>1, <2>2, ShardStarts
  <2>4. QED BY <2>1, <2>2, <2>3
<1>4. mfix' = [w |-> w + 1, i |-> Lo(NB, w + 1)] BY <1>1 DEF NextShard, NB
<1>5. MapTyped' /\ Indexing' BY <1>3 DEF MapTyped, Indexing
<1>6. w + 1 < Shards(NB) => Lo(NB, w + 1) <= Hi(NB, w + 1)
  <2>1. w + 1 < Shards(NB) => w + 1 \in Active(NB) BY <1>3 DEF Active
  <2>2. QED BY <1>3, <2>1, ShardWithin
<1>7. /\ mfix' \in [w : Nat, i : Nat] /\ mfix'.w >= 1 /\ mfix'.w <= Shards(NB)
      /\ Lo(NB, mfix'.w) <= mfix'.i
      /\ mfix'.w < Shards(NB) =>
           mfix'.i <= Hi(NB, mfix'.w) /\ (Lo(NB, mfix'.w) = 0 => mfix'.i = 0)
  <2>1. mfix'.w = w + 1 /\ mfix'.i = Lo(NB, w + 1) /\ w + 1 \in Nat BY <1>3, <1>4
  <2>2. mfix' \in [w : Nat, i : Nat] BY <1>3, <1>4, <2>1
  <2>3. QED BY <1>3, <1>6, <2>1, <2>2
<1>8. \A k : Right(mblocks, k)' <=> Right(mblocks, k)
  BY <1>3 DEF Right, FromZero, FromPrev
<1>9. ASSUME NEW k \in 0..(NB - 1),
             k = 0 \/ (k # Lo(NB, w + 1) /\ \A v \in ((w + 1) + 1)..(Shards(NB) - 1) : k # Lo(NB, v))
      PROVE  Right(mblocks, k)
  <2>1. CASE k = i /\ k # 0
    <3>1. i # Hi(NB, w) BY <1>3, <1>9, <2>1
    <3>2. QED BY <1>1, <1>2, <2>1, <3>1
  <2>2. CASE k # i \/ k = 0
    <3>1. k = 0 \/ \A v \in (w + 1)..(Shards(NB) - 1) : k # Lo(NB, v)
      <4>1. \A v \in (w + 1)..(Shards(NB) - 1) : v = w + 1 \/ v \in ((w + 1) + 1)..(Shards(NB) - 1)
        BY <1>3
      <4>2. QED BY <1>9, <4>1
    <3>2. QED BY <1>1, <1>2, <2>2, <3>1, RepairAt
  <2>3. QED BY <2>1, <2>2
<1>10. Repaired'
  <2>1. mfix'.w = w + 1 /\ mfix'.i = Lo(NB, w + 1) BY <1>4
  <2>2. \A k \in 0..(NB - 1) :
          (k = 0 \/ (k # mfix'.i /\ \A v \in (mfix'.w + 1)..(Shards(NB) - 1) : k # Lo(NB, v)))
            => Right(mblocks, k)'
    BY <1>8, <1>9, <2>1
  <2>3. QED BY <1>3, <1>7, <2>2 DEF Repaired
<1>11. QED BY <1>3, <1>5, <1>10 DEF MapInv, Passing, Finished

\* A shard with nothing left to repair is passed over.
LEMMA SkipShardStep ==
  ASSUME MapInv, SkipShard
  PROVE  MapInv'
<1>1. /\ Repairing /\ NextShard /\ mblocks' = mblocks
      /\ Lo(NB, mfix.w) = 0 \/ mfix.i >= Hi(NB, mfix.w)
  BY DEF SkipShard, NB
<1>2. mfix.i \in Nat /\ Hi(NB, mfix.w) \in Nat /\ mfix.i <= Hi(NB, mfix.w)
      /\ (Lo(NB, mfix.w) = 0 => mfix.i = 0)
  BY <1>1, RepairAt
<1>3. mfix.i = 0 \/ mfix.i = Hi(NB, mfix.w) BY <1>1, <1>2
<1>4. QED BY <1>1, <1>3, NextShardStep

\* A block is computed again: it was right, or it is now and the next is open.
LEMMA RepairBlockStep ==
  ASSUME MapInv, RepairBlock
  PROVE  MapInv'
<1>1. PICK w : w = mfix.w OBVIOUS
<1>2. PICK i : i = mfix.i OBVIOUS
<1> DEFINE n == NB
           b == Step(mjob, ix, i, mblocks[i].d)
<1>3. /\ Repairing /\ Lo(n, w) # 0 /\ i < Hi(n, w)
      /\ IF b = mblocks[i + 1] THEN NextShard /\ mblocks' = mblocks
         ELSE /\ mblocks' = [mblocks EXCEPT ![i + 1] = b]
              /\ mfix' = [mfix EXCEPT !.i = i + 1]
  BY <1>1, <1>2 DEF RepairBlock, NB
<1>4. /\ MapTyped /\ Indexing /\ mstage = "repair" /\ n \in Nat
      /\ mjob \in MapJobs /\ ~TooShort(mjob) /\ ix = WinIndex(mjob)
      /\ mblocks \in [1..n -> Block]
      /\ w \in Nat /\ i \in Nat /\ mfix \in [w : Nat, i : Nat] /\ w >= 1 /\ w < Shards(n)
      /\ Lo(n, w) <= i /\ Lo(n, w) \in Nat /\ Hi(n, w) \in Nat /\ Hi(n, w) <= n
      /\ Shards(n) \in Nat
      /\ mjob' = mjob /\ mstage' = mstage /\ ix' = ix /\ NB' = n
  <2>1. w \in Active(n) /\ n \in Nat BY <1>1, <1>3, RepairAt
  <2>2. w < Shards(n) BY <2>1, ShardWithin
  <2>3. QED BY <1>1, <1>2, <1>3, <2>2, RepairAt
<1>5. \A k \in 0..(n - 1) :
        (k = 0 \/ (k # i /\ \A v \in (w + 1)..(Shards(n) - 1) : k # Lo(n, v))) => Right(mblocks, k)
  BY <1>1, <1>2, <1>3, RepairAt
<1> HIDE DEF n
<1>6. i \in 1..(n - 1) /\ i \in 1..n /\ i + 1 \in 1..n /\ i # i + 1 /\ i # 0 BY <1>3, <1>4
<1>7. CASE b = mblocks[i + 1]
  <2>1. Right(mblocks, i) BY <1>6, <1>7 DEF Right, FromPrev
  <2>2. i < NB BY <1>4, <1>6 DEF n
  <2>3. QED BY <1>2, <1>3, <1>7, <2>1, <2>2, NextShardStep
<1>8. CASE b # mblocks[i + 1]
  <2> DEFINE c == b
  <2>1. c \in Block
    <3>1. mblocks[i].d \in Int BY <1>4, <1>6 DEF Block
    <3>2. QED BY <1>4, <3>1, StepIs
  <2>2. mblocks' = [mblocks EXCEPT ![i + 1] = c] /\ mfix' = [mfix EXCEPT !.i = i + 1]
    BY <1>3, <1>8
  <2>3. c = Step(mjob, ix, i, mblocks[i].d) OBVIOUS
  <2> HIDE DEF b, c
  <2>4. /\ mblocks' \in [1..n -> Block] /\ mblocks'[i + 1] = c
        /\ \A k \in 1..n : k # i + 1 => mblocks'[k] = mblocks[k]
    BY <1>4, <1>6, <2>1, <2>2
  <2>5. mfix' = [w |-> w, i |-> i + 1] BY <1>1, <1>4, <2>2
  <2>6. mfix'.w = w /\ mfix'.i = i + 1 /\ mfix' \in [w : Nat, i : Nat] BY <1>4, <2>5
  <2>7. /\ mfix'.w >= 1 /\ mfix'.w <= Shards(n) /\ Lo(n, mfix'.w) <= mfix'.i
        /\ mfix'.i <= Hi(n, mfix'.w) /\ Lo(n, mfix'.w) # 0
    BY <1>3, <1>4, <2>6
  <2>8. ASSUME NEW k \in 0..(n - 1),
               k = 0 \/ (k # i + 1 /\ \A v \in (w + 1)..(Shards(n) - 1) : k # Lo(n, v))
        PROVE  Right(mblocks, k)'
    <3>1. CASE k = i
      <4>1. mblocks'[i] = mblocks[i] BY <1>6, <2>4
      <4>2. FromPrev(mblocks, k)' BY <1>4, <2>3, <2>4, <3>1, <4>1 DEF FromPrev
      <4>3. QED BY <1>6, <3>1, <4>2 DEF Right
    <3>2. CASE k # i
      <4>1. Right(mblocks, k) BY <1>5, <2>8, <3>2
      <4>2. k + 1 \in 1..n /\ k + 1 # i + 1 BY <1>4, <1>6, <3>2
      <4>3. mblocks'[k + 1] = mblocks[k + 1] BY <2>4, <4>2
      <4>4. CASE k = 0 BY <1>4, <4>1, <4>3, <4>4 DEF Right, FromZero
      <4>5. CASE k # 0
        <5>1. k \in 1..n /\ k # i + 1 BY <1>4, <2>8, <4>5
        <5>2. mblocks'[k] = mblocks[k] BY <2>4, <5>1
        <5>3. FromPrev(mblocks, k) BY <4>1, <4>5 DEF Right
        <5>4. FromPrev(mblocks, k)' BY <1>4, <4>3, <5>2, <5>3 DEF FromPrev
        <5>5. QED BY <4>5, <5>4 DEF Right
      <4>6. QED BY <4>4, <4>5
    <3>3. QED BY <3>1, <3>2
  <2>9. Repaired'
    <3>1. \A k \in 0..(n - 1) :
            (k = 0 \/ (k # mfix'.i /\ \A v \in (mfix'.w + 1)..(Shards(n) - 1) : k # Lo(n, v)))
              => Right(mblocks, k)'
      BY <2>6, <2>8
    <3>2. QED BY <1>4, <2>6, <2>7, <3>1 DEF Repaired
  <2>10. MapTyped' /\ Indexing' BY <1>4, <2>4 DEF MapTyped, Indexing
  <2>11. QED BY <1>4, <2>9, <2>10 DEF MapInv, Passing, Finished
<1>9. QED BY <1>7, <1>8

\* The repair is over: every block is right.
LEMMA ResolveStep ==
  ASSUME MapInv, ResolveAmbiguous
  PROVE  MapInv'
<1>1. /\ MapTyped /\ Indexing /\ Repaired /\ mstage = "repair" /\ mfix.w >= Shards(NB)
      /\ mstage' = "done" /\ mblocks' = Resolved(mjob, mblocks)
      /\ mjob' = mjob /\ ix' = ix
  BY DEF ResolveAmbiguous, MapInv, NB
<1>2. NB' = NB /\ MapTyped' /\ Indexing' BY <1>1 DEF NB, MapTyped, Indexing
<1>3. NB \in Nat BY <1>1, JobSizes DEF NB, MapTyped
<1>4. Shards(NB) \in Nat \ {0} BY <1>3, ShardCount
<1>5. /\ mfix \in [w : Nat, i : Nat] /\ mfix.w <= Shards(NB) /\ Lo(NB, mfix.w) <= mfix.i
      /\ \A k \in 0..(NB - 1) :
           (k = 0 \/ (k # mfix.i /\ \A v \in (mfix.w + 1)..(Shards(NB) - 1) : k # Lo(NB, v)))
             => Right(mblocks, k)
  BY <1>1 DEF Repaired
<1>6. mfix.w = Shards(NB) /\ mfix.i \in Nat BY <1>1, <1>4, <1>5
<1>7. Lo(NB, Shards(NB)) = NB BY <1>3, ShardStarts
<1>8. NB <= mfix.i BY <1>5, <1>6, <1>7
<1>9. ASSUME NEW k \in 0..(NB - 1) PROVE Right(mblocks, k)
  <2>1. k # mfix.i BY <1>3, <1>6, <1>8
  <2>2. \A v \in (mfix.w + 1)..(Shards(NB) - 1) : FALSE BY <1>4, <1>6
  <2>3. QED BY <1>5, <2>1, <2>2
<1>10. mblocks \in [1..NB -> Block] BY <1>1 DEF MapTyped
<1>12. PICK bs : bs = mblocks OBVIOUS
<1>13. \A k \in 0..(NB - 1) : Right(bs, k)'
  <2>1. ASSUME NEW k \in 0..(NB - 1) PROVE Right(bs, k)'
    <3>1. Right(bs, k) BY <1>9, <1>12
    <3>2. QED BY <1>1, <3>1 DEF Right, FromZero, FromPrev
  <2>2. QED BY <2>1
<1>14. Finished' BY <1>1, <1>2, <1>10, <1>12, <1>13 DEF Finished
<1>15. QED BY <1>1, <1>2, <1>14 DEF MapInv, Passing, Repaired

\* Every step of the construction keeps the invariant.
LEMMA MapInvStep == MapInv /\ [MapNext]_mvars => MapInv'
<1> SUFFICES ASSUME MapInv, [MapNext]_mvars PROVE MapInv' OBVIOUS
<1>1. CASE UNCHANGED mvars
  <2>1. /\ mjob' = mjob /\ mstage' = mstage /\ ix' = ix /\ mcur' = mcur /\ mfix' = mfix
        /\ mblocks' = mblocks
    BY <1>1 DEF mvars
  <2>2. NB' = NB BY <2>1 DEF NB
  <2>3. MapTyped => MapTyped' BY <2>1, <2>2 DEF MapTyped
  <2>4. Indexing => Indexing' BY <2>1 DEF Indexing
  <2>5. Passing => Passing' BY <2>1, <2>2 DEF Passing, FromZero, FromPrev
  <2>6. Repaired => Repaired' BY <2>1, <2>2 DEF Repaired, Right, FromZero, FromPrev
  <2>7. Finished => Finished' BY <2>1, <2>2 DEF Finished, Right, FromZero, FromPrev
  <2>8. QED BY <2>1, <2>3, <2>4, <2>5, <2>6, <2>7 DEF MapInv
<1>2. ASSUME NEW w \in MW, IndexShard(w) PROVE MapInv' BY <1>2, IndexShardStep
<1>3. ASSUME NEW w \in MW, ShardStep(w) PROVE MapInv' BY <1>3, ShardStepStep
<1>4. CASE IndexBuilt BY <1>4, IndexBuiltStep
<1>5. CASE PassDone BY <1>5, PassDoneStep
<1>6. CASE RepairBlock BY <1>6, RepairBlockStep
<1>7. CASE SkipShard BY <1>7, SkipShardStep
<1>8. CASE ResolveAmbiguous BY <1>8, ResolveStep
<1>9. QED BY <1>1, <1>2, <1>3, <1>4, <1>5, <1>6, <1>7, <1>8 DEF MapNext

-----------------------------------------------------------------------------
(***************************************************************************)
(* The goroutines' invariant, whatever order they run in.                  *)
(***************************************************************************)
THEOREM MapInvariant == MapSpec => []MapInv
<1>1. MapInit \/ MapIdle => MapInv BY MapInvInit
<1>2. MapInv /\ [MapNext]_mvars => MapInv' BY MapInvStep
<1>3. QED BY <1>1, <1>2, PTL DEF MapSpec

\* A finished map is a single pass's, block for block.
LEMMA FinishedIsPass ==
  ASSUME MapInv, mstage = "done"
  PROVE  /\ ~TooShort(mjob) /\ mjob \in MapJobs
         /\ \E bs \in [1..NB -> Block] :
              /\ mblocks = Resolved(mjob, bs)
              /\ Pass(mjob, WinIndex(mjob), NB) = bs
              /\ \A k \in 0..(NB - 1) : Right(bs, k)
<1>1. /\ mjob \in MapJobs /\ ~TooShort(mjob) /\ ix = WinIndex(mjob)
      /\ \E bs \in [1..NB -> Block] :
           (\A k \in 0..(NB - 1) : Right(bs, k)) /\ mblocks = Resolved(mjob, bs)
  BY DEF MapInv, MapTyped, Indexing, Finished
<1>2. NB \in Nat BY <1>1, JobSizes DEF NB
<1>3. PICK bs \in [1..NB -> Block] :
        (\A k \in 0..(NB - 1) : Right(bs, k)) /\ mblocks = Resolved(mjob, bs)
  BY <1>1
<1>4. NB > 0 => bs[1] = Step(mjob, WinIndex(mjob), 0, 0)
  <2>1. SUFFICES ASSUME NB > 0 PROVE bs[1] = Step(mjob, WinIndex(mjob), 0, 0) OBVIOUS
  <2>2. 0 \in 0..(NB - 1) BY <1>2, <2>1
  <2>3. Right(bs, 0) BY <1>3, <2>2
  <2>4. QED BY <1>1, <2>3 DEF Right, FromZero
<1>5. \A k \in 1..(NB - 1) : bs[k + 1] = Step(mjob, WinIndex(mjob), k, bs[k].d)
  <2> TAKE k \in 1..(NB - 1)
  <2>1. k \in 0..(NB - 1) /\ k # 0 BY <1>2
  <2>2. Right(bs, k) BY <1>3, <2>1
  <2>3. QED BY <1>1, <2>1, <2>2 DEF Right, FromPrev
<1>6. bs = [i \in 1..NB |-> bs[i]] OBVIOUS
<1>7. IsPass(mjob, WinIndex(mjob), NB, bs) BY <1>4, <1>5, <1>6 DEF IsPass
<1>8. Pass(mjob, WinIndex(mjob), NB) = bs BY <1>2, <1>7, PassIs
<1>9. QED BY <1>1, <1>3, <1>8

(***************************************************************************)
(* datamap.go's repair "makes the result identical to the sequential       *)
(* pass": for any job, any number of goroutines and any interleaving.      *)
(***************************************************************************)
THEOREM MapsShardsAgree == MapSpec => []ShardsAgree
<1>1. MapInv => ShardsAgree
  <2> SUFFICES ASSUME MapInv, mstage = "done" PROVE mblocks = BuildDataMap(mjob).b
    BY DEF ShardsAgree
  <2>1. ~TooShort(mjob) /\ mblocks = Resolved(mjob, Pass(mjob, WinIndex(mjob), NB))
    BY FinishedIsPass
  <2>2. QED BY <2>1 DEF BuildDataMap, NB
<1>2. QED BY <1>1, MapInvariant, PTL

(***************************************************************************)
(* A block the finished map counts as matched is in the new section at its *)
(* shift, up to the tolerance, whatever windows collide in the index.      *)
(***************************************************************************)
THEOREM MapsMatchedIsThere == MapSpec => []MatchedIsThere
<1>1. MapInv => MatchedIsThere
  <2> SUFFICES ASSUME MapInv, mstage = "done", NEW i \in 1..Len(mblocks), mblocks[i].m
               PROVE  MatchAt(mjob, (i - 1) * mjob.block, mblocks[i].d)
    BY DEF MatchedIsThere
  <2>1. PICK bs \in [1..NB -> Block] :
          mblocks = Resolved(mjob, bs) /\ \A k \in 0..(NB - 1) : Right(bs, k)
    BY FinishedIsPass
  <2>2. /\ mjob \in MapJobs /\ ~TooShort(mjob) /\ ix = WinIndex(mjob)
    BY DEF MapInv, MapTyped, Indexing
  <2>3. NB \in Nat BY <2>2, JobSizes DEF NB
  <2>4. i \in 1..NB /\ bs[i].m /\ (~bs[i].a => mblocks[i] = bs[i])
    BY <2>1, <2>3, ResolvedIs
  <2>5. PICK prev \in Int : bs[i] = Step(mjob, WinIndex(mjob), i - 1, prev)
    <3>1. i - 1 \in 0..(NB - 1) /\ (i - 1) + 1 = i BY <2>3, <2>4
    <3>2. Right(bs, i - 1) BY <2>1, <3>1
    <3>3. CASE i - 1 = 0 BY <2>2, <3>1, <3>2, <3>3 DEF Right, FromZero
    <3>4. CASE i - 1 # 0
      <4>1. i - 1 \in 1..NB BY <2>3, <3>1, <3>4
      <4>2. bs[i - 1].d \in Int BY <4>1 DEF Block
      <4>3. QED BY <2>2, <3>1, <3>2, <3>4, <4>2 DEF Right, FromPrev
    <3>5. QED BY <3>3, <3>4
  <2>6. i - 1 \in Nat BY <2>3, <2>4
  <2>7. bs[i].m /\ ~bs[i].a /\ MatchAt(mjob, (i - 1) * mjob.block, bs[i].d)
    BY <2>2, <2>4, <2>5, <2>6, StepIs
  <2>8. QED BY <2>4, <2>7
<1>2. QED BY <1>1, MapInvariant, PTL

-----------------------------------------------------------------------------
(***************************************************************************)
(* Bytes, their parts and their sums: the container and the blob.          *)
(***************************************************************************)
ByteStrings == Seq(Int)

\* b[i:j] in range, of a sequence of any values
LEMMA CutOf ==
  ASSUME NEW V, NEW b \in Seq(V), NEW i \in Nat, NEW j \in Nat, i <= j, j <= Len(b)
  PROVE  /\ Cut(b, i, j) \in Seq(V) /\ Len(Cut(b, i, j)) = j - i
         /\ \A k \in 1..(j - i) : Cut(b, i, j)[k] = b[i + k]
<1>1. \A k \in (i + 1)..j : b[k] \in V OBVIOUS
<1>2. i + 1 \in Int /\ j \in Int OBVIOUS
<1>3. /\ SubSeq(b, i + 1, j) \in Seq(V)
      /\ Len(SubSeq(b, i + 1, j)) = IF i + 1 <= j THEN j - (i + 1) + 1 ELSE 0
      /\ \A k \in 1 .. j - (i + 1) + 1 : SubSeq(b, i + 1, j)[k] = b[(i + 1) + k - 1]
  BY <1>1, <1>2, SubSeqProperties
<1>4. Len(Cut(b, i, j)) = j - i BY <1>3 DEF Cut
<1>5. ASSUME NEW k \in 1..(j - i) PROVE Cut(b, i, j)[k] = b[i + k]
  <2>1. k \in 1 .. j - (i + 1) + 1 /\ (i + 1) + k - 1 = i + k OBVIOUS
  <2>2. SubSeq(b, i + 1, j)[k] = b[(i + 1) + k - 1] BY <1>3, <2>1
  <2>3. QED BY <2>1, <2>2 DEF Cut
<1>6. QED BY <1>3, <1>4, <1>5 DEF Cut

\* and of a byte string.
LEMMA CutIs ==
  ASSUME NEW b \in ByteStrings, NEW i \in Nat, NEW j \in Nat, i <= j, j <= Len(b)
  PROVE  /\ Cut(b, i, j) \in ByteStrings /\ Len(Cut(b, i, j)) = j - i
         /\ \A k \in 1..(j - i) : Cut(b, i, j)[k] = b[i + k]
BY CutOf DEF ByteStrings

\* Two strings of one length that agree byte for byte.
LEMMA SameBytes ==
  ASSUME NEW s \in ByteStrings, NEW t \in ByteStrings, Len(s) = Len(t),
         \A k \in 1..Len(s) : s[k] = t[k]
  PROVE  s = t
BY SeqEqual DEF ByteStrings

\* What a concatenation holds, of any values
LEMMA JoinOf ==
  ASSUME NEW V, NEW s \in Seq(V), NEW t \in Seq(V)
  PROVE  /\ s \o t \in Seq(V) /\ Len(s \o t) = Len(s) + Len(t)
         /\ \A k \in 1..Len(s) : (s \o t)[k] = s[k]
         /\ \A k \in 1..Len(t) : (s \o t)[Len(s) + k] = t[k]
<1>1. /\ s \o t \in Seq(V) /\ Len(s \o t) = Len(s) + Len(t)
      /\ \A i \in 1 .. Len(s) + Len(t) : (s \o t)[i] = IF i <= Len(s) THEN s[i] ELSE t[i - Len(s)]
  BY ConcatProperties
<1>2. Len(s) \in Nat /\ Len(t) \in Nat BY LenProperties
<1>3. \A k \in 1..Len(s) : k \in 1 .. Len(s) + Len(t) /\ k <= Len(s) BY <1>2
<1>4. \A k \in 1..Len(t) : /\ Len(s) + k \in 1 .. Len(s) + Len(t)
                           /\ ~(Len(s) + k <= Len(s)) /\ (Len(s) + k) - Len(s) = k
  BY <1>2
<1>5. QED BY <1>1, <1>3, <1>4

\* and of byte strings.
LEMMA JoinIs ==
  ASSUME NEW s \in ByteStrings, NEW t \in ByteStrings
  PROVE  /\ s \o t \in ByteStrings /\ Len(s \o t) = Len(s) + Len(t)
         /\ \A k \in 1..Len(s) : (s \o t)[k] = s[k]
         /\ \A k \in 1..Len(t) : (s \o t)[Len(s) + k] = t[k]
BY JoinOf DEF ByteStrings

\* The parts of a concatenation.
LEMMA JoinParts ==
  ASSUME NEW s \in ByteStrings, NEW t \in ByteStrings
  PROVE  /\ Cut(s \o t, 0, Len(s)) = s
         /\ Cut(s \o t, Len(s), Len(s) + Len(t)) = t
         /\ \A i, j \in 0..Len(s) : i <= j => Cut(s \o t, i, j) = Cut(s, i, j)
<1>1. Len(s) \in Nat /\ Len(t) \in Nat BY LenProperties DEF ByteStrings
<1>2. s \o t \in ByteStrings /\ Len(s \o t) = Len(s) + Len(t) BY JoinIs
<1>3. ASSUME NEW i \in 0..Len(s), NEW j \in 0..Len(s), i <= j
      PROVE  Cut(s \o t, i, j) = Cut(s, i, j)
  <2>1. i \in Nat /\ j \in Nat /\ j <= Len(s \o t) /\ j <= Len(s) BY <1>1, <1>2
  <2>2. /\ Cut(s \o t, i, j) \in ByteStrings /\ Len(Cut(s \o t, i, j)) = j - i
        /\ \A k \in 1..(j - i) : Cut(s \o t, i, j)[k] = (s \o t)[i + k]
    BY <1>2, <1>3, <2>1, CutIs
  <2>3. /\ Cut(s, i, j) \in ByteStrings /\ Len(Cut(s, i, j)) = j - i
        /\ \A k \in 1..(j - i) : Cut(s, i, j)[k] = s[i + k]
    BY <1>3, <2>1, CutIs
  <2>4. \A k \in 1..(j - i) : i + k \in 1..Len(s) BY <1>1, <2>1
  <2>5. \A k \in 1..(j - i) : (s \o t)[i + k] = s[i + k] BY <2>4, JoinIs
  <2>6. QED BY <2>2, <2>3, <2>5, SameBytes
<1>4. Cut(s, 0, Len(s)) = s BY SubSeqFull DEF Cut, ByteStrings
<1>5. Cut(s \o t, 0, Len(s)) = s BY <1>1, <1>3, <1>4
<1>6. Cut(s \o t, Len(s), Len(s) + Len(t)) = t
  <2>1. PICK i, j : i = Len(s) /\ j = Len(s) + Len(t) OBVIOUS
  <2>2. i \in Nat /\ j \in Nat /\ i <= j /\ j <= Len(s \o t) /\ j - i = Len(t) BY <1>1, <1>2, <2>1
  <2>3. /\ Cut(s \o t, i, j) \in ByteStrings /\ Len(Cut(s \o t, i, j)) = j - i
        /\ \A k \in 1..(j - i) : Cut(s \o t, i, j)[k] = (s \o t)[i + k]
    BY <1>2, <2>2, CutIs
  <2>4. \A k \in 1..Len(t) : Cut(s \o t, i, j)[k] = t[k] BY <2>1, <2>2, <2>3, JoinIs
  <2>5. Cut(s \o t, i, j) = t BY <2>2, <2>3, <2>4, SameBytes
  <2>6. QED BY <2>1, <2>5
<1>7. QED BY <1>3, <1>5, <1>6

\* Adjacent parts of a string, put together.
LEMMA CutsJoin ==
  ASSUME NEW b \in ByteStrings, NEW i \in Nat, NEW j \in Nat, NEW m \in Nat,
         i <= j, j <= m, m <= Len(b)
  PROVE  Cut(b, i, j) \o Cut(b, j, m) = Cut(b, i, m)
<1>1. Len(b) \in Nat BY LenProperties DEF ByteStrings
<1>2. i + 1 \in 1 .. Len(b) + 1 /\ j \in (i + 1) - 1 .. Len(b) /\ m \in j .. Len(b) BY <1>1
<1>3. QED BY <1>2, ConcatAdjacentSubSeq DEF Cut, ByteStrings

\* All of a string.
LEMMA CutAll == ASSUME NEW b \in ByteStrings PROVE Cut(b, 0, Len(b)) = b
BY SubSeqFull DEF Cut, ByteStrings

\* f is the solution of a recurrence over 1..n.
Recurs(n, V, a, F, f) ==
  f \in [0..n -> V] /\ f[0] = a /\ \A i \in 1..n : f[i] = F[i, f[i - 1]]

\* A recurrence over 1..n has a solution.
LEMMA Unfolds ==
  ASSUME NEW n \in Nat, NEW V, NEW a \in V, NEW F \in [(1..n) \X V -> V]
  PROVE  \E f : Recurs(n, V, a, F, f)
<1> DEFINE P(m) == \E f \in [0..m -> V] : f[0] = a /\ \A i \in 1..m : f[i] = F[i, f[i - 1]]
           T == {m \in 0..n : ~P(m)}
<1>1. P(0)
  <2>1. [i \in 0..0 |-> a] \in [0..0 -> V] /\ [i \in 0..0 |-> a][0] = a OBVIOUS
  <2>2. \A i \in 1..0 : FALSE OBVIOUS
  <2>3. QED BY <2>1, <2>2
<1>2. ASSUME NEW m \in 1..n, P(m - 1) PROVE P(m)
  <2>1. PICK f \in [0..(m - 1) -> V] : f[0] = a /\ \A i \in 1..(m - 1) : f[i] = F[i, f[i - 1]]
    BY <1>2
  <2> DEFINE g == [i \in 0..m |-> IF i = m THEN F[m, f[m - 1]] ELSE f[i]]
  <2>2. m - 1 \in 0..(m - 1) OBVIOUS
  <2>3. f[m - 1] \in V BY <2>2
  <2>4. F[m, f[m - 1]] \in V BY <2>3
  <2>5. \A i \in 0..m : i # m => i \in 0..(m - 1) OBVIOUS
  <2>6. g \in [0..m -> V] BY <2>4, <2>5
  <2>7. g[0] = a
    <3>1. 0 \in 0..m /\ 0 # m OBVIOUS
    <3>2. QED BY <2>1, <3>1
  <2>8. ASSUME NEW i \in 1..m PROVE g[i] = F[i, g[i - 1]]
    <3>1. i \in 0..m /\ i - 1 \in 0..m /\ i - 1 # m OBVIOUS
    <3>2. g[i - 1] = f[i - 1] BY <3>1
    <3>3. CASE i = m BY <3>1, <3>2, <3>3
    <3>4. CASE i # m
      <4>1. i \in 1..(m - 1) BY <3>4
      <4>2. QED BY <2>1, <3>1, <3>2, <3>4, <4>1
    <3>5. QED BY <3>3, <3>4
  <2> HIDE DEF g
  <2>9. QED BY <2>6, <2>7, <2>8
<1> HIDE DEF P
<1>3. T = {}
  <2>1. SUFFICES ASSUME T # {} PROVE FALSE OBVIOUS
  <2>2. T \subseteq Nat OBVIOUS
  <2>3. PICK m \in T : \A k \in T : m <= k
    <3> HIDE DEF T
    <3>1. QED BY <2>1, <2>2, LeastNat
  <2>4. m \in 0..n /\ ~P(m) BY <2>3
  <2>5. m # 0 BY <1>1, <2>4
  <2>6. m \in 1..n /\ m - 1 \in 0..n /\ ~(m <= m - 1) BY <2>4, <2>5
  <2>7. P(m - 1) BY <2>3, <2>6
  <2>8. QED BY <1>2, <2>4, <2>6, <2>7
<1>4. P(n) BY <1>3
<1>5. QED BY <1>4 DEF P, Recurs

\* Running sums, and the sum of the first m of them.
SumsTo(n, s, t) ==
  /\ s \in [1..n -> Nat] /\ t \in [0..n -> Nat]
  /\ t[0] = 0 /\ \A i \in 1..n : t[i] = t[i - 1] + s[i]

\* Every list of numbers has its running sums,
LEMMA SumsExist ==
  ASSUME NEW n \in Nat, NEW s \in [1..n -> Nat]
  PROVE  \E t \in [0..n -> Nat] : SumsTo(n, s, t)
<1> DEFINE F == [q \in (1..n) \X Nat |-> q[2] + s[q[1]]]
<1>1. F \in [(1..n) \X Nat -> Nat] OBVIOUS
<1>2. \A i \in 1..n, x \in Nat : F[i, x] = x + s[i] OBVIOUS
<1> HIDE DEF F
<1>3. PICK t : Recurs(n, Nat, 0, F, t) BY <1>1, Unfolds
<1>4. t \in [0..n -> Nat] /\ t[0] = 0 /\ \A i \in 1..n : t[i] = F[i, t[i - 1]]
  BY <1>3 DEF Recurs
<1>5. \A i \in 1..n : t[i] = t[i - 1] + s[i]
  <2> TAKE i \in 1..n
  <2>1. i - 1 \in 0..n OBVIOUS
  <2>2. t[i - 1] \in Nat BY <1>4, <2>1
  <2>3. QED BY <1>2, <1>4, <2>2
<1>6. QED BY <1>4, <1>5 DEF SumsTo

\* which never decrease,
LEMMA SumsGrow ==
  ASSUME NEW n \in Nat, NEW s, NEW t, SumsTo(n, s, t),
         NEW i \in 0..n, NEW m \in 0..n, i <= m
  PROVE  t[i] <= t[m]
<1> DEFINE T == {k \in i..n : ~(t[i] <= t[k])}
<1>1. t \in [0..n -> Nat] /\ \A k \in 1..n : t[k] = t[k - 1] + s[k] /\ s[k] \in Nat BY DEF SumsTo
<1>2. T = {}
  <2>1. SUFFICES ASSUME T # {} PROVE FALSE OBVIOUS
  <2>2. T \subseteq Nat OBVIOUS
  <2>3. PICK k \in T : \A l \in T : k <= l
    <3> HIDE DEF T
    <3>1. QED BY <2>1, <2>2, LeastNat
  <2>4. k \in i..n /\ ~(t[i] <= t[k]) BY <2>3
  <2>5. k # i BY <1>1, <2>4
  <2>6. k - 1 \in i..n /\ k \in 1..n /\ k - 1 \in 0..n /\ ~(k <= k - 1) BY <2>4, <2>5
  <2>7. t[i] <= t[k - 1] BY <2>3, <2>6
  <2>8. t[k] = t[k - 1] + s[k] /\ s[k] \in Nat /\ t[k - 1] \in Nat /\ t[i] \in Nat BY <1>1, <2>6
  <2>9. QED BY <2>4, <2>7, <2>8
<1>3. QED BY <1>2

\* and which are what Total adds up to.
LEMMA TotalIs ==
  ASSUME NEW n \in Nat, NEW s, NEW t, SumsTo(n, s, t), NEW m \in 0..n
  PROVE  Total([j \in 1..m |-> s[j]]) = t[m]
<1> DEFINE p == [j \in 1..m |-> s[j]]
           Is(f) == f = [i \in 0..Len(p) |-> IF i = 0 THEN 0 ELSE f[i - 1] + p[i]]
           u == CHOOSE f : Is(f)
           v == [i \in 0..m |-> t[i]]
<1>0. /\ s \in [1..n -> Nat] /\ t \in [0..n -> Nat] /\ t[0] = 0
      /\ \A i \in 1..n : t[i] = t[i - 1] + s[i]
  BY DEF SumsTo
<1>1. p \in Seq(Nat) /\ Len(p) = m
  <2>1. m \in Nat /\ p \in [1..m -> Nat] BY <1>0
  <2>2. QED BY <2>1
<1>2. Total(p) = u[m] BY <1>1 DEF Total
<1>3. Is(v)
  <2>1. ASSUME NEW i \in 0..m PROVE v[i] = IF i = 0 THEN 0 ELSE v[i - 1] + p[i]
    <3>1. i \in 0..n /\ v[i] = t[i] OBVIOUS
    <3>2. CASE i = 0 BY <1>0, <3>1, <3>2
    <3>3. CASE i # 0
      <4>1. i \in 1..n /\ i \in 1..m /\ i - 1 \in 0..m BY <3>3
      <4>2. v[i - 1] = t[i - 1] /\ p[i] = s[i] BY <4>1
      <4>3. QED BY <1>0, <3>1, <3>3, <4>1, <4>2
    <3>4. QED BY <3>2, <3>3
  <2>2. QED BY <1>1, <2>1
<1>4. Is(u) BY <1>3
<1> HIDE DEF u
<1>5. \A i \in 0..m : u[i] = IF i = 0 THEN 0 ELSE u[i - 1] + p[i] BY <1>1, <1>4
<1>6. \A i \in 0..m : v[i] = IF i = 0 THEN 0 ELSE v[i - 1] + p[i] BY <1>1, <1>3
<1> HIDE DEF v, p
<1> DEFINE T == {i \in 0..m : u[i] # v[i]}
<1>7. T = {}
  <2>1. SUFFICES ASSUME T # {} PROVE FALSE OBVIOUS
  <2>2. T \subseteq Nat OBVIOUS
  <2>3. PICK i \in T : \A k \in T : i <= k
    <3> HIDE DEF T
    <3>1. QED BY <2>1, <2>2, LeastNat
  <2>4. i \in 0..m /\ u[i] # v[i] BY <2>3
  <2>5. i # 0 BY <1>5, <1>6, <2>4
  <2>6. i - 1 \in 0..m /\ ~(i <= i - 1) BY <2>4, <2>5
  <2>7. u[i - 1] = v[i - 1] BY <2>3, <2>6
  <2>8. QED BY <1>5, <1>6, <2>4, <2>5, <2>7
<1>8. u[m] = v[m] /\ v[m] = t[m]
  <2>1. m \in 0..m OBVIOUS
  <2>2. u[m] = v[m] BY <1>7, <2>1
  <2>3. v[m] = t[m] BY <2>1 DEF v
  <2>4. QED BY <2>2, <2>3
<1>9. QED BY <1>2, <1>8 DEF p

\* The concatenations of the first i of n strings.
JoinsTo(n, s, c) ==
  /\ s \in [1..n -> ByteStrings] /\ c \in [0..n -> ByteStrings]
  /\ c[0] = <<>> /\ \A i \in 1..n : c[i] = c[i - 1] \o s[i]

\* Every list of strings has its running concatenations,
LEMMA JoinsExist ==
  ASSUME NEW n \in Nat, NEW s \in [1..n -> ByteStrings]
  PROVE  \E c : JoinsTo(n, s, c)
<1> DEFINE F == [q \in (1..n) \X ByteStrings |-> q[2] \o s[q[1]]]
<1>1. \A i \in 1..n, x \in ByteStrings : x \o s[i] \in ByteStrings BY JoinIs
<1>2. F \in [(1..n) \X ByteStrings -> ByteStrings] BY <1>1
<1>3. \A i \in 1..n, x \in ByteStrings : F[i, x] = x \o s[i] OBVIOUS
<1>4. <<>> \in ByteStrings BY EmptySeq DEF ByteStrings
<1> HIDE DEF F
<1>5. PICK c : Recurs(n, ByteStrings, <<>>, F, c) BY <1>2, <1>4, Unfolds
<1>6. /\ c \in [0..n -> ByteStrings] /\ c[0] = <<>>
      /\ \A i \in 1..n : c[i] = F[i, c[i - 1]]
  BY <1>5 DEF Recurs
<1>7. \A i \in 1..n : c[i] = c[i - 1] \o s[i]
  <2> TAKE i \in 1..n
  <2>1. i - 1 \in 0..n OBVIOUS
  <2>2. c[i - 1] \in ByteStrings BY <1>6, <2>1
  <2>3. QED BY <1>3, <1>6, <2>2
<1>8. QED BY <1>6, <1>7 DEF JoinsTo

\* the last of which is what FlattenSeq gives.
LEMMA FlattenIs ==
  ASSUME NEW n \in Nat, n # 0, NEW s, NEW c, JoinsTo(n, s, c)
  PROVE  FlattenSeq(s) = c[n]
<1> DEFINE Is(f) == f = [i \in 1..Len(s) |-> IF i = 1 THEN s[i] ELSE f[i - 1] \o s[i]]
           u == CHOOSE f : Is(f)
           v == [i \in 1..n |-> c[i]]
<1>0. /\ s \in [1..n -> ByteStrings] /\ c \in [0..n -> ByteStrings] /\ c[0] = <<>>
      /\ \A i \in 1..n : c[i] = c[i - 1] \o s[i]
  BY DEF JoinsTo
<1>1. Len(s) = n BY <1>0
<1>2. FlattenSeq(s) = u[n] BY <1>1 DEF FlattenSeq
<1>3. Is(v)
  <2>1. ASSUME NEW i \in 1..n PROVE v[i] = IF i = 1 THEN s[i] ELSE v[i - 1] \o s[i]
    <3>1. v[i] = c[i] /\ c[i] = c[i - 1] \o s[i] /\ s[i] \in ByteStrings BY <1>0
    <3>2. CASE i = 1
      <4>1. <<>> \o s[i] = s[i] BY <3>1, ConcatEmptySeq DEF ByteStrings
      <4>2. c[i - 1] = <<>> BY <1>0, <3>2
      <4>3. QED BY <3>1, <3>2, <4>1, <4>2
    <3>3. CASE i # 1
      <4>1. i - 1 \in 1..n BY <3>3
      <4>2. v[i - 1] = c[i - 1] BY <4>1
      <4>3. QED BY <3>1, <3>3, <4>2
    <3>4. QED BY <3>2, <3>3
  <2>2. QED BY <1>1, <2>1
<1>4. Is(u) BY <1>3
<1> HIDE DEF u
<1>5. \A i \in 1..n : u[i] = IF i = 1 THEN s[i] ELSE u[i - 1] \o s[i] BY <1>1, <1>4
<1>6. \A i \in 1..n : v[i] = IF i = 1 THEN s[i] ELSE v[i - 1] \o s[i] BY <1>1, <1>3
<1>7. v[n] = c[n] OBVIOUS
<1> HIDE DEF v
<1> DEFINE T == {i \in 1..n : u[i] # v[i]}
<1>8. T = {}
  <2>1. SUFFICES ASSUME T # {} PROVE FALSE OBVIOUS
  <2>2. T \subseteq Nat OBVIOUS
  <2>3. PICK i \in T : \A k \in T : i <= k
    <3> HIDE DEF T
    <3>1. QED BY <2>1, <2>2, LeastNat
  <2>4. i \in 1..n /\ u[i] # v[i] BY <2>3
  <2>5. i # 1 BY <1>5, <1>6, <2>4
  <2>6. i - 1 \in 1..n /\ ~(i <= i - 1) BY <2>4, <2>5
  <2>7. u[i - 1] = v[i - 1] BY <2>3, <2>6
  <2>8. QED BY <1>5, <1>6, <2>4, <2>5, <2>7
<1>9. u[n] = v[n] BY <1>8
<1>10. QED BY <1>2, <1>7, <1>9

\* The lengths of strings, and the strings found at the sums of them.
Lengths(n, s) == [i \in 1..n |-> Len(s[i])]
PartsAt(m, s, c, t) == Len(c[m]) = t[m] /\ \A i \in 1..m : Cut(c[m], t[i - 1], t[i]) = s[i]

\* Where each of the concatenated strings is.
LEMMA JoinsAt ==
  ASSUME NEW n \in Nat, NEW s, NEW c, JoinsTo(n, s, c),
         NEW t, SumsTo(n, Lengths(n, s), t), NEW m \in 0..n
  PROVE  PartsAt(m, s, c, t)
<1> DEFINE P(k) == Len(c[k]) = t[k] /\ \A i \in 1..k : Cut(c[k], t[i - 1], t[i]) = s[i]
           T == {k \in 0..n : ~P(k)}
<1>1. /\ s \in [1..n -> ByteStrings] /\ c \in [0..n -> ByteStrings] /\ c[0] = <<>>
      /\ \A i \in 1..n : c[i] = c[i - 1] \o s[i]
  BY DEF JoinsTo
<1>2. /\ t \in [0..n -> Nat] /\ t[0] = 0
      /\ \A i \in 1..n : t[i] = t[i - 1] + Len(s[i])
  BY DEF SumsTo, Lengths
<1>3. P(0)
  <2>1. Len(c[0]) = 0 BY <1>1
  <2>2. \A i \in 1..0 : FALSE OBVIOUS
  <2>3. QED BY <1>2, <2>1, <2>2
<1>4. ASSUME NEW k \in 1..n, P(k - 1) PROVE P(k)
  <2>1. k - 1 \in 0..n /\ k \in 0..n OBVIOUS
  <2>2. /\ c[k - 1] \in ByteStrings /\ s[k] \in ByteStrings /\ c[k] = c[k - 1] \o s[k]
        /\ t[k - 1] \in Nat /\ t[k] \in Nat /\ t[k] = t[k - 1] + Len(s[k])
        /\ Len(c[k - 1]) = t[k - 1]
    BY <1>1, <1>2, <1>4, <2>1
  <2>3. PICK a \in ByteStrings, b \in ByteStrings : a = c[k - 1] /\ b = s[k] BY <2>2
  <2>4. c[k] = a \o b /\ Len(a) = t[k - 1] /\ t[k] = Len(a) + Len(b) /\ Len(a) \in Nat
    BY <2>2, <2>3
  <2>5. /\ Len(a \o b) = Len(a) + Len(b) /\ Cut(a \o b, Len(a), Len(a) + Len(b)) = b
        /\ \A i, j \in 0..Len(a) : i <= j => Cut(a \o b, i, j) = Cut(a, i, j)
    BY JoinIs, JoinParts
  <2>6. Len(c[k]) = t[k] BY <2>4, <2>5
  <2>7. Cut(c[k], t[k - 1], t[k]) = s[k] BY <2>3, <2>4, <2>5
  <2>8. ASSUME NEW i \in 1..(k - 1) PROVE Cut(c[k], t[i - 1], t[i]) = s[i]
    <3>1. i \in 0..n /\ i - 1 \in 0..n /\ i - 1 <= i /\ i <= k - 1 OBVIOUS
    <3>2. t[i - 1] <= t[i] /\ t[i] <= t[k - 1] BY <2>1, <3>1, SumsGrow
    <3>3. t[i - 1] \in 0..Len(a) /\ t[i] \in 0..Len(a) BY <1>2, <2>4, <3>1, <3>2
    <3>4. Cut(c[k], t[i - 1], t[i]) = Cut(a, t[i - 1], t[i])
      BY <2>4, <2>5, <3>2, <3>3
    <3>5. QED BY <1>4, <2>3, <3>4
  <2>9. \A i \in 1..k : i = k \/ i \in 1..(k - 1) OBVIOUS
  <2>10. QED BY <2>6, <2>7, <2>8, <2>9
<1> HIDE DEF P
<1>5. T = {}
  <2>1. SUFFICES ASSUME T # {} PROVE FALSE OBVIOUS
  <2>2. T \subseteq Nat OBVIOUS
  <2>3. PICK k \in T : \A l \in T : k <= l
    <3> HIDE DEF T
    <3>1. QED BY <2>1, <2>2, LeastNat
  <2>4. k \in 0..n /\ ~P(k) BY <2>3
  <2>5. k # 0 BY <1>3, <2>4
  <2>6. k \in 1..n /\ k - 1 \in 0..n /\ ~(k <= k - 1) BY <2>4, <2>5
  <2>7. P(k - 1) BY <2>3, <2>6
  <2>8. QED BY <1>4, <2>4, <2>6, <2>7
<1>6. P(m) BY <1>5
<1>7. QED BY <1>6 DEF P, PartsAt

-----------------------------------------------------------------------------
(***************************************************************************)
(* Frames.                                                                 *)
(***************************************************************************)
\* A compressed chunk: not empty unless the chunk is, and it decompresses.
LEMMA CompressIs ==
  ASSUME NEW c \in ByteStrings, Lossless(c)
  PROVE  /\ Compress(c).z \in ByteStrings
         /\ c # <<>> => Compress(c).z # <<>>
         /\ Decompress(Compress(c).codec, Compress(c).z, Len(c)) = Ok(c)
<1> DEFINE z == zstdEncode(c)
           r == brotliEncode(c, Quality(c))
<1>1. /\ z \in Seq(Int) /\ zstdDecode(z) = Ok(c) /\ r \in Seq(Int) /\ brotliDecode(r) = Ok(c)
      /\ c # <<>> => z # <<>> /\ r # <<>>
  BY DEF Lossless
<1>2. \/ Compress(c) = [codec |-> Raw, z |-> c]
      \/ Compress(c) = [codec |-> Zstd, z |-> z]
      \/ Compress(c) = [codec |-> Brotli, z |-> r]
  BY DEF Compress
<1> HIDE DEF z, r
<1>3. Ok(c).ok /\ Ok(c).out = c BY DEF Ok
<1>4. CASE Compress(c) = [codec |-> Raw, z |-> c]
  <2>1. Compress(c).z = c /\ Compress(c).codec = Raw BY <1>4
  <2>2. Decompress(Raw, c, Len(c)) = Ok(c) BY <1>3 DEF Decompress, Raw, Zstd, Brotli
  <2>3. QED BY <2>1, <2>2
<1>5. CASE Compress(c) = [codec |-> Zstd, z |-> z]
  <2>1. Compress(c).z = z /\ Compress(c).codec = Zstd BY <1>5
  <2>2. zstdDecode(z).ok /\ Len(zstdDecode(z).out) = Len(c) BY <1>1, <1>3
  <2>3. Decompress(Zstd, z, Len(c)) = zstdDecode(z) BY <2>2 DEF Decompress, Raw, Zstd, Brotli
  <2>4. QED BY <1>1, <2>1, <2>3 DEF ByteStrings
<1>6. CASE Compress(c) = [codec |-> Brotli, z |-> r]
  <2>1. Compress(c).z = r /\ Compress(c).codec = Brotli BY <1>6
  <2>2. brotliDecode(r).ok /\ Len(brotliDecode(r).out) = Len(c) BY <1>1, <1>3
  <2>3. Decompress(Brotli, r, Len(c)) = brotliDecode(r) BY <2>2 DEF Decompress, Raw, Zstd, Brotli
  <2>4. QED BY <1>1, <2>1, <2>3 DEF ByteStrings
<1>7. QED BY <1>2, <1>4, <1>5, <1>6

\* Where frame i of b starts and ends.
FrameEnd(b, i) == IF i * FrameSize <= Len(b) THEN i * FrameSize ELSE Len(b)

ChunkIs(b, i) ==
  /\ FrameEnd(b, i - 1) = (i - 1) * FrameSize
  /\ FrameEnd(b, i - 1) \in Nat /\ FrameEnd(b, i) \in Nat
  /\ FrameEnd(b, i - 1) <= FrameEnd(b, i) /\ FrameEnd(b, i) <= Len(b)
  /\ FrameEnd(b, i) - FrameEnd(b, i - 1) <= FrameSize
  /\ Chunk(b, i) = Cut(b, FrameEnd(b, i - 1), FrameEnd(b, i))
  /\ Chunk(b, i) \in ByteStrings
  /\ Len(Chunk(b, i)) = FrameEnd(b, i) - FrameEnd(b, i - 1)
  /\ b # <<>> => Chunk(b, i) # <<>>

\* The frames cover the bytes, in order, none longer than FrameSize; only the
\* last may be shorter, and none is empty unless there are no bytes.
LEMMA ChunksAre ==
  ASSUME NEW b \in ByteStrings
  PROVE  /\ FrameCount(Len(b)) \in Nat /\ FrameCount(Len(b)) >= 1
         /\ b = <<>> => FrameCount(Len(b)) = 1
         /\ FrameEnd(b, 0) = 0 /\ FrameEnd(b, FrameCount(Len(b))) = Len(b)
         /\ \A i \in 1..FrameCount(Len(b)) : ChunkIs(b, i)
<1> DEFINE L == Len(b)
           q == (L + FrameSize - 1) \div FrameSize
           n == FrameCount(L)
<1>1. L \in Nat BY LenProperties DEF ByteStrings
<1>2. FrameSize \in Nat \ {0} BY CodecAssumption
<1>3. L + FrameSize - 1 \in Nat BY <1>1, <1>2
<1>4. q \in Nat /\ FrameSize * q <= L + FrameSize - 1 /\ L + FrameSize - 1 < FrameSize * q + FrameSize
  BY <1>2, <1>3, DivIs
<1>5. L = 0 => q = 0
  <2>1. SUFFICES ASSUME L = 0, 1 <= q PROVE FALSE BY <1>4
  <2> HIDE DEF q
  <2>2. FrameSize * 1 <= FrameSize * q BY <1>2, <1>4, <2>1
  <2>3. QED BY <1>2, <1>4, <2>1, <2>2
<1>6. L # 0 => q >= 1
  <2>1. SUFFICES ASSUME L # 0, q = 0 PROVE FALSE BY <1>4
  <2> HIDE DEF q
  <2>2. QED BY <1>1, <1>2, <1>4, <2>1
<1>7. n = IF L = 0 THEN 1 ELSE q
  <2>1. n = Max({1, q}) BY DEF FrameCount
  <2> HIDE DEF n
  <2>2. {1, q} \subseteq 0..(q + 1) /\ {1, q} # {} /\ 0 \in Int /\ q + 1 \in Int BY <1>4
  <2>3. Max({1, q}) \in {1, q} /\ \A x \in {1, q} : x <= Max({1, q})
    BY <2>2, MinMaxOf
  <2>4. QED BY <1>4, <1>5, <1>6, <2>1, <2>3
<1> HIDE DEF q, n, L
<1>8. n \in Nat /\ n >= 1 BY <1>4, <1>6, <1>7
<1>9. L <= n * FrameSize
  <2>1. CASE L = 0 BY <1>2, <1>7, <2>1
  <2>2. CASE L # 0
    <3>1. n = q BY <1>7, <2>2
    <3>2. L < FrameSize * q + 1 BY <1>1, <1>2, <1>4
    <3>3. QED BY <1>1, <1>2, <1>4, <3>1, <3>2
  <2>3. QED BY <2>1, <2>2
<1>10. ASSUME NEW i \in 1..n PROVE (i - 1) * FrameSize <= L /\ (L # 0 => (i - 1) * FrameSize < L)
  <2>1. CASE L = 0
    <3>1. i = 1 BY <1>7, <2>1
    <3>2. QED BY <1>2, <2>1, <3>1
  <2>2. CASE L # 0
    <3>1. n = q BY <1>7, <2>2
    <3>2. FrameSize * (i - 1) <= FrameSize * (q - 1) BY <1>2, <1>4, <3>1
    <3>3. FrameSize * (q - 1) = FrameSize * q - FrameSize BY <1>2, <1>4
    <3>4. FrameSize * q - FrameSize < L BY <1>1, <1>2, <1>4
    <3>5. QED BY <1>1, <1>2, <1>4, <3>2, <3>3, <3>4
  <2>3. QED BY <2>1, <2>2
<1>11. FrameEnd(b, 0) = 0 BY <1>1, <1>2 DEF FrameEnd, L
<1>12. FrameEnd(b, n) = L BY <1>1, <1>2, <1>8, <1>9 DEF FrameEnd, L
<1>13. ASSUME NEW i \in 1..n
       PROVE ChunkIs(b, i)
  <2> DEFINE x == (i - 1) * FrameSize
             y == i * FrameSize
  <2>1. x \in Nat /\ y \in Nat /\ y = x + FrameSize BY <1>2, <1>8
  <2>2. x <= L /\ (L # 0 => x < L) BY <1>10
  <2>3. FrameEnd(b, i - 1) = x BY <2>2 DEF FrameEnd, L
  <2>4. FrameEnd(b, i) = IF y <= L THEN y ELSE L BY DEF FrameEnd, L
  <2>5. Min({y, L}) = FrameEnd(b, i)
    <3>1. {y, L} \subseteq 0..(y + L) /\ {y, L} # {} BY <1>1, <2>1
    <3>2. y + L \in Int /\ 0 \in Int BY <1>1, <2>1
    <3>3. Min({y, L}) \in {y, L} /\ \A v \in {y, L} : Min({y, L}) <= v BY <3>1, <3>2, MinMaxOf
    <3>4. QED BY <1>1, <2>1, <2>4, <3>3
  <2>6. Chunk(b, i) = Cut(b, FrameEnd(b, i - 1), FrameEnd(b, i)) BY <2>3, <2>5 DEF Chunk, L
  <2> HIDE DEF x, y
  <2> DEFINE e == FrameEnd(b, i)
  <2>7. /\ e \in Nat /\ x <= e /\ e <= L /\ e - x <= FrameSize /\ (L # 0 => x < e)
    BY <1>1, <1>2, <2>1, <2>2, <2>4
  <2> HIDE DEF e
  <2>8. Cut(b, x, e) \in ByteStrings /\ Len(Cut(b, x, e)) = e - x
    BY <2>1, <2>7, CutIs DEF L
  <2>9. b # <<>> => L # 0 BY EmptySeq DEF L, ByteStrings
  <2>10. b # <<>> => Len(Cut(b, x, e)) # 0 BY <2>1, <2>7, <2>8, <2>9
  <2>11. b # <<>> => Cut(b, x, e) # <<>> BY <2>10
  <2>12. QED BY <2>1, <2>3, <2>6, <2>7, <2>8, <2>11 DEF x, e, L, ChunkIs
<1>14. b = <<>> => L = 0 BY DEF L
<1>15. QED BY <1>7, <1>8, <1>11, <1>12, <1>13, <1>14 DEF n, L

\* The compressed chunks of b, and the chunks themselves, as sequences.
NFrames(b) == FrameCount(Len(b))
Chunks(b) == [i \in 1..NFrames(b) |-> Chunk(b, i)]
Zs(b) == [i \in 1..NFrames(b) |-> Compress(Chunk(b, i)).z]

\* What is in frame i of a body or of a blob, whatever else its record has.
FrameOf(b, f, i) ==
  /\ f[i].off = (i - 1) * FrameSize /\ f[i].len = Len(Chunk(b, i))
  /\ f[i].zlen = Len(Zs(b)[i]) /\ f[i].codec = Compress(Chunk(b, i)).codec
  /\ f[i].b3 = HashOf(Zs(b)[i])

\* The frames of an encoded body, and its stored bytes.
LEMMA FrameBodyIs ==
  ASSUME NEW b \in ByteStrings
  PROVE  /\ NFrames(b) \in Nat \ {0}
         /\ Len(FrameBody(b)) = NFrames(b) /\ DOMAIN FrameBody(b) = 1..NFrames(b)
         /\ \A i \in 1..NFrames(b) : FrameOf(b, FrameBody(b), i) /\ FrameBody(b)[i].z = Zs(b)[i]
         /\ StoredBytes(FrameBody(b)) = FlattenSeq(Zs(b))
<1>1. NFrames(b) \in Nat \ {0} BY ChunksAre DEF NFrames
<1>2. /\ DOMAIN FrameBody(b) = 1..NFrames(b)
      /\ \A i \in 1..NFrames(b) :
           LET c == Compress(Chunk(b, i)) IN
           FrameBody(b)[i] = [off |-> (i - 1) * FrameSize, len |-> Len(Chunk(b, i)),
             zlen |-> Len(c.z), codec |-> c.codec, b3 |-> HashOf(c.z), z |-> c.z]
  BY DEF FrameBody, NFrames
<1>3. Len(FrameBody(b)) = NFrames(b)
  <2>1. FrameBody(b) = [i \in 1..NFrames(b) |-> FrameBody(b)[i]] BY DEF FrameBody, NFrames
  <2>2. QED BY <1>1, <2>1
<1>4. \A i \in 1..NFrames(b) : FrameOf(b, FrameBody(b), i) /\ FrameBody(b)[i].z = Zs(b)[i]
  BY <1>2 DEF FrameOf, Zs
<1>5. [i \in 1..Len(FrameBody(b)) |-> FrameBody(b)[i].z] = Zs(b)
  <2>1. \A i \in 1..NFrames(b) : FrameBody(b)[i].z = Zs(b)[i] BY <1>4
  <2>2. Zs(b) = [i \in 1..NFrames(b) |-> Zs(b)[i]] BY DEF Zs
  <2>3. QED BY <1>3, <2>1, <2>2
<1>6. QED BY <1>1, <1>2, <1>3, <1>4, <1>5 DEF StoredBytes

\* The frames' lengths add up to the offsets, and to the whole.
LEMMA LengthsAre ==
  ASSUME NEW b \in ByteStrings, NEW f, \A i \in 1..NFrames(b) : FrameOf(b, f, i),
         NEW i \in 1..(NFrames(b) + 1)
  PROVE  /\ Total([j \in 1..(i - 1) |-> f[j].len]) = FrameEnd(b, i - 1)
         /\ i \in 1..NFrames(b) => FrameEnd(b, i - 1) = f[i].off
<1> DEFINE n == NFrames(b)
           s == [j \in 1..n |-> Len(Chunk(b, j))]
           t == [j \in 0..n |-> FrameEnd(b, j)]
<1>1. n \in Nat \ {0} BY ChunksAre DEF NFrames
<1>2. \A j \in 1..n : ChunkIs(b, j) BY ChunksAre DEF NFrames
<1> HIDE DEF n
<1>3. \A j \in 1..n : /\ FrameEnd(b, j - 1) \in Nat /\ FrameEnd(b, j) \in Nat
                      /\ Len(Chunk(b, j)) = FrameEnd(b, j) - FrameEnd(b, j - 1)
                      /\ FrameEnd(b, j - 1) <= FrameEnd(b, j)
                      /\ FrameEnd(b, j - 1) = (j - 1) * FrameSize
  BY <1>2 DEF ChunkIs
<1>4. SumsTo(n, s, t)
  <2>1. \A j \in 1..n : Len(Chunk(b, j)) \in Nat BY <1>3
  <2>2. s \in [1..n -> Nat] BY <2>1
  <2>3. FrameEnd(b, 0) = 0 BY ChunksAre
  <2>4. \A j \in 0..n : j = 0 \/ j \in 1..n BY <1>1
  <2>5. \A j \in 0..n : FrameEnd(b, j) \in Nat BY <1>3, <2>3, <2>4
  <2>6. t \in [0..n -> Nat] BY <2>5
  <2>7. ASSUME NEW j \in 1..n PROVE t[j] = t[j - 1] + s[j]
    <3>1. j \in 0..n /\ j - 1 \in 0..n BY <1>1
    <3>2. t[j] = FrameEnd(b, j) /\ t[j - 1] = FrameEnd(b, j - 1) BY <3>1
    <3>3. s[j] = FrameEnd(b, j) - FrameEnd(b, j - 1) BY <1>3
    <3>4. FrameEnd(b, j) \in Nat /\ FrameEnd(b, j - 1) \in Nat BY <1>3
    <3>5. QED BY <3>2, <3>3, <3>4
  <2>8. 0 \in 0..n /\ t[0] = 0 BY <1>1, <2>3
  <2> HIDE DEF s, t
  <2>9. QED BY <2>2, <2>6, <2>7, <2>8 DEF SumsTo
<1>5. i - 1 \in 0..n /\ t[i - 1] = FrameEnd(b, i - 1) BY <1>1 DEF n
<1>6. [j \in 1..(i - 1) |-> s[j]] = [j \in 1..(i - 1) |-> f[j].len]
  <2>1. \A j \in 1..(i - 1) : j \in 1..n BY <1>5, <1>1
  <2>2. \A j \in 1..(i - 1) : f[j].len = s[j] BY <2>1 DEF FrameOf, n
  <2>3. QED BY <2>2
<1> HIDE DEF s, t
<1>7. Total([j \in 1..(i - 1) |-> f[j].len]) = FrameEnd(b, i - 1) BY <1>1, <1>4, <1>5, <1>6, TotalIs
<1>8. i \in 1..n => FrameEnd(b, i - 1) = f[i].off BY <1>3 DEF FrameOf, n
<1>9. QED BY <1>7, <1>8 DEF n

\* A frame's bytes are found where the lengths before it say.
LEMMA StoredAt ==
  ASSUME NEW b \in ByteStrings, LosslessFrames(b), NEW f,
         \A i \in 1..NFrames(b) : FrameOf(b, f, i)
  PROVE  LET bytes == FlattenSeq(Zs(b))  n == NFrames(b) IN
         /\ bytes \in ByteStrings /\ ZOff(f, 1) = 0 /\ ZOff(f, n + 1) = Len(bytes)
         /\ \A i \in 1..n :
              /\ Zs(b)[i] \in ByteStrings /\ f[i].zlen \in Nat /\ ZOff(f, i) \in Nat
              /\ ZOff(f, i + 1) = ZOff(f, i) + f[i].zlen /\ ZOff(f, i + 1) <= Len(bytes)
              /\ Stored(bytes, f, i) = Zs(b)[i]
<1> DEFINE bytes == FlattenSeq(Zs(b))
           n == NFrames(b)
           s == [i \in 1..n |-> Len(Zs(b)[i])]
<1>1. n \in Nat \ {0} BY ChunksAre DEF NFrames
<1>2. \A i \in 1..n : Zs(b)[i] \in ByteStrings
  <2> TAKE i \in 1..n
  <2>1. Chunk(b, i) \in ByteStrings BY ChunksAre DEF ChunkIs, NFrames
  <2>2. Lossless(Chunk(b, i)) BY DEF LosslessFrames, NFrames
  <2>3. Compress(Chunk(b, i)).z \in ByteStrings BY <2>1, <2>2, CompressIs
  <2>4. QED BY <2>3 DEF Zs
<1>3. Zs(b) \in [1..n -> ByteStrings]
  <2>1. Zs(b) = [i \in 1..n |-> Zs(b)[i]] BY DEF Zs
  <2>2. QED BY <1>2, <2>1
<1>4. \A i \in 1..n : Len(Zs(b)[i]) \in Nat BY <1>2, LenProperties DEF ByteStrings
<1>5. s \in [1..n -> Nat] BY <1>4
<1> HIDE DEF n
<1>6. PICK c : JoinsTo(n, Zs(b), c) BY <1>1, <1>3, JoinsExist
<1>7. PICK t \in [0..n -> Nat] : SumsTo(n, s, t) BY <1>1, <1>5, SumsExist
<1>8. bytes = c[n] BY <1>1, <1>6, FlattenIs
<1>9. c[n] \in ByteStrings BY <1>1, <1>6 DEF JoinsTo
<1>10. Len(c[n]) = t[n] /\ \A i \in 1..n : Cut(c[n], t[i - 1], t[i]) = Zs(b)[i]
  <2>1. n \in 0..n BY <1>1
  <2>2. SumsTo(n, Lengths(n, Zs(b)), t) BY <1>7 DEF Lengths
  <2>3. PartsAt(n, Zs(b), c, t)
    <3> HIDE DEF s
    <3>1. QED BY <1>1, <1>6, <2>1, <2>2, JoinsAt
  <2>4. QED BY <2>3 DEF PartsAt
<1>11. ASSUME NEW i \in 1..(n + 1) PROVE ZOff(f, i) = t[i - 1]
  <2>1. i - 1 \in 0..n BY <1>1
  <2>2. Total([j \in 1..(i - 1) |-> s[j]]) = t[i - 1]
    <3> HIDE DEF s
    <3>1. QED BY <1>1, <1>7, <2>1, TotalIs
  <2>3. \A j \in 1..(i - 1) : j \in 1..n BY <1>1
  <2>4. \A j \in 1..(i - 1) : f[j].zlen = s[j] BY <2>3 DEF FrameOf, n
  <2>5. [j \in 1..(i - 1) |-> s[j]] = [j \in 1..(i - 1) |-> f[j].zlen] BY <2>4
  <2>6. QED BY <2>2, <2>5 DEF ZOff
<1>12. n + 1 \in 1..(n + 1) /\ (n + 1) - 1 = n BY <1>1
<1>13. ZOff(f, n + 1) = t[n] BY <1>11, <1>12
<1>14. ASSUME NEW i \in 1..n
       PROVE  /\ f[i].zlen \in Nat /\ ZOff(f, i) \in Nat
              /\ ZOff(f, i + 1) = ZOff(f, i) + f[i].zlen /\ ZOff(f, i + 1) <= Len(bytes)
              /\ Stored(bytes, f, i) = Zs(b)[i]
  <2>1. /\ i \in 1..(n + 1) /\ i + 1 \in 1..(n + 1) /\ (i + 1) - 1 = i
        /\ i - 1 \in 0..n /\ i \in 0..n /\ n \in 0..n /\ i <= n
    BY <1>1
  <2>2. ZOff(f, i) = t[i - 1] /\ ZOff(f, i + 1) = t[i] BY <1>11, <2>1
  <2>3. t[i] = t[i - 1] + s[i] /\ t[i - 1] \in Nat /\ t[i] \in Nat BY <1>7, <2>1 DEF SumsTo
  <2>4. f[i].zlen = s[i] /\ s[i] \in Nat BY <1>5 DEF FrameOf, n
  <2>5. t[i] <= t[n] BY <1>1, <1>7, <2>1, SumsGrow
  <2>6. ZOff(f, i) + f[i].zlen = t[i] BY <2>2, <2>3, <2>4
  <2>7. Stored(bytes, f, i) = Zs(b)[i] BY <1>8, <1>10, <2>2, <2>6 DEF Stored
  <2>8. QED BY <1>8, <1>10, <2>2, <2>3, <2>4, <2>5, <2>6, <2>7
<1>15. ZOff(f, 1) = 0
  <2>1. 1 \in 1..(n + 1) /\ 1 - 1 = 0 BY <1>1
  <2>2. t[0] = 0 BY <1>7 DEF SumsTo
  <2>3. QED BY <1>11, <2>1, <2>2
<1>16. QED BY <1>2, <1>8, <1>9, <1>10, <1>13, <1>14, <1>15 DEF n

\* The chunks, put together again.
LEMMA ChunksJoin ==
  ASSUME NEW b \in ByteStrings
  PROVE  FlattenSeq(Chunks(b)) = b
<1> DEFINE n == NFrames(b)
           c == [i \in 0..n |-> Cut(b, 0, FrameEnd(b, i))]
<1>1. n \in Nat /\ n # 0 /\ FrameEnd(b, 0) = 0 /\ FrameEnd(b, n) = Len(b)
      /\ \A i \in 1..n : ChunkIs(b, i)
  BY ChunksAre DEF NFrames
<1>2. Len(b) \in Nat BY LenProperties DEF ByteStrings
<1> HIDE DEF n
<1>3. \A i \in 0..n : FrameEnd(b, i) \in Nat /\ FrameEnd(b, i) <= Len(b)
  <2> TAKE i \in 0..n
  <2>1. CASE i = 0 BY <1>1, <1>2, <2>1
  <2>2. CASE i # 0
    <3>1. i \in 1..n BY <1>1, <2>2
    <3>2. QED BY <1>1, <3>1 DEF ChunkIs
  <2>3. QED BY <2>1, <2>2
<1>4. \A i \in 0..n : Cut(b, 0, FrameEnd(b, i)) \in ByteStrings
  <2> TAKE i \in 0..n
  <2>1. PICK z, e : z = 0 /\ e = FrameEnd(b, i) OBVIOUS
  <2>2. z \in Nat /\ e \in Nat /\ z <= e /\ e <= Len(b) BY <1>3, <2>1
  <2>3. Cut(b, z, e) \in ByteStrings BY <2>2, CutIs
  <2>4. QED BY <2>1, <2>3
<1>5. c[0] = <<>>
  <2>1. 0 \in 0..n BY <1>1
  <2>2. c[0] = Cut(b, 0, 0) BY <1>1, <2>1
  <2>3. Cut(b, 0, 0) = <<>> BY <1>2, SubSeqEmpty DEF Cut, ByteStrings
  <2>4. QED BY <2>2, <2>3
<1>6. ASSUME NEW i \in 1..n PROVE c[i] = c[i - 1] \o Chunks(b)[i]
  <2>1. i \in 0..n /\ i - 1 \in 0..n BY <1>1
  <2>2. PICK z, x, e : z = 0 /\ x = FrameEnd(b, i - 1) /\ e = FrameEnd(b, i) OBVIOUS
  <2>3. ChunkIs(b, i) BY <1>1
  <2>4. z \in Nat /\ x \in Nat /\ e \in Nat /\ z <= x /\ x <= e /\ e <= Len(b)
    BY <2>2, <2>3 DEF ChunkIs
  <2>5. Cut(b, z, x) \o Cut(b, x, e) = Cut(b, z, e) BY <2>4, CutsJoin
  <2>6. Chunks(b)[i] = Cut(b, x, e) BY <2>2, <2>3 DEF Chunks, ChunkIs, n
  <2>7. c[i] = Cut(b, z, e) /\ c[i - 1] = Cut(b, z, x) BY <2>1, <2>2
  <2>8. QED BY <2>5, <2>6, <2>7
<1>7. Chunks(b) \in [1..n -> ByteStrings] BY <1>1 DEF Chunks, ChunkIs, n
<1>8. c \in [0..n -> ByteStrings] BY <1>4
<1>9. c[n] = b
  <2>1. n \in 0..n BY <1>1
  <2>2. QED BY <1>1, <2>1, CutAll
<1> HIDE DEF c
<1>10. JoinsTo(n, Chunks(b), c) BY <1>5, <1>6, <1>7, <1>8 DEF JoinsTo
<1>11. QED BY <1>1, <1>9, <1>10, FlattenIs

\* A body that was encoded reads back, and its header is accepted.
LEMMA BodyReads ==
  ASSUME NEW b \in ByteStrings, LosslessFrames(b), NEW p, p.magic,
         p.frames = FrameBody(b), p.body = StoredBytes(FrameBody(b))
  PROVE  ParseHeader(p) /\ ReadBody(p) = Ok(b)
<1> DEFINE n == NFrames(b)
           f == FrameBody(b)
           bytes == FlattenSeq(Zs(b))
<1>1. /\ n \in Nat \ {0} /\ Len(f) = n /\ \A i \in 1..n : FrameOf(b, f, i)
      /\ p.body = bytes
  BY FrameBodyIs
<1>2. \A i \in 1..n : ChunkIs(b, i) BY ChunksAre DEF NFrames
<1> HIDE DEF n, f, bytes
<1>3. ParseHeader(p)
  <2>1. ASSUME NEW i \in 1..n
        PROVE  f[i].len <= FrameSize /\ f[i].off = Total([j \in 1..(i - 1) |-> f[j].len])
    <3>1. f[i].len = FrameEnd(b, i) - FrameEnd(b, i - 1) BY <1>1, <1>2 DEF FrameOf, ChunkIs
    <3>2. f[i].len <= FrameSize BY <1>2, <3>1 DEF ChunkIs
    <3>3. i \in 1..(n + 1) BY <1>1
    <3>4. Total([j \in 1..(i - 1) |-> f[j].len]) = FrameEnd(b, i - 1) /\ FrameEnd(b, i - 1) = f[i].off
      BY <1>1, <3>3, LengthsAre DEF n
    <3>5. QED BY <3>2, <3>4
  <2>2. QED BY <1>1, <2>1 DEF ParseHeader, f
<1>4. /\ bytes \in ByteStrings /\ ZOff(f, n + 1) = Len(bytes)
      /\ \A i \in 1..n : Stored(bytes, f, i) = Zs(b)[i]
  BY <1>1, StoredAt DEF n, bytes
<1> DEFINE plain == [i \in 1..n |-> Decompress(f[i].codec, Stored(bytes, f, i), f[i].len)]
<1>5. \A i \in 1..n : plain[i] = Ok(Chunk(b, i))
  <2> TAKE i \in 1..n
  <2>1. Chunk(b, i) \in ByteStrings BY <1>2 DEF ChunkIs
  <2>2. Lossless(Chunk(b, i)) BY DEF LosslessFrames, NFrames, n
  <2>3. /\ f[i].codec = Compress(Chunk(b, i)).codec /\ f[i].len = Len(Chunk(b, i))
        /\ Stored(bytes, f, i) = Compress(Chunk(b, i)).z
    BY <1>1, <1>4 DEF FrameOf, Zs, n
  <2>4. Decompress(Compress(Chunk(b, i)).codec, Compress(Chunk(b, i)).z, Len(Chunk(b, i)))
          = Ok(Chunk(b, i))
    BY <2>1, <2>2, CompressIs
  <2>5. QED BY <2>3, <2>4
<1> HIDE DEF plain
<1>6. \A i \in 1..n : plain[i].ok /\ plain[i].out = Chunk(b, i)
  <2> TAKE i \in 1..n
  <2>1. Ok(Chunk(b, i)).ok /\ Ok(Chunk(b, i)).out = Chunk(b, i) BY DEF Ok
  <2>2. QED BY <1>5, <2>1
<1>7. \A i \in 1..n : HashOf(Stored(bytes, f, i)) = f[i].b3 BY <1>1, <1>4 DEF FrameOf
<1>8. [i \in 1..n |-> plain[i].out] = Chunks(b) BY <1>6 DEF Chunks, n
<1>9. FlattenSeq([i \in 1..n |-> plain[i].out]) = b BY <1>8, ChunksJoin
<1>10. ReadBody(p) = Ok(FlattenSeq([i \in 1..n |-> plain[i].out]))
  BY <1>1, <1>4, <1>6, <1>7 DEF ReadBody, plain, f
<1>11. QED BY <1>3, <1>9, <1>10
-----------------------------------------------------------------------------
(***************************************************************************)
(* The Go-aware body.                                                      *)
(***************************************************************************)
Reader(b, v) == [b |-> b, v |-> v, ok |-> TRUE]

\* The first byte of a stream, and what is left.
LEMMA HeadIs ==
  ASSUME NEW k \in Int, NEW s \in ByteStrings
  PROVE  /\ U(k) \in ByteStrings /\ U(k) \o s # <<>>
         /\ Head(U(k) \o s) = k /\ Tail(U(k) \o s) = s
<1>1. U(k) \in ByteStrings /\ Len(U(k)) = 1 /\ U(k)[1] = k BY DEF U, ByteStrings
<1> DEFINE w == U(k) \o s
<1>2. /\ w \in ByteStrings /\ Len(w) = 1 + Len(s) /\ w[1] = k
      /\ \A i \in 1..Len(s) : w[1 + i] = s[i]
  <2>1. \A i \in 1..Len(U(k)) : w[i] = U(k)[i] BY <1>1, JoinIs
  <2>2. 1 \in 1..Len(U(k)) BY <1>1
  <2>3. w \in ByteStrings /\ Len(w) = Len(U(k)) + Len(s) BY <1>1, JoinIs
  <2>4. \A i \in 1..Len(s) : w[Len(U(k)) + i] = s[i] BY <1>1, JoinIs
  <2> HIDE DEF w
  <2>5. QED BY <1>1, <2>1, <2>2, <2>3, <2>4
<1>3. Len(s) \in Nat BY LenProperties DEF ByteStrings
<1> HIDE DEF w
<1>4. w # <<>> BY <1>2, <1>3
<1>5. Head(w) = k BY <1>2 DEF ByteStrings
<1>6. Tail(w) = s
  <2>1. /\ Tail(w) \in ByteStrings /\ Len(Tail(w)) = Len(w) - 1
        /\ \A i \in 1..Len(Tail(w)) : Tail(w)[i] = w[i + 1]
    BY <1>2, <1>4, HeadTailProperties DEF ByteStrings
  <2>2. Len(Tail(w)) = Len(s) BY <1>2, <1>3, <2>1
  <2>3. \A i \in 1..Len(s) : i + 1 = 1 + i OBVIOUS
  <2>4. \A i \in 1..Len(s) : Tail(w)[i] = s[i] BY <1>2, <2>1, <2>2, <2>3
  <2>5. QED BY <2>1, <2>2, <2>4, SameBytes
<1>7. QED BY <1>1, <1>4, <1>5, <1>6 DEF w

Assoc(x, y, z) == (x \o y) \o z = x \o (y \o z)

\* Concatenation is associative.
LEMMA JoinAssoc ==
  ASSUME NEW x \in ByteStrings, NEW y \in ByteStrings, NEW z \in ByteStrings
  PROVE  Assoc(x, y, z)
BY ConcatAssociative DEF Assoc, ByteStrings

\* un reads back a number that was written.
LEMMA ReadNIs ==
  ASSUME NEW k \in 0..(MaxVarint - 1), NEW s \in ByteStrings, NEW v, NEW max \in Int, k <= max
  PROVE  ReadN(Reader(U(k) \o s, v), max) = Reader(s, k)
<1>1. MaxVarint \in Nat BY CodecAssumption
<1>2. U(k) \o s # <<>> /\ Head(U(k) \o s) = k /\ Tail(U(k) \o s) = s
  <2>1. k \in Int OBVIOUS
  <2>2. QED BY <2>1, HeadIs
<1>3. k < MaxVarint /\ ~(k >= MaxVarint) /\ ~(k > max) BY <1>1
<1>4. ReadU(Reader(U(k) \o s, v)) = Reader(s, k) BY <1>2, <1>3 DEF ReadU, Reader
<1>5. Reader(s, k).v = k BY DEF Reader
<1>6. QED BY <1>3, <1>4, <1>5 DEF ReadN

\* bytes reads back a string that was written.
LEMMA ReadBytesIs ==
  ASSUME NEW x \in ByteStrings, Len(x) \in 0..(MaxVarint - 1), NEW s \in ByteStrings, NEW v
  PROVE  ReadBytes(Reader(Bytes(x) \o s, v)) = Reader(s, x)
<1>1. MaxVarint \in Nat /\ Len(s) \in Nat BY CodecAssumption, LenProperties DEF ByteStrings
<1>2. PICK k : k = Len(x) OBVIOUS
<1>3. k \in Int /\ k < MaxVarint /\ ~(k >= MaxVarint) BY <1>1, <1>2
<1>4. x \o s \in ByteStrings /\ Len(x \o s) = Len(x) + Len(s) BY JoinIs
<1>5. Bytes(x) \o s = U(k) \o (x \o s)
  <2>1. PICK u \in ByteStrings : u = U(k) BY <1>3, HeadIs
  <2>2. Assoc(u, x, s) BY JoinAssoc
  <2>3. QED BY <1>2, <2>1, <2>2 DEF Assoc, Bytes
<1>6. /\ U(k) \o (x \o s) # <<>> /\ Head(U(k) \o (x \o s)) = k /\ Tail(U(k) \o (x \o s)) = x \o s
  BY <1>3, <1>4, HeadIs
<1>7. ReadU(Reader(Bytes(x) \o s, v)) = Reader(x \o s, k)
  BY <1>3, <1>5, <1>6 DEF ReadU, Reader
<1>8. Cut(x \o s, 0, Len(x)) = x /\ Cut(x \o s, Len(x), Len(x) + Len(s)) = s BY JoinParts
<1>9. ~(Len(x \o s) < Len(x)) BY <1>1, <1>3, <1>2, <1>4
<1>10. Take(Reader(x \o s, k), k) = Reader(s, x) BY <1>2, <1>4, <1>8, <1>9 DEF Take, Reader
<1>11. Reader(x \o s, k).v = k BY DEF Reader
<1>12. QED BY <1>7, <1>10, <1>11 DEF ReadBytes

Joined(a, b, c, d, e, f, g) ==
  a \o b \o c \o d \o e \o f \o g = a \o (b \o (c \o (d \o (e \o (f \o g)))))

\* Seven strings, put together from either end.
LEMMA SevenJoined ==
  ASSUME NEW a \in ByteStrings, NEW b \in ByteStrings, NEW c \in ByteStrings,
         NEW d \in ByteStrings, NEW e \in ByteStrings, NEW f \in ByteStrings,
         NEW g \in ByteStrings
  PROVE  Joined(a, b, c, d, e, f, g)
<1>1. PICK p2 \in ByteStrings : p2 = a \o b BY JoinIs
<1>2. PICK p3 \in ByteStrings : p3 = p2 \o c BY JoinIs
<1>3. PICK p4 \in ByteStrings : p4 = p3 \o d BY JoinIs
<1>4. PICK p5 \in ByteStrings : p5 = p4 \o e BY JoinIs
<1>5. PICK q6 \in ByteStrings : q6 = f \o g BY JoinIs
<1>6. PICK q5 \in ByteStrings : q5 = e \o q6 BY JoinIs
<1>7. PICK q4 \in ByteStrings : q4 = d \o q5 BY JoinIs
<1>8. PICK q3 \in ByteStrings : q3 = c \o q4 BY JoinIs
<1>9. Assoc(p5, f, g) /\ Assoc(p4, e, q6) BY JoinAssoc
<1>10. Assoc(p3, d, q5) /\ Assoc(p2, c, q4) /\ Assoc(a, b, q3) BY JoinAssoc
<1>11. /\ (p5 \o f) \o g = p5 \o q6 /\ p5 \o q6 = p4 \o q5
       /\ p4 \o q5 = p3 \o q4 /\ p3 \o q4 = p2 \o q3
       /\ p2 \o q3 = a \o (b \o q3)
  BY <1>1, <1>2, <1>3, <1>4, <1>5, <1>6, <1>7, <1>8, <1>9, <1>10 DEF Assoc
<1>12. (p5 \o f) \o g = a \o (b \o q3) BY <1>11
<1>13. QED BY <1>1, <1>2, <1>3, <1>4, <1>5, <1>6, <1>7, <1>8, <1>12 DEF Joined

\* The decoder of the same build gives the new binary.
LEMMA GoApplies ==
  ASSUME NEW old, NEW new \in ByteStrings, Supported(old), GoInverts(old, new)
  PROVE  ApplyGoAMD64(old, EncodeGoAMD64(old, new), Len(new), <<>>) = Ok(new)
<1> DEFINE lay == LayoutOf(old, new)
           t1a == Tables1a(new)
           t1b == Tables1b(new)
           s1a == plainDiff(Tables1a(old), t1a)
           s1b == plainDiff(predictTables(old, lay), t1b)
           whole == predictWhole(old, lay, t1a, t1b)
           corr == encodeCorrection(whole, new)
           m == MaxVarint - 1
<1>1. /\ lay \in ByteStrings /\ t1a \in ByteStrings /\ t1b \in ByteStrings
      /\ whole \in ByteStrings /\ corr \in ByteStrings
      /\ Len(lay) \in 0..m /\ Len(t1a) \in 0..m /\ Len(s1a) \in 0..m /\ Len(t1b) \in 0..m
      /\ Len(s1b) \in 0..m /\ Len(whole) + 1 \in 0..m
      /\ Len(t1a) <= Len(new) /\ Len(t1b) <= Len(new)
      /\ LayoutOk(old, lay, Len(t1a), Len(t1b))
      /\ PlainInverts(Tables1a(old), t1a) /\ PlainInverts(predictTables(old, lay), t1b)
      /\ applyCorrection(whole, corr) = Ok(new)
  BY DEF GoInverts, ByteStrings
<1>2. /\ s1a \in ByteStrings /\ plainPatch(Tables1a(old), s1a, Len(t1a)) = Ok(t1a)
      /\ s1b \in ByteStrings /\ plainPatch(predictTables(old, lay), s1b, Len(t1b)) = Ok(t1b)
  BY <1>1 DEF PlainInverts, ByteStrings
<1>3. EncodeGoAMD64(old, new)
        = Bytes(lay) \o U(Len(t1a)) \o Bytes(s1a) \o U(Len(t1b)) \o Bytes(s1b)
            \o Bytes(SumBytes(whole)) \o corr
  BY DEF EncodeGoAMD64
<1> HIDE DEF lay, t1a, t1b, s1a, s1b, whole, corr
<1>4. SumBytes(whole) \in ByteStrings /\ Len(SumBytes(whole)) \in 0..m
  <2>1. <<200>> \in ByteStrings /\ Len(<<200>>) = 1 BY DEF ByteStrings
  <2>2. /\ <<200>> \o whole \in ByteStrings /\ Len(<<200>> \o whole) = 1 + Len(whole)
    BY <1>1, <2>1, JoinIs
  <2>3. Len(whole) \in Nat BY <1>1, LenProperties DEF ByteStrings
  <2>4. 1 + Len(whole) = Len(whole) + 1 BY <2>3
  <2>5. QED BY <1>1, <2>2, <2>4 DEF SumBytes
<1> DEFINE sb == SumBytes(whole)
<1>5. /\ U(Len(t1a)) \in ByteStrings /\ U(Len(t1b)) \in ByteStrings
      /\ \A x \in {lay, s1a, s1b, sb} : Bytes(x) \in ByteStrings
  <2>1. Len(t1a) \in Int /\ Len(t1b) \in Int BY <1>1, LenProperties DEF ByteStrings
  <2>2. U(Len(t1a)) \in ByteStrings /\ U(Len(t1b)) \in ByteStrings BY <2>1 DEF U, ByteStrings
  <2>3. \A x \in ByteStrings : Bytes(x) \in ByteStrings
    <3> TAKE x \in ByteStrings
    <3>1. Len(x) \in Int BY LenProperties DEF ByteStrings
    <3>2. U(Len(x)) \in ByteStrings BY <3>1 DEF U, ByteStrings
    <3>3. QED BY <3>2, JoinIs DEF Bytes
  <2>4. QED BY <1>1, <1>2, <1>4, <2>2, <2>3
<1> HIDE DEF sb
<1> DEFINE r6 == Bytes(sb) \o corr
           r5 == Bytes(s1b) \o r6
           r4 == U(Len(t1b)) \o r5
           r3 == Bytes(s1a) \o r4
           r2 == U(Len(t1a)) \o r3
<1>6. EncodeGoAMD64(old, new) = Bytes(lay) \o r2
  <2>1. PICK a, b, c, d, e, f :
          /\ a = Bytes(lay) /\ b = U(Len(t1a)) /\ c = Bytes(s1a) /\ d = U(Len(t1b))
          /\ e = Bytes(s1b) /\ f = Bytes(sb)
    OBVIOUS
  <2>2. /\ a \in ByteStrings /\ b \in ByteStrings /\ c \in ByteStrings /\ d \in ByteStrings
        /\ e \in ByteStrings /\ f \in ByteStrings
    BY <1>5, <2>1
  <2>3. Joined(a, b, c, d, e, f, corr) BY <1>1, <2>2, SevenJoined
  <2>4. EncodeGoAMD64(old, new) = a \o b \o c \o d \o e \o f \o corr BY <1>3, <2>1 DEF sb
  <2>5. QED BY <2>1, <2>3, <2>4 DEF Joined
<1>7. r6 \in ByteStrings BY <1>1, <1>5, JoinIs
<1>8. r5 \in ByteStrings
  <2> HIDE DEF r6
  <2>1. QED BY <1>5, <1>7, JoinIs
<1>9. r4 \in ByteStrings
  <2> HIDE DEF r5
  <2>1. QED BY <1>5, <1>8, JoinIs
<1>10. r3 \in ByteStrings
  <2> HIDE DEF r4
  <2>1. QED BY <1>5, <1>9, JoinIs
<1>11. r2 \in ByteStrings
  <2> HIDE DEF r3
  <2>1. QED BY <1>5, <1>10, JoinIs
<1>12. r2 = U(Len(t1a)) \o r3 /\ r3 = Bytes(s1a) \o r4 /\ r4 = U(Len(t1b)) \o r5
       /\ r5 = Bytes(s1b) \o r6 /\ r6 = Bytes(sb) \o corr
  OBVIOUS
<1> HIDE DEF r2, r3, r4, r5, r6
<1> DEFINE N == Len(new)
           L == ReadBytes(Rbuf(EncodeGoAMD64(old, new)))
           NA == ReadN(L, N)
           SA == ReadBytes(NA)
           NN == ReadN(SA, N)
           SN == ReadBytes(NN)
           SM == ReadBytes(SN)
<1>13. N \in Int BY LenProperties DEF ByteStrings
<1>14. L = Reader(r2, lay)
  <2>1. L = ReadBytes(Reader(Bytes(lay) \o r2, 0)) BY <1>6 DEF Rbuf, Reader
  <2>2. QED BY <1>1, <1>11, <2>1, ReadBytesIs
<1> HIDE DEF L
<1>15. NA = Reader(r3, Len(t1a))
  <2>1. PICK k : k = Len(t1a) OBVIOUS
  <2>2. k \in 0..(MaxVarint - 1) /\ k <= N BY <1>1, <2>1
  <2> HIDE DEF N
  <2>3. ReadN(Reader(U(k) \o r3, lay), N) = Reader(r3, k)
    BY <1>10, <1>13, <2>2, ReadNIs
  <2>4. QED BY <1>12, <1>14, <2>1, <2>3
<1> HIDE DEF NA
<1>16. SA = Reader(r4, s1a) BY <1>1, <1>2, <1>9, <1>12, <1>15, ReadBytesIs
<1> HIDE DEF SA
<1>17. NN = Reader(r5, Len(t1b))
  <2>1. PICK k : k = Len(t1b) OBVIOUS
  <2>2. k \in 0..(MaxVarint - 1) /\ k <= N BY <1>1, <2>1
  <2> HIDE DEF N
  <2>3. ReadN(Reader(U(k) \o r5, s1a), N) = Reader(r5, k)
    BY <1>8, <1>13, <2>2, ReadNIs
  <2>4. QED BY <1>12, <1>16, <2>1, <2>3
<1> HIDE DEF NN
<1>18. SN = Reader(r6, s1b) BY <1>1, <1>2, <1>7, <1>12, <1>17, ReadBytesIs
<1> HIDE DEF SN
<1>19. SM = Reader(corr, sb) BY <1>1, <1>4, <1>12, <1>18, ReadBytesIs DEF sb
<1> HIDE DEF SM
<1>20. /\ L.v = lay /\ NA.v = Len(t1a) /\ SA.v = s1a /\ NN.v = Len(t1b) /\ SN.v = s1b
       /\ SM.ok /\ SM.v = sb /\ SM.b = corr
  BY <1>14, <1>15, <1>16, <1>17, <1>18, <1>19 DEF Reader
<1>21. <<>> \o Cut(whole, Len(<<>>), Len(whole)) = whole
  <2>1. Cut(whole, 0, Len(whole)) = whole BY <1>1, CutAll
  <2>2. <<>> \o whole = whole BY <1>1, ConcatEmptySeq DEF ByteStrings
  <2>3. Len(<<>>) = 0 OBVIOUS
  <2>4. QED BY <2>1, <2>2, <2>3
<1>22. Ok(t1a).ok /\ Ok(t1a).out = t1a /\ Ok(t1b).ok /\ Ok(t1b).out = t1b BY DEF Ok
<1>23. predictWhole(old, lay, t1a, t1b) = whole BY DEF whole
<1>24. ApplyGoAMD64(old, EncodeGoAMD64(old, new), N, <<>>) = applyCorrection(whole, corr)
  <2> DEFINE ra == plainPatch(Tables1a(old), SA.v, NA.v)
             rb == plainPatch(predictTables(old, L.v), SN.v, NN.v)
             w == predictWhole(old, L.v, ra.out, rb.out)
             q == <<>> \o Cut(w, Len(<<>>), Len(w))
  <2>1. ra.ok /\ ra.out = t1a /\ rb.ok /\ rb.out = t1b BY <1>2, <1>20, <1>22
  <2>2. q = whole BY <1>20, <1>21, <1>23, <2>1
  <2>3. ApplyGoAMD64(old, EncodeGoAMD64(old, new), N, <<>>)
          = IF ~Supported(old) \/ ~SM.ok \/ ~LayoutOk(old, L.v, NA.v, NN.v) THEN Error
            ELSE IF ~ra.ok \/ ~rb.ok THEN Error
            ELSE IF SumBytes(q) # SM.v THEN Error
            ELSE applyCorrection(q, SM.b)
    BY DEF ApplyGoAMD64, L, NA, SA, NN, SN, SM
  <2> HIDE DEF ra, rb, q
  <2>4. SumBytes(q) = SM.v BY <1>20, <2>2 DEF sb
  <2>5. LayoutOk(old, L.v, NA.v, NN.v) BY <1>1, <1>20
  <2>6. QED BY <1>20, <2>1, <2>2, <2>3, <2>4, <2>5
<1>25. QED BY <1>1, <1>24
-----------------------------------------------------------------------------
(***************************************************************************)
(* A patch that was encoded, applied.                                      *)
(***************************************************************************)
Unsupported == [kind |-> "unsupported", out |-> <<>>]
Failed == [kind |-> "error", out |-> <<>>]
Delivered(b) == [kind |-> "ok", out |-> b]

\* A patch that differs from the encoder's in the promised digest at most.
Encoded(p, old, new, opts) ==
  /\ p.magic
  /\ p.transform = IF UsesGo(old, new, opts) THEN TransformGoAMD64 ELSE TransformPlain
  /\ p.from = HashOf(old) /\ p.oldSize = Len(old) /\ p.newSize = Len(new)
  /\ p.frames = FrameBody(Body(old, new, opts))
  /\ p.body = StoredBytes(FrameBody(Body(old, new, opts)))

\* Its body decodes; what is left is whether the digest is the right one.
LEMMA EncodedApplies ==
  ASSUME NEW old \in ByteStrings, NEW new \in ByteStrings, NEW opts, Inverts(old, new, opts),
         NEW p, Encoded(p, old, new, opts), NEW known
  PROVE  /\ \A skew : p.transform > known => Apply(old, p, known, skew) = Unsupported
         /\ ~(p.transform > known) =>
              Apply(old, p, known, <<>>) = IF HashOf(new) = p.to THEN Delivered(new) ELSE Failed
<1> DEFINE b == Body(old, new, opts)
<1>1. LosslessFrames(b) BY DEF Inverts
<1>2. b \in ByteStrings BY <1>1 DEF LosslessFrames, ByteStrings
<1>3. p.magic /\ p.frames = FrameBody(b) /\ p.body = StoredBytes(FrameBody(b)) BY DEF Encoded
<1>4. ParseHeader(p) /\ ReadBody(p) = Ok(b)
  <2> HIDE DEF b
  <2>1. QED BY <1>1, <1>2, <1>3, BodyReads
<1>5. ReadBody(p).ok /\ ReadBody(p).out = b
  <2> HIDE DEF b
  <2>1. QED BY <1>4 DEF Ok
<1>6. ~(Len(old) # p.oldSize \/ HashOf(old) # p.from) BY DEF Encoded
<1> DEFINE Out(skew) == IF p.transform = TransformPlain THEN plainPatch(old, b, p.newSize)
                        ELSE ApplyGoAMD64(old, b, p.newSize, skew)
<1>7. Out(<<>>) = Ok(new)
  <2>1. CASE UsesGo(old, new, opts)
    <3>1. p.transform # TransformPlain BY <2>1 DEF Encoded, TransformPlain, TransformGoAMD64
    <3>2. b = EncodeGoAMD64(old, new) BY <2>1 DEF Body
    <3>3. Supported(old) /\ GoInverts(old, new) BY <2>1 DEF UsesGo, Inverts
    <3>4. ApplyGoAMD64(old, EncodeGoAMD64(old, new), Len(new), <<>>) = Ok(new)
      BY <3>3, GoApplies
    <3> HIDE DEF b
    <3>5. QED BY <3>1, <3>2, <3>4 DEF Encoded
  <2>2. CASE ~UsesGo(old, new, opts)
    <3>1. p.transform = TransformPlain BY <2>2 DEF Encoded
    <3>2. b = plainDiff(old, new) BY <2>2 DEF Body
    <3>3. plainPatch(old, plainDiff(old, new), Len(new)) = Ok(new) BY <2>2 DEF Inverts, PlainInverts
    <3> HIDE DEF b
    <3>4. QED BY <3>1, <3>2, <3>3 DEF Encoded
  <2>3. QED BY <2>1, <2>2
<1>8. ASSUME NEW skew
      PROVE Apply(old, p, known, skew) =
              IF p.transform > known THEN Unsupported
              ELSE IF ~Out(skew).ok \/ Len(Out(skew).out) # p.newSize \/ HashOf(Out(skew).out) # p.to
              THEN Failed ELSE Delivered(Out(skew).out)
  <2> HIDE DEF b
  <2>1. QED BY <1>4, <1>5, <1>6 DEF Apply, Unsupported, Failed, Delivered
<1> HIDE DEF Out, b
<1>9. Out(<<>>).ok /\ Out(<<>>).out = new BY <1>7 DEF Ok
<1>10. Len(new) = p.newSize BY DEF Encoded
<1>11. QED BY <1>8, <1>9, <1>10

\* Whatever is applied to whatever: what is delivered has the promised digest.
LEMMA DeliversDigest ==
  ASSUME NEW old, NEW p, NEW known, NEW skew, NEW new, p.to = HashOf(new),
         Apply(old, p, known, skew).kind = "ok"
  PROVE  Apply(old, p, known, skew).out = new
<1> DEFINE o == IF p.transform = TransformPlain THEN plainPatch(old, ReadBody(p).out, p.newSize)
                ELSE ApplyGoAMD64(old, ReadBody(p).out, p.newSize, skew)
<1>1. \/ Apply(old, p, known, skew) = Failed
      \/ Apply(old, p, known, skew) = Unsupported
      \/ Apply(old, p, known, skew) = Delivered(o.out) /\ HashOf(o.out) = p.to
  BY DEF Apply, Failed, Unsupported, Delivered
<1> HIDE DEF o
<1>2. Apply(old, p, known, skew) = Delivered(o.out) /\ HashOf(o.out) = HashOf(new)
  BY <1>1 DEF Failed, Unsupported
<1>3. o.out = new BY <1>2 DEF HashOf
<1>4. QED BY <1>2, <1>3 DEF Delivered

-----------------------------------------------------------------------------
(***************************************************************************)
(* The life of a patch.  A stored patch promises the new file's digest, or *)
(* it is the encoder's but for that digest; an undamaged one is both.      *)
(***************************************************************************)
IsJob ==
  job.kind = "patch" =>
    \E j \in PatchJobs :
      /\ job.old = j.old /\ job.new = j.new /\ job.opts = j.opts

HasFields(p) ==
  p = [magic |-> p.magic, transform |-> p.transform, from |-> p.from, to |-> p.to,
       oldSize |-> p.oldSize, newSize |-> p.newSize, frames |-> p.frames, body |-> p.body]

Promises == patch.to = HashOf(job.new)
Encodes == Encoded(patch, job.old, job.new, job.opts)

PatchStored ==
  stage \in {"stored", "applied"} =>
    /\ job.kind = "patch" /\ Encode(job.old, job.new, job.opts).ok
    /\ Promises \/ Encodes
    /\ ~damaged => Promises /\ Encodes /\ HasFields(patch)

PatchApplied ==
  stage = "applied" =>
    /\ result = Apply(target.base, patch, target.known, target.skew)
    /\ target.base # job.old \/ damaged => target.skew = <<>>
    /\ target.known \in Nat

PatchInv == IsJob /\ PatchStored /\ PatchApplied

\* The record an encoder makes.
LEMMA EncodeIs ==
  ASSUME NEW old, NEW new, NEW opts
  PROVE  LET p == Encode(old, new, opts).patch IN
         /\ Encoded(p, old, new, opts) /\ p.to = HashOf(new)
         /\ HasFields(p)
BY DEF Encode, Encoded, HasFields

\* A damage changes the promised digest alone, or leaves it.
LEMMA DamageIs ==
  ASSUME NEW p, NEW q \in Damages(p),
         HasFields(p), NEW old, NEW new, NEW opts, Encoded(p, old, new, opts)
  PROVE  q.to = p.to \/ Encoded(q, old, new, opts)
<1> USE DEF HasFields
<1>1. CASE \E b : q = [p EXCEPT !.body = b] BY <1>1
<1>2. CASE \E b : q = Rehashed(p, b) BY <1>2 DEF Rehashed
<1>3. CASE \E x : q = [p EXCEPT !.transform = x] BY <1>3
<1>4. CASE \E x : q = [p EXCEPT !.newSize = x] BY <1>4
<1>5. CASE \E x : q = [p EXCEPT !.magic = x] BY <1>5
<1>7. CASE \E x : q = [p EXCEPT !.to = x]
  <2>1. /\ q.magic = p.magic /\ q.transform = p.transform /\ q.from = p.from
        /\ q.oldSize = p.oldSize /\ q.newSize = p.newSize /\ q.frames = p.frames
        /\ q.body = p.body
    BY <1>7
  <2>2. QED BY <2>1 DEF Encoded
<1>8. \/ \E b : q = [p EXCEPT !.body = b]
      \/ \E b : q = Rehashed(p, b)
      \/ \E x : q = [p EXCEPT !.transform = x]
      \/ q = [p EXCEPT !.newSize = Flip(p.newSize)]
      \/ q = [p EXCEPT !.to = HashOf(job.old)]
      \/ q = [p EXCEPT !.magic = FALSE]
      \/ q = [p EXCEPT !.frames[1].codec = (@ + 1) % 4]
      \/ q = [p EXCEPT !.frames[1].len = Flip(@)]
  BY DEF Damages
<1>9. CASE q = [p EXCEPT !.frames[1].codec = (@ + 1) % 4] \/ q = [p EXCEPT !.frames[1].len = Flip(@)]
  <2>1. q.to = p.to BY <1>9
  <2>2. QED BY <2>1
<1>10. QED BY <1>1, <1>2, <1>3, <1>4, <1>5, <1>7, <1>8, <1>9

\* The jobs' files, and that the transforms do their part on them.
LEMMA JobIs ==
  ASSUME IsJob, job.kind = "patch", Encode(job.old, job.new, job.opts).ok
  PROVE  /\ job.old \in ByteStrings /\ job.new \in ByteStrings
         /\ Inverts(job.old, job.new, job.opts)
<1>1. PICK j \in PatchJobs : job.old = j.old /\ job.new = j.new /\ job.opts = j.opts
  BY DEF IsJob
<1>2. j.old \in Seq(Int) /\ j.new \in Seq(Int) BY CodecAssumption
<1>3. Encode(j.old, j.new, j.opts).ok => Inverts(j.old, j.new, j.opts) BY CodecInverts
<1>4. QED BY <1>1, <1>2, <1>3 DEF ByteStrings

\* Nothing is stored or applied when a job begins.
LEMMA PatchInvInit == CodecInit => PatchInv
<1> SUFFICES ASSUME CodecInit PROVE PatchInv OBVIOUS
<1>1. stage = "start" BY DEF CodecInit
<1>2. IsJob
  <2>1. CASE \E j \in PatchJobs : job = [kind |-> "patch", old |-> j.old, new |-> j.new, opts |-> j.opts]
    BY <2>1 DEF IsJob
  <2>2. CASE \E j \in BlobJobs : job = [kind |-> "blob", data |-> j.data, backend |-> j.backend]
    <3>1. job.kind # "patch" BY <2>2
    <3>2. QED BY <3>1 DEF IsJob
  <2>3. QED BY <2>1, <2>2 DEF CodecInit
<1>3. QED BY <1>1, <1>2 DEF PatchInv, PatchStored, PatchApplied

\* The steps that keep the job and whatever a stored patch has.
LEMMA PatchKept ==
  ASSUME PatchInv, job' = job, patch' = patch, damaged' = damaged, target' = target,
         stage' \notin {"stored", "applied"} \/ (stage' = stage /\ result' = result)
  PROVE  PatchInv'
<1>1. IsJob' BY DEF PatchInv, IsJob
<1>2. CASE stage' \notin {"stored", "applied"} BY <1>1, <1>2 DEF PatchInv, PatchStored, PatchApplied
<1>3. CASE stage' = stage /\ result' = result
  BY <1>1, <1>3 DEF PatchInv, PatchStored, PatchApplied, Promises, Encodes
<1>4. QED BY <1>2, <1>3

\* Every step of the codec keeps the patch invariant.
LEMMA PatchInvStep == PatchInv /\ [CodecNext]_vars => PatchInv'
<1> SUFFICES ASSUME PatchInv, [CodecNext]_vars PROVE PatchInv' OBVIOUS
<1>1. CASE EncodePatch
  <2>1. IsJob' BY <1>1 DEF EncodePatch, PatchInv, IsJob
  <2>2. stage' \in {"stored", "refused"} BY <1>1 DEF EncodePatch
  <2>3. PatchStored'
    <3>1. SUFFICES ASSUME stage' = "stored"
          PROVE  /\ job.kind = "patch" /\ job' = job /\ Encode(job.old, job.new, job.opts).ok
                 /\ Promises' /\ Encodes' /\ HasFields(patch')
      BY <1>1, <2>2 DEF EncodePatch, PatchStored
    <3>2. /\ job.kind = "patch" /\ Encode(job.old, job.new, job.opts).ok
          /\ patch' = Encode(job.old, job.new, job.opts).patch /\ job' = job
      BY <1>1, <3>1 DEF EncodePatch
    <3>3. PICK p : p = Encode(job.old, job.new, job.opts).patch OBVIOUS
    <3>4. Encoded(p, job.old, job.new, job.opts) /\ p.to = HashOf(job.new) /\ HasFields(p)
      BY <3>3, EncodeIs
    <3>5. QED BY <3>2, <3>3, <3>4 DEF Promises, Encodes
  <2>4. PatchApplied' BY <2>2 DEF PatchApplied
  <2>5. QED BY <2>1, <2>3, <2>4 DEF PatchInv
<1>2. CASE DamagePatch
  <2>1. /\ stage = "stored" /\ ~damaged /\ damaged' /\ job' = job /\ stage' = stage
        /\ patch' \in Damages(patch)
    BY <1>2 DEF DamagePatch
  <2>2. /\ Promises /\ Encodes /\ HasFields(patch)
        /\ job.kind = "patch" /\ Encode(job.old, job.new, job.opts).ok
    BY <2>1 DEF PatchInv, PatchStored
  <2>3. patch'.to = patch.to \/ Encoded(patch', job.old, job.new, job.opts)
    BY <2>1, <2>2, DamageIs DEF Encodes
  <2>4. Promises' \/ Encodes' BY <2>1, <2>2, <2>3 DEF Promises, Encodes
  <2>5. IsJob' BY <2>1 DEF PatchInv, IsJob
  <2>6. QED BY <2>1, <2>2, <2>4, <2>5 DEF PatchInv, PatchStored, PatchApplied
<1>3. CASE ApplyPatch
  <2>1. /\ stage = "stored" /\ stage' = "applied" /\ job' = job /\ patch' = patch
        /\ damaged' = damaged
    BY <1>3 DEF ApplyPatch
  <2>2. PatchStored' BY <2>1 DEF PatchInv, PatchStored, Promises, Encodes
  <2>3. IsJob' BY <2>1 DEF PatchInv, IsJob
  <2>4. PICK base, known, skew :
          /\ known \in 0..MaxTransform
          /\ base # job.old \/ damaged => known = MaxTransform /\ skew = <<>>
          /\ target' = [base |-> base, known |-> known, skew |-> skew]
          /\ result' = Apply(base, patch, known, skew)
    BY <1>3 DEF ApplyPatch
  <2>5. target'.base = base /\ target'.known = known /\ target'.skew = skew /\ known \in Nat
    BY <2>4, CodecAssumption
  <2>6. PatchApplied' BY <2>1, <2>4, <2>5 DEF PatchApplied
  <2>7. QED BY <2>2, <2>3, <2>6 DEF PatchInv
<1>4. CASE StoreBlob
  <2>1. stage' \in {"fetching", "refused"} /\ job' = job BY <1>4 DEF StoreBlob
  <2>2. QED BY <2>1 DEF PatchInv, IsJob, PatchStored, PatchApplied
<1>5. CASE DamageBlob
  <2>1. stage' = "fetching" /\ job' = job BY <1>5 DEF DamageBlob
  <2>2. QED BY <2>1 DEF PatchInv, IsJob, PatchStored, PatchApplied
<1>6. CASE FetchNext
  <2>1. CASE \E w \in Workers : Feed(w) \/ FrameArrives(w) \/ FrameFails(w)
    BY <2>1, PatchKept DEF Feed, FrameArrives, FrameFails, Rest
  <2>2. CASE SkipFrame BY <2>2, PatchKept DEF SkipFrame, Rest
  <2>3. CASE Interrupt BY <2>3, PatchKept DEF Interrupt, Rest
  <2>4. CASE FetchReturns BY <2>4, PatchKept DEF FetchReturns
  <2>5. QED BY <1>6, <2>1, <2>2, <2>3, <2>4 DEF FetchNext
<1>7. CASE UNCHANGED vars BY <1>7, PatchKept DEF vars
<1>8. QED BY <1>1, <1>2, <1>3, <1>4, <1>5, <1>6, <1>7 DEF CodecNext

\* Every stored patch, and every outcome of applying one, is of this kind.
THEOREM PatchInvariant == CodecSpec => []PatchInv
BY PatchInvInit, PatchInvStep, PTL DEF CodecSpec

\* delta.Encode: the patch reproduces the new file exactly.
THEOREM PatchesRoundTrip == CodecSpec => []RoundTrip
<1>1. PatchInv => RoundTrip
  <2> SUFFICES ASSUME PatchInv, stage = "applied", ~damaged, target.base = job.old,
                      target.skew = <<>>, target.known >= patch.transform
               PROVE  result = [kind |-> "ok", out |-> job.new]
    BY DEF RoundTrip
  <2>1. /\ job.kind = "patch" /\ Encode(job.old, job.new, job.opts).ok /\ Promises /\ Encodes
        /\ result = Apply(job.old, patch, target.known, <<>>) /\ target.known \in Nat
    BY DEF PatchInv, PatchStored, PatchApplied
  <2>2. /\ job.old \in ByteStrings /\ job.new \in ByteStrings
        /\ Inverts(job.old, job.new, job.opts)
    BY <2>1, JobIs DEF PatchInv
  <2>3. HashOf(job.new) = patch.to BY <2>1 DEF Promises
  <2>4. ~(patch.transform > target.known)
    <3>1. patch.transform \in {0, 1} BY <2>1 DEF Encodes, Encoded, TransformPlain, TransformGoAMD64
    <3>2. patch.transform \in Int BY <3>1
    <3>3. QED BY <2>1, <3>2
  <2>5. Apply(job.old, patch, target.known, <<>>) = Delivered(job.new)
    BY <2>1, <2>2, <2>3, <2>4, EncodedApplies DEF Encodes
  <2>6. QED BY <2>1, <2>5 DEF Delivered
<1>2. QED BY <1>1, PatchInvariant, PTL

\* delta.Apply: what is delivered is the new release or nothing, whatever is
\* in the store and at the target.
THEOREM PatchesNeverWrong == CodecSpec => []NeverWrong
<1>1. PatchInv => NeverWrong
  <2> SUFFICES ASSUME PatchInv, stage = "applied", result.kind = "ok" PROVE result.out = job.new
    BY DEF NeverWrong
  <2>1. /\ job.kind = "patch" /\ Encode(job.old, job.new, job.opts).ok
        /\ Promises \/ Encodes
        /\ ~damaged => Promises
        /\ result = Apply(target.base, patch, target.known, target.skew)
        /\ target.base # job.old \/ damaged => target.skew = <<>>
    BY DEF PatchInv, PatchStored, PatchApplied
  <2>2. CASE Promises BY <2>1, <2>2, DeliversDigest DEF Promises
  <2>3. CASE ~Promises
    <3>1. Encodes /\ target.skew = <<>> BY <2>1, <2>3
    <3>2. target.base = job.old
      <4>1. SUFFICES ASSUME target.base # job.old PROVE FALSE OBVIOUS
      <4>2. HashOf(target.base) # patch.from BY <3>1, <4>1 DEF Encodes, Encoded, HashOf
      <4>3. result = Failed BY <2>1, <4>2 DEF Apply, Failed
      <4>4. QED BY <4>3 DEF Failed
    <3>3. /\ job.old \in ByteStrings /\ job.new \in ByteStrings
          /\ Inverts(job.old, job.new, job.opts)
      BY <2>1, JobIs DEF PatchInv
    <3>4. \/ result = Unsupported
          \/ result = IF HashOf(job.new) = patch.to THEN Delivered(job.new) ELSE Failed
      BY <2>1, <3>1, <3>2, <3>3, EncodedApplies DEF Encodes
    <3>5. QED BY <3>4 DEF Unsupported, Failed, Delivered
  <2>4. QED BY <2>2, <2>3
<1>2. QED BY <1>1, PatchInvariant, PTL

\* ErrUnsupportedTransform is what a build that is too old gets, and gets it
\* for that reason only.
THEOREM OldBuildsTakeBlob == CodecSpec => []OldBuildTakesBlob
<1>1. PatchInv => OldBuildTakesBlob
  <2> SUFFICES ASSUME PatchInv, stage = "applied"
               PROVE  /\ ~damaged /\ target.base = job.old /\ target.known < patch.transform
                           => result.kind = "unsupported"
                      /\ result.kind = "unsupported" => target.known < patch.transform
    BY DEF OldBuildTakesBlob
  <2>1. result = Apply(target.base, patch, target.known, target.skew)
    BY DEF PatchInv, PatchApplied
  <2>2. ASSUME ~damaged, target.base = job.old, target.known < patch.transform
        PROVE  result.kind = "unsupported"
    <3>1. /\ job.kind = "patch" /\ Encode(job.old, job.new, job.opts).ok /\ Encodes
          /\ target.known \in Nat
      BY <2>2 DEF PatchInv, PatchStored, PatchApplied
    <3>2. /\ job.old \in ByteStrings /\ job.new \in ByteStrings
          /\ Inverts(job.old, job.new, job.opts)
      BY <3>1, JobIs DEF PatchInv
    <3>3. patch.transform \in {0, 1} BY <3>1 DEF Encodes, Encoded, TransformPlain, TransformGoAMD64
    <3>4. patch.transform > target.known BY <2>2, <3>1, <3>3
    <3>5. result = Unsupported BY <2>1, <2>2, <3>1, <3>2, <3>4, EncodedApplies DEF Encodes
    <3>6. QED BY <3>5 DEF Unsupported
  <2>3. ASSUME result.kind = "unsupported" PROVE target.known < patch.transform
    <3>1. patch.transform > target.known BY <2>1, <2>3 DEF Apply
    <3>2. QED BY <3>1
  <2>4. QED BY <2>2, <2>3
<1>2. QED BY <1>1, PatchInvariant, PTL

-----------------------------------------------------------------------------
(***************************************************************************)
(* A blob, and its frames read from each kind of store.                    *)
(***************************************************************************)
\* The smaller of two numbers.
LEMMA MinIs ==
  ASSUME NEW x \in Nat, NEW y \in Nat
  PROVE  Min({x, y}) = IF x <= y THEN x ELSE y
<1>1. {x, y} \subseteq 0..(x + y) /\ {x, y} # {} /\ 0 \in Int /\ x + y \in Int OBVIOUS
<1>2. Min({x, y}) \in {x, y} /\ \A v \in {x, y} : Min({x, y}) <= v BY <1>1, MinMaxOf
<1>3. QED BY <1>2

\* The blob of a release describes its object, and its check accepts it.
LEMMA BlobIs ==
  ASSUME NEW data \in ByteStrings, LosslessFrames(data)
  PROVE  LET b == EncodeBlob(data)  n == NFrames(data) IN
         /\ b.object = FlattenSeq(Zs(data)) /\ b.size = Len(b.object) /\ b.hash = HashOf(data)
         /\ Len(b.frames) = n /\ \A i \in 1..n : FrameOf(data, b.frames, i)
         /\ \A i \in 1..n : b.frames[i].zoff = ZOff(b.frames, i)
         /\ PlainSize(b) = Len(data) /\ BlobCheck(b)
<1> DEFINE b == EncodeBlob(data)
           n == NFrames(data)
           g == FrameBody(data)
           f == b.frames
<1>1. /\ n \in Nat \ {0} /\ Len(g) = n /\ \A i \in 1..n : FrameOf(data, g, i)
      /\ StoredBytes(g) = FlattenSeq(Zs(data))
  BY FrameBodyIs
<1>2. /\ b.object = FlattenSeq(Zs(data)) /\ b.size = Len(b.object) /\ b.hash = HashOf(data)
      /\ f = [i \in 1..Len(g) |->
                [off |-> g[i].off, len |-> g[i].len, zoff |-> ZOff(g, i),
                 zlen |-> g[i].zlen, codec |-> g[i].codec, b3 |-> g[i].b3]]
  BY <1>1 DEF EncodeBlob
<1> HIDE DEF b, g, n
<1>3. Len(f) = n /\ DOMAIN f = 1..n BY <1>1, <1>2
<1>4. \A i \in 1..n : /\ f[i].off = g[i].off /\ f[i].len = g[i].len /\ f[i].zoff = ZOff(g, i)
                      /\ f[i].zlen = g[i].zlen /\ f[i].codec = g[i].codec /\ f[i].b3 = g[i].b3
  BY <1>1, <1>2
<1>5. \A i \in 1..n : FrameOf(data, f, i) BY <1>1, <1>4 DEF FrameOf
<1>6. ASSUME NEW i \in 1..(n + 1) PROVE ZOff(g, i) = ZOff(f, i)
  <2>1. \A j \in 1..(i - 1) : j \in 1..n BY <1>1
  <2>2. [j \in 1..(i - 1) |-> g[j].zlen] = [j \in 1..(i - 1) |-> f[j].zlen] BY <1>4, <2>1
  <2>3. QED BY <2>2 DEF ZOff
<1>7. \A i \in 1..n : f[i].zoff = ZOff(f, i)
  <2> TAKE i \in 1..n
  <2>1. i \in 1..(n + 1) BY <1>1
  <2>2. QED BY <1>4, <1>6, <2>1
<1>8. PlainSize(b) = Len(data)
  <2>1. n + 1 \in 1..(n + 1) /\ (n + 1) - 1 = n BY <1>1
  <2>2. Total([j \in 1..((n + 1) - 1) |-> f[j].len]) = FrameEnd(data, (n + 1) - 1)
    BY <1>5, <2>1, LengthsAre DEF n
  <2>3. FrameEnd(data, n) = Len(data) BY ChunksAre DEF n, NFrames
  <2>4. Total([j \in 1..n |-> f[j].len]) = Len(data) BY <2>1, <2>2, <2>3
  <2>5. QED BY <1>3, <2>4 DEF PlainSize
<1>9. /\ ZOff(f, n + 1) = Len(b.object)
      /\ \A i \in 1..n : f[i].zlen \in Nat
  BY <1>2, <1>5, StoredAt DEF n
<1>10. ASSUME NEW i \in 1..n
       PROVE  /\ f[i].len \in 0..FrameSize
              /\ f[i].off = Total([j \in 1..(i - 1) |-> f[j].len])
  <2>1. ChunkIs(data, i) BY ChunksAre DEF n, NFrames
  <2>2. f[i].len = FrameEnd(data, i) - FrameEnd(data, i - 1) BY <1>5, <2>1 DEF FrameOf, ChunkIs
  <2>3. f[i].len \in 0..FrameSize BY <2>1, <2>2, CodecAssumption DEF ChunkIs
  <2>4. i \in 1..(n + 1) BY <1>1
  <2>5. Total([j \in 1..(i - 1) |-> f[j].len]) = FrameEnd(data, i - 1) /\ FrameEnd(data, i - 1) = f[i].off
    BY <1>5, <2>4, LengthsAre DEF n
  <2>6. QED BY <2>3, <2>5
<1>11. BlobCheck(b)
  <2>1. \A i \in 1..n : f[i].zlen >= 0 BY <1>9
  <2>2. QED BY <1>2, <1>3, <1>7, <1>9, <1>10, <2>1 DEF BlobCheck
<1>12. QED BY <1>2, <1>3, <1>5, <1>7, <1>8, <1>11 DEF b, n

\* A range inside an object, asked of any store: the bytes themselves.  The
\* only empty range is that of an empty object.
LEMMA GetIs ==
  ASSUME NEW backend \in Backends, NEW object \in ByteStrings, NEW at \in Nat, NEW len \in Nat,
         at + len <= Len(object), len > 0 \/ object = <<>>
  PROVE  Get(backend, object, at, len) = Ok(Cut(object, at, at + len))
<1>1. Len(object) \in Nat BY LenProperties DEF ByteStrings
<1>2. object = <<>> => Len(object) = 0 OBVIOUS
<1>3. PICK L, e : L = Len(object) /\ e = at + len OBVIOUS
<1>4. /\ L \in Nat /\ e \in Nat /\ at <= L /\ e <= L /\ at <= e
      /\ ~(len > 0) => at = 0 /\ e = 0 /\ L = 0
      /\ len > 0 => ~(at >= L)
      /\ ~(at > L)
  BY <1>1, <1>2, <1>3
<1>5. Min({at, L}) = at
  <2>1. Min({at, L}) = IF at <= L THEN at ELSE L BY <1>4, MinIs
  <2>2. QED BY <1>4, <2>1
<1>6. Min({e, L}) = e
  <2>1. Min({e, L}) = IF e <= L THEN e ELSE L BY <1>4, MinIs
  <2>2. QED BY <1>4, <2>1
<1>7. FileRange(object, at, len) = Ok(Cut(object, at, e))
  <2>1. (IF len > 0 THEN Min({at + len, Len(object)}) ELSE Len(object)) = e
    <3>1. CASE len > 0 BY <1>3, <1>6, <3>1
    <3>2. CASE ~(len > 0) BY <1>3, <1>4, <3>2
    <3>3. QED BY <3>1, <3>2
  <2>2. Min({at, Len(object)}) = at BY <1>3, <1>5
  <2>3. QED BY <2>1, <2>2 DEF FileRange
<1>8. HttpRange(object, at, len) = FileRange(object, at, len)
  <2>1. CASE len > 0
    <3>1. ~(at >= Len(object)) BY <1>3, <1>4, <2>1
    <3>2. QED BY <3>1 DEF HttpRange
  <2>2. CASE ~(len > 0)
    <3>1. at = 0 /\ len = 0 BY <1>4, <2>2
    <3>2. QED BY <3>1 DEF HttpRange, Whole
  <2>3. QED BY <2>1, <2>2
<1>9. HttpWhole(object, at, len) = FileRange(object, at, len)
  <2>1. ~(at > Len(object)) BY <1>3, <1>4
  <2>2. QED BY <2>1 DEF HttpWhole
<1>10. S3Range(object, at, len) = FileRange(object, at, len)
  <2>1. CASE len > 0
    <3>1. len # 0 BY <2>1
    <3>2. QED BY <1>8, <3>1 DEF S3Range
  <2>2. CASE ~(len > 0)
    <3>1. len = 0 /\ at = 0 /\ e = 0 /\ L = 0 BY <1>4, <2>2
    <3>2. Cut(object, 0, L) = object BY <1>3, CutAll
    <3>3. FileRange(object, at, len) = Ok(object) BY <1>7, <3>1, <3>2
    <3>4. QED BY <3>1, <3>3 DEF S3Range
  <2>3. QED BY <2>1, <2>2
<1>11. Get(backend, object, at, len) = FileRange(object, at, len)
  BY <1>8, <1>9, <1>10 DEF Get, Backends
<1>12. QED BY <1>3, <1>7, <1>11

\* A frame of an undamaged blob is fetched and decompressed, from every store.
LEMMA FrameFetches ==
  ASSUME NEW data \in ByteStrings, LosslessFrames(data), NEW backend \in Backends,
         NEW i \in 1..NFrames(data)
  PROVE  FetchFrame(backend, EncodeBlob(data).object, EncodeBlob(data).frames[i])
           = Ok(Chunk(data, i))
<1> DEFINE n == NFrames(data)
           b == EncodeBlob(data)
           f == b.frames
           object == b.object
           z == Zs(data)[i]
<1>1. n \in Nat \ {0} /\ (data = <<>> => n = 1) /\ ChunkIs(data, i)
  BY ChunksAre DEF NFrames
<1>2. /\ object = FlattenSeq(Zs(data))
      /\ \A k \in 1..n : FrameOf(data, f, k)
      /\ \A k \in 1..n : f[k].zoff = ZOff(f, k)
  BY BlobIs
<1> HIDE DEF b, n
<1>3. Chunk(data, i) \in ByteStrings /\ Lossless(Chunk(data, i))
  BY <1>1 DEF ChunkIs, LosslessFrames, NFrames
<1>4. /\ z = Compress(Chunk(data, i)).z /\ z \in ByteStrings
      /\ Chunk(data, i) # <<>> => z # <<>>
      /\ Decompress(Compress(Chunk(data, i)).codec, z, Len(Chunk(data, i))) = Ok(Chunk(data, i))
  BY <1>3, CompressIs DEF Zs
<1>5. /\ f[i].codec = Compress(Chunk(data, i)).codec /\ f[i].len = Len(Chunk(data, i))
      /\ f[i].b3 = HashOf(z) /\ f[i].zlen = Len(z) /\ f[i].zoff = ZOff(f, i)
  BY <1>2 DEF FrameOf, n
<1> HIDE DEF z
<1>6. /\ object \in ByteStrings /\ ZOff(f, 1) = 0 /\ ZOff(f, n + 1) = Len(object)
      /\ ZOff(f, i) \in Nat /\ ZOff(f, i + 1) = ZOff(f, i) + f[i].zlen
      /\ ZOff(f, i + 1) <= Len(object) /\ Stored(object, f, i) = z
  BY <1>2, StoredAt DEF n, z
<1> HIDE DEF object, f
<1>7. PICK at, len : at = ZOff(f, i) /\ len = f[i].zlen OBVIOUS
<1>8. at \in Nat /\ len \in Nat /\ len = Len(z) /\ at + len <= Len(object)
  BY <1>4, <1>5, <1>6, <1>7, LenProperties DEF ByteStrings
<1>9. len > 0 \/ object = <<>>
  <2>1. SUFFICES ASSUME ~(len > 0) PROVE object = <<>> OBVIOUS
  <2>2. len = 0 BY <1>8, <2>1
  <2>3. z = <<>> BY <1>4, <1>8, <2>2, EmptySeq DEF ByteStrings
  <2>4. data = <<>> BY <1>1, <1>4, <2>3 DEF ChunkIs
  <2>5. i = 1 /\ n = 1 BY <1>1, <2>4 DEF n
  <2>6. Len(object) = 0 BY <1>6, <1>7, <2>2, <2>5
  <2>7. QED BY <1>6, <2>6, EmptySeq DEF ByteStrings
<1>10. Get(backend, object, at, len) = Ok(Cut(object, at, at + len))
  BY <1>6, <1>8, <1>9, GetIs
<1>11. Cut(object, at, at + len) = z BY <1>6, <1>7 DEF Stored
<1>12. Get(backend, object, f[i].zoff, f[i].zlen) = Ok(z) BY <1>5, <1>7, <1>10, <1>11
<1>13. Cut(z, 0, Min({len + 1, Len(z)})) = z
  <2>1. len + 1 \in Nat /\ ~(len + 1 <= len) BY <1>8
  <2>2. PICK l1 : l1 = len + 1 OBVIOUS
  <2>3. Min({l1, len}) = IF l1 <= len THEN l1 ELSE len BY <1>8, <2>1, <2>2, MinIs
  <2>4. Min({len + 1, Len(z)}) = Len(z) BY <1>8, <2>1, <2>2, <2>3
  <2>5. QED BY <1>4, <2>4, CutAll
<1>14. Ok(z).ok /\ Ok(z).out = z BY DEF Ok
<1>15. FetchFrame(backend, object, f[i]) = DecodeFrame(f[i], z)
  <2>1. Cut(z, 0, Min({f[i].zlen + 1, Len(z)})) = z BY <1>7, <1>13
  <2>2. QED BY <1>12, <1>14, <2>1 DEF FetchFrame
<1>16. DecodeFrame(f[i], z) = Ok(Chunk(data, i)) BY <1>4, <1>5 DEF DecodeFrame
<1>17. QED BY <1>15, <1>16 DEF f, object, b

\* copy(b[i:], s) inside b: s is there, and the rest is as it was.
LEMMA SpliceOf ==
  ASSUME NEW V, NEW b \in Seq(V), NEW s \in Seq(V), NEW i \in Nat, i + Len(s) <= Len(b)
  PROVE  /\ Splice(b, i, s) \in Seq(V) /\ Len(Splice(b, i, s)) = Len(b)
         /\ \A k \in 1..Len(b) :
              Splice(b, i, s)[k] = IF i < k /\ k <= i + Len(s) THEN s[k - i] ELSE b[k]
<1>1. Len(b) \in Nat /\ Len(s) \in Nat BY LenProperties
<1>2. PICK z, L, m, e : z = 0 /\ L = Len(b) /\ m = Len(s) /\ e = i + Len(s) OBVIOUS
<1>3. /\ z \in Nat /\ L \in Nat /\ m \in Nat /\ e \in Nat /\ z <= i /\ i <= L /\ e <= L
      /\ e = i + m /\ i <= e
  BY <1>1, <1>2
<1>4. PICK p \in Seq(V) : p = Cut(b, z, i) /\ Len(p) = i - z
                               /\ \A k \in 1..(i - z) : p[k] = b[z + k]
  <2>1. i <= Len(b) BY <1>2, <1>3
  <2>2. /\ Cut(b, z, i) \in Seq(V) /\ Len(Cut(b, z, i)) = i - z
        /\ \A k \in 1..(i - z) : Cut(b, z, i)[k] = b[z + k]
    BY <1>3, <2>1, CutOf
  <2>3. QED BY <2>2
<1>5. PICK q \in Seq(V) : q = Cut(b, e, L) /\ Len(q) = L - e
                               /\ \A k \in 1..(L - e) : q[k] = b[e + k]
  <2>1. e \in Nat /\ L \in Nat /\ e <= L /\ L <= Len(b) BY <1>2, <1>3
  <2>2. /\ Cut(b, e, L) \in Seq(V) /\ Len(Cut(b, e, L)) = L - e
        /\ \A k \in 1..(L - e) : Cut(b, e, L)[k] = b[e + k]
    BY <2>1, CutOf
  <2>3. QED BY <2>2
<1>6. PICK r \in Seq(V) : r = p \o s BY JoinOf
<1>7. /\ Len(r) = i + m /\ \A k \in 1..i : r[k] = b[k]
      /\ \A k \in 1..m : r[i + k] = s[k]
  <2>1. Len(p) = i /\ \A k \in 1..i : p[k] = b[k] BY <1>2, <1>3, <1>4
  <2>2. /\ Len(r) = Len(p) + Len(s) /\ \A k \in 1..Len(p) : r[k] = p[k]
        /\ \A k \in 1..Len(s) : r[Len(p) + k] = s[k]
    BY <1>6, JoinOf
  <2>3. QED BY <1>2, <1>3, <2>1, <2>2
<1>8. Splice(b, i, s) = r \o q BY <1>2, <1>4, <1>5, <1>6 DEF Splice
<1>9. PICK w \in Seq(V) : w = r \o q BY JoinOf
<1>10. /\ Len(w) = L /\ \A k \in 1..e : w[k] = r[k]
       /\ \A k \in 1..(L - e) : w[e + k] = b[e + k]
  <2>1. Len(r) = e /\ Len(q) = L - e BY <1>3, <1>5, <1>7
  <2>2. /\ Len(w) = Len(r) + Len(q) /\ \A k \in 1..Len(r) : w[k] = r[k]
        /\ \A k \in 1..Len(q) : w[Len(r) + k] = q[k]
    BY <1>9, JoinOf
  <2>3. QED BY <1>3, <1>5, <2>1, <2>2
<1>11. ASSUME NEW k \in 1..L
       PROVE  w[k] = IF i < k /\ k <= e THEN s[k - i] ELSE b[k]
  <2>1. CASE k <= i
    <3>1. k \in 1..e /\ k \in 1..i /\ ~(i < k) BY <1>3, <2>1
    <3>2. QED BY <1>7, <1>10, <3>1
  <2>2. CASE i < k /\ k <= e
    <3>1. PICK j : j = k - i OBVIOUS
    <3>2. k \in 1..e /\ j \in 1..m /\ i + j = k BY <1>3, <2>2, <3>1
    <3>3. w[k] = r[k] /\ r[i + j] = s[j] BY <1>7, <1>10, <3>2
    <3>4. QED BY <2>2, <3>1, <3>2, <3>3
  <2>3. CASE e < k
    <3>1. PICK j : j = k - e OBVIOUS
    <3>2. j \in 1..(L - e) /\ e + j = k /\ ~(k <= e) BY <1>3, <2>3, <3>1
    <3>3. w[e + j] = b[e + j] BY <1>10, <3>2
    <3>4. QED BY <3>2, <3>3
  <2>4. QED BY <1>3, <2>1, <2>2, <2>3
<1>12. QED BY <1>2, <1>8, <1>9, <1>10, <1>11

\* and in a byte string.
LEMMA SpliceIs ==
  ASSUME NEW b \in ByteStrings, NEW s \in ByteStrings, NEW i \in Nat, i + Len(s) <= Len(b)
  PROVE  /\ Splice(b, i, s) \in ByteStrings /\ Len(Splice(b, i, s)) = Len(b)
         /\ \A k \in 1..Len(b) :
              Splice(b, i, s)[k] = IF i < k /\ k <= i + Len(s) THEN s[k - i] ELSE b[k]
BY SpliceOf DEF ByteStrings

-----------------------------------------------------------------------------
(***************************************************************************)
(* The fetch of a blob.  While nothing has gone wrong, every frame handed  *)
(* out is with a worker or in its place in the buffer.                     *)
(***************************************************************************)
BlobJob ==
  job.kind = "blob" =>
    \E j \in BlobJobs : job.data = j.data /\ job.backend = j.backend

Unstarted ==
  stage = "start" =>
    /\ ~damaged /\ worker = [w \in Workers |-> 0] /\ next = 1 /\ ~cancelled
    /\ errs = 0 /\ faults = MaxFaults

BlobStored ==
  stage = "fetching" =>
    /\ job.kind = "blob"
    /\ blob.frames = EncodeBlob(job.data).frames /\ blob.hash = HashOf(job.data)
    /\ ~damaged => blob = EncodeBlob(job.data)
    /\ faults \in 0..MaxFaults /\ worker \in [Workers -> Int]
    /\ next \in 1..(NFrames(job.data) + 1)

\* Frame i is in the buffer.
Filled(buf, i) ==
  \A k \in (FrameEnd(job.data, i - 1) + 1)..FrameEnd(job.data, i) : buf[k] = job.data[k]

Gathering ==
  stage = "fetching" /\ ~damaged /\ faults = MaxFaults =>
    /\ errs = 0 /\ ~cancelled
    /\ \A w \in Workers : 0 <= worker[w] /\ worker[w] < next
    /\ out \in ByteStrings /\ Len(out) = Len(job.data)
    /\ \A i \in 1..(next - 1) : (\E w \in Workers : worker[w] = i) \/ Filled(out, i)

BlobInv == BlobJob /\ Unstarted /\ BlobStored /\ Gathering /\ FetchedWhole

\* The jobs' files, and that the compressors do their part on them.
LEMMA BlobJobIs ==
  ASSUME BlobJob, job.kind = "blob"
  PROVE  job.data \in ByteStrings /\ LosslessFrames(job.data) /\ job.backend \in Backends
<1>1. PICK j \in BlobJobs : job.data = j.data /\ job.backend = j.backend BY DEF BlobJob
<1>2. j.backend \in Backends /\ LosslessFrames(j.data) BY CodecAssumption, CodecInverts
<1>3. QED BY <1>1, <1>2 DEF LosslessFrames, ByteStrings

\* Nothing is fetched when a job begins.
LEMMA BlobInvInit == CodecInit => BlobInv
<1> SUFFICES ASSUME CodecInit PROVE BlobInv OBVIOUS
<1>1. BlobJob
  <2>1. CASE \E j \in BlobJobs : job = [kind |-> "blob", data |-> j.data, backend |-> j.backend]
    BY <2>1 DEF BlobJob
  <2>2. CASE \E j \in PatchJobs : job = [kind |-> "patch", old |-> j.old, new |-> j.new, opts |-> j.opts]
    <3>1. job.kind # "blob" BY <2>2
    <3>2. QED BY <3>1 DEF BlobJob
  <2>3. QED BY <2>1, <2>2 DEF CodecInit
<1>2. stage = "start" BY DEF CodecInit
<1>3. Unstarted BY DEF CodecInit, Unstarted
<1>4. QED BY <1>1, <1>2, <1>3 DEF BlobInv, BlobStored, Gathering, FetchedWhole

\* Nothing but the fetch is left to look at once a job has started.
LEMMA BlobElsewhere ==
  ASSUME BlobInv, job' = job, stage' \notin {"start", "fetching", "fetched"}
  PROVE  BlobInv'
BY DEF BlobInv, BlobJob, Unstarted, BlobStored, Gathering, FetchedWhole

\* The encoder's blob is accepted, and the fetch starts with an empty buffer.
LEMMA StoreBlobStep == BlobInv /\ StoreBlob => BlobInv'
<1> SUFFICES ASSUME BlobInv, StoreBlob PROVE BlobInv' OBVIOUS
<1> DEFINE n == NFrames(job.data)
<1>1. /\ stage = "start" /\ job.kind = "blob" /\ blob' = EncodeBlob(job.data)
      /\ stage' = IF BlobCheck(blob') THEN "fetching" ELSE "refused"
      /\ out' = Zeros(PlainSize(blob'))
      /\ job' = job /\ damaged' = damaged /\ worker' = worker /\ next' = next
      /\ cancelled' = cancelled /\ errs' = errs /\ faults' = faults
  BY DEF StoreBlob
<1>2. BlobJob /\ Unstarted BY DEF BlobInv
<1>3. job.data \in ByteStrings /\ LosslessFrames(job.data) BY <1>1, <1>2, BlobJobIs
<1>4. PICK b : b = EncodeBlob(job.data) OBVIOUS
<1>5. b.hash = HashOf(job.data) /\ PlainSize(b) = Len(job.data) /\ BlobCheck(b)
  BY <1>3, <1>4, BlobIs
<1>6. stage' = "fetching" /\ out' = Zeros(Len(job.data)) BY <1>1, <1>4, <1>5
<1>7. n \in Nat \ {0} BY <1>3, ChunksAre DEF NFrames
<1>8. Len(job.data) \in Nat BY <1>3, LenProperties DEF ByteStrings
<1>9. out' \in ByteStrings /\ Len(out') = Len(job.data)
  <2>1. PICK L \in Nat : L = Len(job.data) BY <1>8
  <2>2. Zeros(L) \in Seq(Int) /\ Len(Zeros(L)) = L
    <3>1. Zeros(L) \in [1..L -> Int] BY DEF Zeros
    <3>2. QED BY <3>1
  <2>3. QED BY <1>6, <2>1, <2>2 DEF ByteStrings
<1>10. /\ ~damaged' /\ worker' = [w \in Workers |-> 0] /\ next' = 1 /\ ~cancelled'
       /\ errs' = 0 /\ faults' = MaxFaults
  BY <1>1, <1>2 DEF Unstarted
<1>11. worker' \in [Workers -> Int] /\ \A w \in Workers : worker'[w] = 0 BY <1>10
<1>12. BlobStored'
  <2>1. 1 \in 1..(n + 1) BY <1>7
  <2>2. faults' \in 0..MaxFaults BY <1>10, CodecAssumption
  <2>3. QED BY <1>1, <1>4, <1>5, <1>10, <1>11, <2>1, <2>2 DEF BlobStored
<1>13. Gathering'
  <2>1. \A w \in Workers : 0 <= worker'[w] /\ worker'[w] < next' BY <1>10, <1>11
  <2>2. \A i \in 1..(next' - 1) : FALSE BY <1>10
  <2>3. QED BY <1>1, <1>9, <1>10, <2>1, <2>2 DEF Gathering
<1>14. BlobJob' BY <1>1, <1>2 DEF BlobJob
<1>15. QED BY <1>6, <1>12, <1>13, <1>14 DEF BlobInv, Unstarted, FetchedWhole

\* Changed bytes leave the description of the blob as it was.
LEMMA DamageBlobStep == BlobInv /\ DamageBlob => BlobInv'
<1> SUFFICES ASSUME BlobInv, DamageBlob PROVE BlobInv' OBVIOUS
<1>1. /\ stage = "fetching" /\ ~damaged /\ damaged' /\ job' = job /\ stage' = stage
      /\ worker' = worker /\ next' = next /\ faults' = faults
      /\ \E o : blob' = [blob EXCEPT !.object = o]
  BY DEF DamageBlob, fetch
<1>2. BlobJob /\ BlobStored /\ blob = EncodeBlob(job.data) BY <1>1 DEF BlobInv, BlobStored
<1>3. blob'.frames = blob.frames /\ blob'.hash = blob.hash BY <1>1, <1>2 DEF EncodeBlob
<1>4. BlobStored' BY <1>1, <1>2, <1>3 DEF BlobStored
<1>5. BlobJob' BY <1>1, <1>2 DEF BlobJob
<1>6. QED BY <1>1, <1>4, <1>5 DEF BlobInv, Unstarted, Gathering, FetchedWhole

\* What a step of the fetch leaves alone.
LEMMA FetchKeeps ==
  ASSUME BlobInv, Fetching, UNCHANGED Rest
  PROVE  /\ BlobJob' /\ Unstarted' /\ FetchedWhole'
         /\ job' = job /\ stage' = "fetching" /\ blob' = blob /\ damaged' = damaged
         /\ job.data \in ByteStrings /\ LosslessFrames(job.data) /\ job.backend \in Backends
         /\ NFrames(job.data) \in Nat \ {0} /\ Len(blob.frames) = NFrames(job.data)
         /\ blob.frames = EncodeBlob(job.data).frames /\ blob.hash = HashOf(job.data)
         /\ ~damaged => blob = EncodeBlob(job.data)
         /\ faults \in 0..MaxFaults /\ worker \in [Workers -> Int]
         /\ next \in 1..(NFrames(job.data) + 1)
         /\ (faults' \in 0..MaxFaults /\ worker' \in [Workers -> Int]
               /\ next' \in 1..(NFrames(job.data) + 1)) => BlobStored'
<1>1. stage = "fetching" /\ stage' = stage /\ job' = job /\ blob' = blob /\ damaged' = damaged
  BY DEF Fetching, Rest
<1>2. /\ BlobJob /\ job.kind = "blob" /\ blob.frames = EncodeBlob(job.data).frames
      /\ blob.hash = HashOf(job.data) /\ (~damaged => blob = EncodeBlob(job.data))
      /\ faults \in 0..MaxFaults /\ worker \in [Workers -> Int]
      /\ next \in 1..(NFrames(job.data) + 1)
  BY <1>1 DEF BlobInv, BlobStored
<1>3. job.data \in ByteStrings /\ LosslessFrames(job.data) /\ job.backend \in Backends
  BY <1>2, BlobJobIs
<1>4. NFrames(job.data) \in Nat \ {0} BY <1>3, ChunksAre DEF NFrames
<1>5. Len(blob.frames) = NFrames(job.data) BY <1>2, <1>3, BlobIs
<1>6. BlobJob' BY <1>1, <1>2 DEF BlobJob
<1>7. Unstarted' /\ FetchedWhole' BY <1>1 DEF Unstarted, FetchedWhole
<1>8. (faults' \in 0..MaxFaults /\ worker' \in [Workers -> Int]
         /\ next' \in 1..(NFrames(job.data) + 1)) => BlobStored'
  BY <1>1, <1>2 DEF BlobStored
<1>9. QED BY <1>1, <1>2, <1>3, <1>4, <1>5, <1>6, <1>7, <1>8

\* The frame handed out is with the worker that took it.
LEMMA FeedStep == ASSUME BlobInv, NEW w \in Workers, Feed(w) PROVE BlobInv'
<1> DEFINE n == NFrames(job.data)
<1>1. /\ Fetching /\ UNCHANGED Rest /\ next <= Len(blob.frames) /\ worker[w] = 0
      /\ worker' = [worker EXCEPT ![w] = next] /\ next' = next + 1
      /\ out' = out /\ cancelled' = cancelled /\ errs' = errs /\ faults' = faults
  BY DEF Feed
<1>2. /\ BlobJob' /\ Unstarted' /\ FetchedWhole'
      /\ job' = job /\ stage' = "fetching" /\ damaged' = damaged
      /\ n \in Nat \ {0} /\ Len(blob.frames) = n
      /\ faults \in 0..MaxFaults /\ worker \in [Workers -> Int] /\ next \in 1..(n + 1)
      /\ (faults' \in 0..MaxFaults /\ worker' \in [Workers -> Int] /\ next' \in 1..(n + 1))
           => BlobStored'
  BY <1>1, FetchKeeps
<1> HIDE DEF n
<1>3. next' \in 1..(n + 1) /\ next \in Nat \ {0} BY <1>1, <1>2
<1>4. worker' \in [Workers -> Int] BY <1>1, <1>2, <1>3
<1>5. BlobStored' BY <1>1, <1>2, <1>3, <1>4
<1>6. /\ worker'[w] = next /\ \A v \in Workers : v # w => worker'[v] = worker[v]
  BY <1>1, <1>2
<1>7. Gathering'
  <2> SUFFICES ASSUME ~damaged, faults = MaxFaults
               PROVE  /\ errs' = 0 /\ ~cancelled'
                      /\ \A v \in Workers : 0 <= worker'[v] /\ worker'[v] < next'
                      /\ out' \in ByteStrings /\ Len(out') = Len(job'.data)
                      /\ \A i \in 1..(next' - 1) :
                           (\E v \in Workers : worker'[v] = i) \/ Filled(out, i)'
    BY <1>1, <1>2 DEF Gathering
  <2>1. /\ errs = 0 /\ ~cancelled /\ out \in ByteStrings /\ Len(out) = Len(job.data)
        /\ \A v \in Workers : 0 <= worker[v] /\ worker[v] < next
        /\ \A i \in 1..(next - 1) : (\E v \in Workers : worker[v] = i) \/ Filled(out, i)
    BY <1>1 DEF BlobInv, Gathering, Fetching
  <2>2. ASSUME NEW v \in Workers PROVE 0 <= worker'[v] /\ worker'[v] < next'
    <3>1. CASE v = w BY <1>1, <1>3, <1>6, <3>1
    <3>2. CASE v # w
      <4>1. worker'[v] = worker[v] /\ worker[v] \in Int BY <1>2, <1>6, <3>2
      <4>2. QED BY <1>1, <1>3, <2>1, <4>1
    <3>3. QED BY <3>1, <3>2
  <2>3. ASSUME NEW i \in 1..(next' - 1)
        PROVE  (\E v \in Workers : worker'[v] = i) \/ Filled(out, i)'
    <3>1. CASE i = next BY <1>6, <3>1
    <3>2. CASE i # next
      <4>1. i \in 1..(next - 1) /\ i # 0 BY <1>1, <1>3, <3>2
      <4>2. CASE Filled(out, i) BY <1>1, <1>2, <4>2 DEF Filled
      <4>3. CASE \E v \in Workers : worker[v] = i
        <5>1. PICK v \in Workers : worker[v] = i BY <4>3
        <5>2. v # w BY <1>1, <4>1, <5>1
        <5>3. QED BY <1>6, <5>1, <5>2
      <4>4. QED BY <2>1, <4>1, <4>2, <4>3
    <3>3. QED BY <3>1, <3>2
  <2>4. QED BY <1>1, <1>2, <2>1, <2>2, <2>3
<1>8. QED BY <1>2, <1>5, <1>7 DEF BlobInv

\* A frame is dropped only once something has gone wrong.
LEMMA SkipFrameStep == BlobInv /\ SkipFrame => BlobInv'
<1> SUFFICES ASSUME BlobInv, SkipFrame PROVE BlobInv' OBVIOUS
<1> DEFINE n == NFrames(job.data)
<1>1. /\ Fetching /\ UNCHANGED Rest /\ cancelled /\ next <= Len(blob.frames)
      /\ next' = next + 1 /\ worker' = worker /\ faults' = faults
  BY DEF SkipFrame
<1>2. /\ BlobJob' /\ Unstarted' /\ FetchedWhole'
      /\ n \in Nat \ {0} /\ Len(blob.frames) = n /\ damaged' = damaged
      /\ faults \in 0..MaxFaults /\ worker \in [Workers -> Int] /\ next \in 1..(n + 1)
      /\ (faults' \in 0..MaxFaults /\ worker' \in [Workers -> Int] /\ next' \in 1..(n + 1))
           => BlobStored'
  BY <1>1, FetchKeeps
<1> HIDE DEF n
<1>3. BlobStored' BY <1>1, <1>2
<1>4. damaged \/ faults # MaxFaults BY <1>1 DEF BlobInv, Gathering, Fetching
<1>5. Gathering' BY <1>1, <1>2, <1>4 DEF Gathering
<1>6. QED BY <1>2, <1>3, <1>5 DEF BlobInv

\* An interrupt is something that goes wrong.
LEMMA InterruptStep == BlobInv /\ Interrupt => BlobInv'
<1> SUFFICES ASSUME BlobInv, Interrupt PROVE BlobInv' OBVIOUS
<1> DEFINE n == NFrames(job.data)
<1>1. /\ Fetching /\ UNCHANGED Rest /\ faults > 0 /\ faults' = 0
      /\ worker' = worker /\ next' = next
  BY DEF Interrupt
<1>2. /\ BlobJob' /\ Unstarted' /\ FetchedWhole'
      /\ faults \in 0..MaxFaults /\ worker \in [Workers -> Int] /\ next \in 1..(n + 1)
      /\ (faults' \in 0..MaxFaults /\ worker' \in [Workers -> Int] /\ next' \in 1..(n + 1))
           => BlobStored'
  BY <1>1, FetchKeeps
<1> HIDE DEF n
<1>3. MaxFaults \in Nat BY CodecAssumption
<1>4. faults' \in 0..MaxFaults /\ faults' # MaxFaults BY <1>1, <1>2, <1>3
<1>5. BlobStored' BY <1>1, <1>2, <1>4
<1>6. Gathering' BY <1>4 DEF Gathering
<1>7. QED BY <1>2, <1>5, <1>6 DEF BlobInv

\* A request for a sound frame fails only when something else has gone wrong.
LEMMA FrameFailsStep == ASSUME BlobInv, NEW w \in Workers, FrameFails(w) PROVE BlobInv'
<1> DEFINE n == NFrames(job.data)
<1>1. /\ Fetching /\ UNCHANGED Rest /\ worker[w] > 0 /\ next' = next
      /\ worker' = [worker EXCEPT ![w] = -1]
      /\ \/ /\ cancelled \/ ~FetchFrame(job.backend, blob.object, blob.frames[worker[w]]).ok
            /\ faults' = faults
         \/ faults > 0 /\ faults' = faults - 1
  BY DEF FrameFails
<1>2. /\ BlobJob' /\ Unstarted' /\ FetchedWhole' /\ damaged' = damaged
      /\ job.data \in ByteStrings /\ LosslessFrames(job.data) /\ job.backend \in Backends
      /\ n \in Nat \ {0} /\ (~damaged => blob = EncodeBlob(job.data))
      /\ faults \in 0..MaxFaults /\ worker \in [Workers -> Int] /\ next \in 1..(n + 1)
      /\ (faults' \in 0..MaxFaults /\ worker' \in [Workers -> Int] /\ next' \in 1..(n + 1))
           => BlobStored'
  BY <1>1, FetchKeeps
<1> HIDE DEF n
<1>3. MaxFaults \in Nat BY CodecAssumption
<1>4. faults' \in 0..MaxFaults BY <1>1, <1>2, <1>3
<1>5. worker' \in [Workers -> Int]
  <2>1. -1 \in Int OBVIOUS
  <2>2. QED BY <1>1, <1>2, <2>1
<1>6. BlobStored' BY <1>1, <1>2, <1>4, <1>5
<1>7. damaged' \/ faults' # MaxFaults
  <2>1. SUFFICES ASSUME ~damaged, faults' = MaxFaults PROVE FALSE BY <1>2
  <2>2. faults = MaxFaults /\ faults' = faults BY <1>1, <1>2, <1>3, <2>1
  <2>3. ~cancelled /\ worker[w] < next BY <1>1, <2>1, <2>2 DEF BlobInv, Gathering, Fetching
  <2>4. ~(faults > 0 /\ faults' = faults - 1) BY <1>2, <1>3, <2>2
  <2>5. worker[w] \in 1..n
    <3>1. worker[w] \in Int BY <1>2
    <3>2. QED BY <1>1, <1>2, <2>3, <3>1
  <2>6. PICK i \in 1..n : i = worker[w] BY <2>5
  <2>7. FetchFrame(job.backend, EncodeBlob(job.data).object, EncodeBlob(job.data).frames[i])
          = Ok(Chunk(job.data, i))
    BY <1>2, FrameFetches DEF n
  <2>8. Ok(Chunk(job.data, i)).ok BY DEF Ok
  <2>9. FetchFrame(job.backend, blob.object, blob.frames[worker[w]]).ok
    BY <1>2, <2>1, <2>6, <2>7, <2>8
  <2>10. QED BY <1>1, <2>3, <2>4, <2>9
<1>8. Gathering' BY <1>7 DEF Gathering
<1>9. QED BY <1>2, <1>6, <1>8 DEF BlobInv

\* A frame that arrives is in its place, and the others stay where they were.
LEMMA FrameArrivesStep == ASSUME BlobInv, NEW w \in Workers, FrameArrives(w) PROVE BlobInv'
<1> DEFINE n == NFrames(job.data)
           f == blob.frames[worker[w]]
           d == FetchFrame(job.backend, blob.object, f)
<1>1. /\ Fetching /\ UNCHANGED Rest /\ worker[w] > 0
      /\ out' = Splice(out, f.off, d.out)
      /\ worker' = [worker EXCEPT ![w] = 0]
      /\ next' = next /\ cancelled' = cancelled /\ errs' = errs /\ faults' = faults
  BY DEF FrameArrives
<1>2. /\ BlobJob' /\ Unstarted' /\ FetchedWhole' /\ damaged' = damaged
      /\ job' = job /\ stage' = "fetching"
      /\ job.data \in ByteStrings /\ LosslessFrames(job.data) /\ job.backend \in Backends
      /\ n \in Nat \ {0} /\ (~damaged => blob = EncodeBlob(job.data))
      /\ blob.frames = EncodeBlob(job.data).frames
      /\ faults \in 0..MaxFaults /\ worker \in [Workers -> Int] /\ next \in 1..(n + 1)
      /\ (faults' \in 0..MaxFaults /\ worker' \in [Workers -> Int] /\ next' \in 1..(n + 1))
           => BlobStored'
  BY <1>1, FetchKeeps
<1> HIDE DEF n, f, d
<1>3. worker' \in [Workers -> Int] BY <1>1, <1>2
<1>4. BlobStored' BY <1>1, <1>2, <1>3
<1>5. worker'[w] = 0 /\ \A v \in Workers : v # w => worker'[v] = worker[v] BY <1>1, <1>2
<1>6. Gathering'
  <2> SUFFICES ASSUME ~damaged, faults = MaxFaults
               PROVE  /\ errs' = 0 /\ ~cancelled'
                      /\ \A v \in Workers : 0 <= worker'[v] /\ worker'[v] < next'
                      /\ out' \in ByteStrings /\ Len(out') = Len(job'.data)
                      /\ \A i \in 1..(next' - 1) :
                           (\E v \in Workers : worker'[v] = i) \/ Filled(out, i)'
    BY <1>1, <1>2 DEF Gathering
  <2>1. /\ errs = 0 /\ ~cancelled /\ out \in ByteStrings /\ Len(out) = Len(job.data)
        /\ \A v \in Workers : 0 <= worker[v] /\ worker[v] < next
        /\ \A i \in 1..(next - 1) : (\E v \in Workers : worker[v] = i) \/ Filled(out, i)
    BY <1>1 DEF BlobInv, Gathering, Fetching
  <2>2. PICK m \in 1..n : m = worker[w]
    <3>1. worker[w] \in Int /\ worker[w] < next BY <1>2, <2>1
    <3>2. QED BY <1>1, <1>2, <3>1
  <2>3. f.off = (m - 1) * FrameSize
    <3>1. FrameOf(job.data, blob.frames, m) BY <1>2, BlobIs DEF n
    <3>2. QED BY <2>2, <3>1 DEF FrameOf, f
  <2>4. d = Ok(Chunk(job.data, m)) BY <1>2, <2>2, FrameFetches DEF n, f, d
  <2>5. d.out = Chunk(job.data, m)
    <3>1. Ok(Chunk(job.data, m)).out = Chunk(job.data, m) BY DEF Ok
    <3>2. QED BY <2>4, <3>1
  <2>6. ChunkIs(job.data, m) BY <1>2, ChunksAre DEF n, NFrames
  <2>7. PICK x, e, c : x = FrameEnd(job.data, m - 1) /\ e = FrameEnd(job.data, m)
                       /\ c = Chunk(job.data, m)
    OBVIOUS
  <2>8. /\ x \in Nat /\ e \in Nat /\ x <= e /\ e <= Len(job.data) /\ c = Cut(job.data, x, e)
        /\ c \in ByteStrings /\ Len(c) = e - x /\ f.off = x /\ x + Len(c) = e
    BY <2>3, <2>6, <2>7 DEF ChunkIs
  <2>9. /\ out' \in ByteStrings /\ Len(out') = Len(out)
        /\ \A k \in 1..Len(out) :
             out'[k] = IF x < k /\ k <= x + Len(c) THEN c[k - x] ELSE out[k]
    <3>1. x + Len(c) <= Len(out) BY <2>1, <2>8
    <3>2. out' = Splice(out, x, c) BY <1>1, <2>5, <2>7, <2>8
    <3>3. QED BY <2>1, <2>8, <3>1, <3>2, SpliceIs
  <2>10. ASSUME NEW k \in 1..Len(out), x < k /\ k <= e PROVE out'[k] = job.data[k]
    <3>1. PICK j : j = k - x OBVIOUS
    <3>2. j \in 1..(e - x) /\ x + j = k BY <2>8, <2>10, <3>1
    <3>3. c[j] = job.data[x + j]
      <4>1. \A q \in 1..(e - x) : Cut(job.data, x, e)[q] = job.data[x + q]
        BY <1>2, <2>8, CutIs
      <4>2. QED BY <2>8, <3>2, <4>1
    <3>4. out'[k] = c[j] BY <2>8, <2>9, <2>10, <3>1
    <3>5. QED BY <3>2, <3>3, <3>4
  <2>11. \A k \in 1..Len(out) : ~(x < k /\ k <= e) => out'[k] = out[k] BY <2>8, <2>9
  <2>12. ASSUME NEW i \in 1..n
         PROVE  \A k \in (FrameEnd(job.data, i - 1) + 1)..FrameEnd(job.data, i) :
                  k \in 1..Len(out)
    <3>1. ChunkIs(job.data, i) BY <1>2, ChunksAre DEF n, NFrames
    <3>2. PICK a, z : a = FrameEnd(job.data, i - 1) /\ z = FrameEnd(job.data, i) OBVIOUS
    <3>3. a \in Nat /\ z \in Nat /\ z <= Len(out) BY <2>1, <3>1, <3>2 DEF ChunkIs
    <3>4. Len(out) \in Nat BY <2>1, LenProperties DEF ByteStrings
    <3>5. \A k \in (a + 1)..z : k \in 1..Len(out) BY <3>3, <3>4
    <3>6. QED BY <3>2, <3>5
  <2>13. ASSUME NEW i \in 1..(next' - 1)
         PROVE  (\E v \in Workers : worker'[v] = i) \/ Filled(out, i)'
    <3>1. i \in 1..n /\ i \in 1..(next - 1) BY <1>1, <1>2
    <3>2. CASE i = m
      <4>1. \A k \in (x + 1)..e : x < k /\ k <= e BY <2>8
      <4>2. \A k \in (x + 1)..e : k \in 1..Len(out)
        <5>1. \A k \in (FrameEnd(job.data, m - 1) + 1)..FrameEnd(job.data, m) : k \in 1..Len(out)
          BY <2>12
        <5>2. QED BY <2>7, <5>1
      <4>3. \A k \in (x + 1)..e : out'[k] = job.data[k] BY <2>10, <4>1, <4>2
      <4>4. QED BY <1>2, <2>7, <3>2, <4>3 DEF Filled
    <3>3. CASE i # m /\ \E v \in Workers : worker[v] = i
      <4>1. PICK v \in Workers : worker[v] = i BY <3>3
      <4>2. v # w BY <2>2, <3>3, <4>1
      <4>3. QED BY <1>5, <4>1, <4>2
    <3>4. CASE Filled(out, i)
      <4>1. ASSUME NEW k \in (FrameEnd(job.data, i - 1) + 1)..FrameEnd(job.data, i)
            PROVE  out'[k] = job.data[k]
        <5>1. k \in 1..Len(out) BY <2>12, <3>1
        <5>2. out[k] = job.data[k] BY <3>4 DEF Filled
        <5>3. QED BY <2>10, <2>11, <5>1, <5>2
      <4>2. QED BY <1>2, <4>1 DEF Filled
    <3>5. QED BY <2>1, <3>1, <3>2, <3>3, <3>4
  <2>14. ASSUME NEW v \in Workers PROVE 0 <= worker'[v] /\ worker'[v] < next'
    <3>1. CASE v = w BY <1>1, <1>2, <1>5, <3>1
    <3>2. CASE v # w BY <1>1, <1>5, <2>1, <3>2
    <3>3. QED BY <3>1, <3>2
  <2>15. QED BY <1>1, <1>2, <2>1, <2>9, <2>13, <2>14
<1>7. QED BY <1>2, <1>4, <1>6 DEF BlobInv

\* With every frame handed out and none held, the buffer is the release.
LEMMA FetchReturnsStep == BlobInv /\ FetchReturns => BlobInv'
<1> SUFFICES ASSUME BlobInv, FetchReturns PROVE BlobInv' OBVIOUS
<1> DEFINE n == NFrames(job.data)
<1>1. /\ stage = "fetching" /\ next > Len(blob.frames) /\ \A w \in Workers : worker[w] <= 0
      /\ result' = Returned /\ stage' = "fetched"
      /\ job' = job /\ damaged' = damaged /\ faults' = faults
  BY DEF FetchReturns, Fetching, fetch
<1>2. /\ BlobJob /\ job.kind = "blob" /\ blob.frames = EncodeBlob(job.data).frames
      /\ blob.hash = HashOf(job.data) /\ next \in 1..(n + 1)
      /\ worker \in [Workers -> Int]
  BY <1>1 DEF BlobInv, BlobStored
<1>3. job.data \in ByteStrings /\ LosslessFrames(job.data) BY <1>2, BlobJobIs
<1>4. n \in Nat \ {0} BY <1>3, ChunksAre DEF NFrames
<1>5. Len(blob.frames) = n BY <1>2, <1>3, BlobIs
<1> HIDE DEF n
<1>6. result'.kind = "ok" => result'.out = job.data
  <2>1. result' = IF errs > 0 \/ HashOf(out) # HashOf(job.data)
                  THEN [kind |-> "error", out |-> <<>>] ELSE [kind |-> "ok", out |-> out]
    BY <1>1, <1>2 DEF Returned
  <2>2. HashOf(out) = HashOf(job.data) => out = job.data BY DEF HashOf
  <2>3. QED BY <2>1, <2>2
<1>7. ASSUME ~damaged, faults = MaxFaults PROVE result'.kind = "ok"
  <2>1. /\ errs = 0 /\ out \in ByteStrings /\ Len(out) = Len(job.data)
        /\ \A w \in Workers : 0 <= worker[w]
        /\ \A i \in 1..(next - 1) : (\E w \in Workers : worker[w] = i) \/ Filled(out, i)
    BY <1>1, <1>7 DEF BlobInv, Gathering
  <2>2. next - 1 = n BY <1>1, <1>2, <1>4, <1>5
  <2>3. ASSUME NEW i \in 1..n PROVE Filled(out, i)
    <3>1. ~(\E w \in Workers : worker[w] = i)
      <4>1. SUFFICES ASSUME NEW w \in Workers, worker[w] = i PROVE FALSE OBVIOUS
      <4>2. worker[w] <= 0 BY <1>1
      <4>3. QED BY <4>1, <4>2
    <3>2. QED BY <2>1, <2>2, <3>1
  <2>4. ASSUME NEW k \in 1..Len(job.data) PROVE out[k] = job.data[k]
    <3>1. Len(job.data) \in Nat /\ FrameEnd(job.data, 0) = 0 /\ FrameEnd(job.data, n) = Len(job.data)
      BY <1>3, ChunksAre, LenProperties DEF n, NFrames, ByteStrings
    <3> DEFINE T == {i \in 1..n : k <= FrameEnd(job.data, i)}
    <3>2. n \in T BY <1>4, <3>1
    <3>3. PICK i \in T : \A j \in T : i <= j
      <4>1. T \subseteq Nat /\ T # {} BY <3>2
      <4> HIDE DEF T
      <4>2. QED BY <4>1, LeastNat
    <3>4. i \in 1..n /\ k <= FrameEnd(job.data, i) BY <3>3
    <3>5. FrameEnd(job.data, i - 1) < k
      <4>1. CASE i = 1 BY <3>1, <4>1
      <4>2. CASE i # 1
        <5>1. i - 1 \in 1..n /\ ~(i <= i - 1) BY <1>4, <3>4, <4>2
        <5>2. i - 1 \notin T BY <3>3, <5>1
        <5>3. ~(k <= FrameEnd(job.data, i - 1)) BY <5>1, <5>2
        <5>4. FrameEnd(job.data, i - 1) \in Nat
          <6>1. ChunkIs(job.data, i) BY <1>3, <3>4, ChunksAre DEF n, NFrames
          <6>2. QED BY <6>1 DEF ChunkIs
        <5>5. QED BY <3>1, <5>3, <5>4
      <4>3. QED BY <4>1, <4>2
    <3>6. ChunkIs(job.data, i) BY <1>3, <3>4, ChunksAre DEF n, NFrames
    <3>7. PICK a, z : a = FrameEnd(job.data, i - 1) /\ z = FrameEnd(job.data, i) OBVIOUS
    <3>8. k \in (a + 1)..z BY <3>1, <3>4, <3>5, <3>6, <3>7 DEF ChunkIs
    <3>9. QED BY <2>3, <3>4, <3>7, <3>8 DEF Filled
  <2>5. out = job.data BY <1>3, <2>1, <2>4, SameBytes
  <2>6. Returned = [kind |-> "ok", out |-> out]
    <3>1. ~(errs > 0) BY <2>1
    <3>2. HashOf(out) = blob.hash BY <1>2, <2>5
    <3>3. QED BY <3>1, <3>2 DEF Returned
  <2>7. QED BY <1>1, <2>6
<1>8. FetchedWhole' BY <1>1, <1>6, <1>7 DEF FetchedWhole
<1>9. BlobJob' BY <1>1, <1>2 DEF BlobJob
<1>10. QED BY <1>1, <1>8, <1>9 DEF BlobInv, Unstarted, BlobStored, Gathering

\* Every step of the codec keeps the blob invariant.
LEMMA BlobInvStep == BlobInv /\ [CodecNext]_vars => BlobInv'
<1> SUFFICES ASSUME BlobInv, [CodecNext]_vars PROVE BlobInv' OBVIOUS
<1>1. CASE EncodePatch
  <2>1. stage' \in {"stored", "refused"} /\ job' = job BY <1>1 DEF EncodePatch
  <2>2. QED BY <2>1, BlobElsewhere
<1>2. CASE DamagePatch
  <2>1. stage' = "stored" /\ job' = job BY <1>2 DEF DamagePatch
  <2>2. QED BY <2>1, BlobElsewhere
<1>3. CASE ApplyPatch
  <2>1. stage' = "applied" /\ job' = job BY <1>3 DEF ApplyPatch
  <2>2. QED BY <2>1, BlobElsewhere
<1>4. CASE StoreBlob BY <1>4, StoreBlobStep
<1>5. CASE DamageBlob BY <1>5, DamageBlobStep
<1>6. CASE FetchNext
  BY <1>6, FeedStep, FrameArrivesStep, FrameFailsStep, SkipFrameStep, InterruptStep,
     FetchReturnsStep DEF FetchNext
<1>7. CASE UNCHANGED vars
  BY <1>7 DEF vars, BlobInv, BlobJob, Unstarted, BlobStored, Gathering, Filled, FetchedWhole
<1>8. QED BY <1>1, <1>2, <1>3, <1>4, <1>5, <1>6, <1>7 DEF CodecNext

\* While nothing has gone wrong, the frames handed out are held or in place.
THEOREM BlobInvariant == CodecSpec => []BlobInv
BY BlobInvInit, BlobInvStep, PTL DEF CodecSpec

\* fetchBlob: what it returns is the release, and an undisturbed fetch of
\* sound bytes returns.
THEOREM BlobsFetchedWhole == CodecSpec => []FetchedWhole
<1>1. BlobInv => FetchedWhole BY DEF BlobInv
<1>2. QED BY <1>1, BlobInvariant, PTL
-----------------------------------------------------------------------------
(***************************************************************************)
(* Predictions.  What a layout's list of functions reads as.               *)
(***************************************************************************)
Numbers == Seq(Nat)
Rd(V) == [b : Numbers, v : V, ok : BOOLEAN]
OpVal == [op : Nat, k : Nat, name : Numbers]
FuncVal == [op : OpVal, d : Int]

\* A number read from a stream of numbers is one, and leaves one,
LEMMA ReadUOf ==
  ASSUME NEW V, NEW r \in Rd(V)
  PROVE  ReadU(r) \in Rd(Nat)
<1>1. r.b \in Seq(Nat) /\ r.ok \in BOOLEAN BY DEF Rd, Numbers
<1>2. <<>> \in Seq(Nat) BY EmptySeq
<1>3. Fail(r) \in Rd(Nat) BY <1>2 DEF Fail, Rd, Numbers
<1>4. r.b # <<>> => Head(r.b) \in Nat /\ Tail(r.b) \in Seq(Nat) BY <1>1, HeadTailProperties
<1>5. r.b # <<>> => [r EXCEPT !.b = Tail(r.b), !.v = Head(r.b)] \in Rd(Nat)
  BY <1>1, <1>4 DEF Rd, Numbers
<1>6. QED BY <1>3, <1>5 DEF ReadU

\* signed
LEMMA ReadSOf ==
  ASSUME NEW V, NEW r \in Rd(V)
  PROVE  ReadS(r) \in Rd(Int)
<1> DEFINE q == ReadU(r)
<1>1. q \in Rd(Nat) BY ReadUOf
<1>2. ReadS(r) = IF ~q.ok THEN q ELSE [q EXCEPT !.v = UnZigZag(@)] BY DEF ReadS
<1> HIDE DEF q
<1>3. q.v \in Nat BY <1>1 DEF Rd
<1>4. UnZigZag(q.v) \in Int BY <1>3 DEF UnZigZag
<1>5. QED BY <1>1, <1>2, <1>4 DEF Rd

\* or bounded.
LEMMA ReadNOf ==
  ASSUME NEW V, NEW r \in Rd(V), NEW max
  PROVE  ReadN(r, max) \in Rd(Nat)
<1>1. ReadU(r) \in Rd(Nat) BY ReadUOf
<1>2. <<>> \in Seq(Nat) BY EmptySeq
<1>3. Fail(ReadU(r)) \in Rd(Nat) BY <1>2 DEF Fail, Rd, Numbers
<1>4. QED BY <1>1, <1>3 DEF ReadN

\* So does a name.
LEMMA ReadNameOf ==
  ASSUME NEW V, NEW r \in Rd(V), NEW max
  PROVE  ReadName(r, max) \in Rd(Numbers)
<1> DEFINE u == ReadN(r, max)
<1>1. u \in Rd(Nat) BY ReadNOf
<1>2. ReadName(r, max) = Take(u, u.v) BY DEF ReadName
<1> HIDE DEF u
<1>3. u.b \in Seq(Nat) /\ u.v \in Nat /\ u.ok \in BOOLEAN /\ Len(u.b) \in Nat
  BY <1>1, LenProperties DEF Rd, Numbers
<1>4. <<>> \in Seq(Nat) BY EmptySeq
<1>5. [Fail(u) EXCEPT !.v = <<>>] \in Rd(Numbers) BY <1>4 DEF Fail, Rd, Numbers
<1>6. CASE Len(u.b) < u.v BY <1>2, <1>5, <1>6 DEF Take
<1>7. CASE ~(Len(u.b) < u.v)
  <2>1. PICK n, z, L : n = u.v /\ z = 0 /\ L = Len(u.b) OBVIOUS
  <2>2. n \in Nat /\ z \in Nat /\ L \in Nat /\ z <= n /\ n <= L BY <1>3, <1>7, <2>1
  <2>3. Cut(u.b, n, L) \in Seq(Nat) /\ Cut(u.b, z, n) \in Seq(Nat)
    <3>1. L <= Len(u.b) /\ n <= Len(u.b) /\ u.b \in Seq(Nat) BY <1>3, <2>1, <2>2
    <3>2. Cut(u.b, n, L) \in Seq(Nat) BY <2>2, <3>1, CutOf
    <3>3. Cut(u.b, z, n) \in Seq(Nat) BY <2>2, <3>1, CutOf
    <3>4. QED BY <3>2, <3>3
  <2>4. Take(u, u.v) = [u EXCEPT !.b = Cut(u.b, n, L), !.v = Cut(u.b, z, n)] BY <1>7, <2>1 DEF Take
  <2>5. QED BY <1>1, <1>2, <2>3, <2>4 DEF Rd, Numbers
<1>8. QED BY <1>6, <1>7

\* An element of a list sent against the old one, and a function's entry.
LEMMA ReadOpOf ==
  ASSUME NEW V, NEW r \in Rd(V)
  PROVE  ReadOp(r, MaxFuncName) \in Rd(OpVal)
<1> DEFINE op == ReadU(r)
           arg == IF op.v = 1 THEN ReadU(op)
                  ELSE IF op.v = 2 THEN ReadName(op, MaxFuncName) ELSE op
           val == [op |-> op.v, k |-> IF op.v = 1 THEN arg.v ELSE 0,
                   name |-> IF op.v = 2 THEN arg.v ELSE <<>>]
           ok == arg.ok /\ op.v \in 0..2
<1>1. op \in Rd(Nat) BY ReadUOf
<1>2. ReadOp(r, MaxFuncName) = [arg EXCEPT !.ok = ok, !.v = val] BY DEF ReadOp
<1> HIDE DEF op
<1>3. op.v \in Nat BY <1>1 DEF Rd
<1>4. ReadU(op) \in Rd(Nat) BY <1>1, ReadUOf
<1>5. ReadName(op, MaxFuncName) \in Rd(Numbers) BY <1>1, ReadNameOf
<1>6. <<>> \in Numbers BY EmptySeq DEF Numbers
<1>7. /\ op.v = 1 => arg \in Rd(Nat)
      /\ op.v = 2 => arg \in Rd(Numbers)
      /\ op.v \notin {1, 2} => arg \in Rd(Nat)
  BY <1>1, <1>4, <1>5
<1> HIDE DEF arg
<1>8. val \in OpVal
  <2>1. op.v = 1 => arg.v \in Nat BY <1>7 DEF Rd
  <2>2. op.v = 2 => arg.v \in Numbers BY <1>7 DEF Rd
  <2>3. QED BY <1>3, <1>6, <2>1, <2>2 DEF OpVal
<1>9. arg \in Rd(Nat) \/ arg \in Rd(Numbers) BY <1>3, <1>7
<1>10. ok \in BOOLEAN OBVIOUS
<1> HIDE DEF val, ok
<1>11. QED BY <1>2, <1>8, <1>9, <1>10 DEF Rd

LEMMA ReadFuncOf ==
  ASSUME NEW V, NEW r \in Rd(V)
  PROVE  ReadFunc(r) \in Rd(FuncVal)
<1> DEFINE op == ReadOp(r, MaxFuncName)
           d == ReadS(op)
<1>1. op \in Rd(OpVal) BY ReadOpOf
<1>2. d \in Rd(Int) BY <1>1, ReadSOf
<1>3. ReadFunc(r) = [d EXCEPT !.v = [op |-> op.v, d |-> d.v]] BY DEF ReadFunc
<1> HIDE DEF op, d
<1>4. [op |-> op.v, d |-> d.v] \in FuncVal BY <1>1, <1>2 DEF Rd, FuncVal
<1>5. QED BY <1>2, <1>3, <1>4 DEF Rd

Follows(n, V, F, u) == \A i \in 1..n : u[i - 1] \in V => u[i] = F[i, u[i - 1]]

\* A function that unfolds like a recurrence is its solution.
LEMMA RecursAgree ==
  ASSUME NEW n \in Nat, NEW V, NEW a, NEW F, NEW f, Recurs(n, V, a, F, f),
         NEW u, u[0] = a, Follows(n, V, F, u)
  PROVE  \A i \in 0..n : u[i] = f[i]
<1>1. f \in [0..n -> V] /\ f[0] = a /\ \A i \in 1..n : f[i] = F[i, f[i - 1]] BY DEF Recurs
<1> DEFINE T == {i \in 0..n : u[i] # f[i]}
<1>2. T = {}
  <2>1. SUFFICES ASSUME T # {} PROVE FALSE OBVIOUS
  <2>2. T \subseteq Nat OBVIOUS
  <2>3. PICK i \in T : \A k \in T : i <= k
    <3> HIDE DEF T
    <3>1. QED BY <2>1, <2>2, LeastNat
  <2>4. i \in 0..n /\ u[i] # f[i] BY <2>3
  <2>5. i # 0 BY <1>1, <2>4
  <2>6. i \in 1..n /\ i - 1 \in 0..n /\ ~(i <= i - 1) BY <2>4, <2>5
  <2>7. u[i - 1] = f[i - 1] BY <2>3, <2>6
  <2>8. f[i - 1] \in V BY <1>1, <2>6
  <2>9. u[i] = F[i, u[i - 1]] BY <2>6, <2>7, <2>8 DEF Follows
  <2>10. QED BY <1>1, <2>4, <2>6, <2>7, <2>9
<1>3. QED BY <1>2

\* The list of functions reads as that many functions.
LEMMA ReadFuncsOf ==
  ASSUME NEW b \in Numbers, NEW n \in Nat
  PROVE  /\ ReadSeq(Rbuf(b), n, ReadFunc).v \in Seq(FuncVal)
         /\ Len(ReadSeq(Rbuf(b), n, ReadFunc).v) = n
<1> DEFINE V     == [r : Rd(FuncVal \cup {0}), vs : Seq(FuncVal)]
           a     == [r |-> Rbuf(b), vs |-> <<>>]
           G(s)  == ReadNext(s, ReadFunc)
           F     == [q \in (1..n) \X V |-> G(q[2])]
           Is(f) == f = [i \in 0..n |-> IF i = 0 THEN a ELSE G(f[i - 1])]
           u     == CHOOSE f : Is(f)
<1>1. a \in V
  <2>1. <<>> \in Seq(FuncVal) BY EmptySeq
  <2>2. Rbuf(b) \in Rd(FuncVal \cup {0}) BY DEF Rbuf, Rd
  <2>3. QED BY <2>1, <2>2
<1>2. ASSUME NEW s \in V PROVE G(s) \in V /\ Len(G(s).vs) = Len(s.vs) + 1
  <2>0. G(s) = [r |-> ReadFunc(s.r), vs |-> Append(s.vs, ReadFunc(s.r).v)] BY DEF ReadNext
  <2>1. s.r \in Rd(FuncVal \cup {0}) /\ s.vs \in Seq(FuncVal) OBVIOUS
  <2>2. ReadFunc(s.r) \in Rd(FuncVal) BY <2>1, ReadFuncOf
  <2>3. ReadFunc(s.r).v \in FuncVal /\ ReadFunc(s.r) \in Rd(FuncVal \cup {0}) BY <2>2 DEF Rd
  <2>4. /\ Append(s.vs, ReadFunc(s.r).v) \in Seq(FuncVal)
        /\ Len(Append(s.vs, ReadFunc(s.r).v)) = Len(s.vs) + 1
    BY <2>1, <2>3, AppendProperties
  <2>5. QED BY <2>0, <2>3, <2>4
<1> HIDE DEF V, a
<1>3. F \in [(1..n) \X V -> V]
  <2>1. \A q \in (1..n) \X V : G(q[2]) \in V BY <1>2
  <2>2. QED BY <2>1
<1>4. \A i \in 1..n, s \in V : F[i, s] = G(s) OBVIOUS
<1> HIDE DEF F, G
<1>5. PICK f : Recurs(n, V, a, F, f) BY <1>1, <1>3, Unfolds
<1>6. f \in [0..n -> V] /\ f[0] = a /\ \A i \in 1..n : f[i] = F[i, f[i - 1]] BY <1>5 DEF Recurs
<1>7. \A i \in 1..n : f[i - 1] \in V /\ f[i] = G(f[i - 1])
  <2> TAKE i \in 1..n
  <2>1. i - 1 \in 0..n OBVIOUS
  <2>2. f[i - 1] \in V BY <1>6, <2>1
  <2>3. QED BY <1>4, <1>6, <2>2
<1>8. Is(f)
  <2>1. \A i \in 0..n : f[i] = IF i = 0 THEN a ELSE G(f[i - 1])
    <3> TAKE i \in 0..n
    <3>1. i # 0 => i \in 1..n OBVIOUS
    <3>2. QED BY <1>6, <1>7, <3>1
  <2>2. QED BY <1>6, <2>1
<1>9. Is(u) BY <1>8
<1> HIDE DEF u
<1>10. u[0] = a BY <1>9
<1>11. Follows(n, V, F, u)
  <2>1. ASSUME NEW i \in 1..n, u[i - 1] \in V PROVE u[i] = F[i, u[i - 1]]
    <3>1. i \in 0..n /\ i # 0 OBVIOUS
    <3>2. u[i] = G(u[i - 1]) BY <1>9, <3>1
    <3>3. QED BY <1>4, <2>1, <3>2
  <2>2. QED BY <2>1 DEF Follows
<1>12. \A i \in 0..n : u[i] = f[i] BY <1>5, <1>10, <1>11, RecursAgree
<1>13. \A i \in 0..n : f[i] \in V BY <1>6
<1>14. \A i \in 0..n : Len(f[i].vs) = i
  <2> DEFINE T == {i \in 0..n : Len(f[i].vs) # i}
  <2>1. SUFFICES ASSUME T # {} PROVE FALSE OBVIOUS
  <2>2. T \subseteq Nat OBVIOUS
  <2>3. PICK i \in T : \A k \in T : i <= k
    <3> HIDE DEF T
    <3>1. QED BY <2>1, <2>2, LeastNat
  <2>4. i \in 0..n /\ Len(f[i].vs) # i BY <2>3
  <2>5. i # 0
    <3>1. Len(a.vs) = 0 BY DEF a
    <3>2. QED BY <1>6, <2>4, <3>1
  <2>6. i \in 1..n /\ i - 1 \in 0..n /\ ~(i <= i - 1) BY <2>4, <2>5
  <2>7. Len(f[i - 1].vs) = i - 1 BY <2>3, <2>6
  <2>8. Len(G(f[i - 1]).vs) = Len(f[i - 1].vs) + 1 BY <1>2, <1>7, <2>6
  <2>9. (i - 1) + 1 = i OBVIOUS
  <2>10. QED BY <1>7, <2>4, <2>6, <2>7, <2>8, <2>9
<1>15. ReadSeq(Rbuf(b), n, ReadFunc) = AllRead(u[n])
  <2>1. Rbuf(b).ok BY DEF Rbuf
  <2>2. QED BY <2>1 DEF ReadSeq, u, a, G
<1>16. n \in 0..n OBVIOUS
<1>17. u[n] \in V /\ Len(u[n].vs) = n BY <1>12, <1>13, <1>14, <1>16
<1>18. u[n].r \in Rd(FuncVal \cup {0}) /\ u[n].vs \in Seq(FuncVal) BY <1>17 DEF V
<1>19. ReadSeq(Rbuf(b), n, ReadFunc).v = u[n].vs BY <1>15, <1>18 DEF AllRead, Rd
<1>20. QED BY <1>17, <1>18, <1>19

\* The old indexes of a list's elements are numbers.
LEMMA IndexesOf ==
  ASSUME NEW n \in Nat, NEW ops \in [1..n -> OpVal]
  PROVE  Indexes(ops) \in Seq(Nat) /\ Len(Indexes(ops)) = n
<1> DEFINE Old(ks, i) == CASE ops[i].op = 0 -> Expect(ks, i)
                           [] ops[i].op = 1 -> ops[i].k + 1
                           [] OTHER -> 0
           V     == Seq(Nat)
           St(i) == [1..i -> Nat]
           Is(f) == f = [i \in 0..n |-> IF i = 0 THEN <<>> ELSE Append(f[i - 1], Old(f[i - 1], i))]
           u     == CHOOSE f : Is(f)
<1>1. ASSUME NEW i \in 1..n, NEW ks \in [1..(i - 1) -> Nat]
      PROVE  /\ Append(ks, Old(ks, i)) \in [1..i -> Nat]
  <2>1. i - 1 \in Nat OBVIOUS
  <2>2. ks \in Seq(Nat) /\ Len(ks) = i - 1 BY <2>1
  <2>3. Expect(ks, i) \in Nat
    <3> DEFINE before == {j \in 1..(i - 1) : ks[j] # 0}
    <3>1. CASE before = {} BY <3>1 DEF Expect
    <3>2. CASE before # {}
      <4>1. before \subseteq 1..(i - 1) OBVIOUS
      <4> HIDE DEF before
      <4>2. PICK x, y : x = 1 /\ y = i - 1 OBVIOUS
      <4>3. x \in Int /\ y \in Int /\ before \subseteq x..y BY <4>1, <4>2
      <4>4. Max(before) \in before BY <3>2, <4>3, MinMaxOf
      <4>5. ks[Max(before)] \in Nat BY <4>1, <4>4
      <4>6. Expect(ks, i) = ks[Max(before)] + 1 BY <3>2 DEF Expect, before
      <4>7. QED BY <4>5, <4>6
    <3>3. QED BY <3>1, <3>2
  <2>4. ops[i].k \in Nat BY DEF OpVal
  <2>5. Old(ks, i) \in Nat
    <3>1. CASE ops[i].op = 0 BY <2>3, <3>1
    <3>2. CASE ops[i].op = 1 BY <2>4, <3>2
    <3>3. CASE ops[i].op \notin {0, 1} BY <3>3
    <3>4. QED BY <3>1, <3>2, <3>3
  <2> HIDE DEF Old
  <2>6. /\ Append(ks, Old(ks, i)) \in Seq(Nat) /\ Len(Append(ks, Old(ks, i))) = (i - 1) + 1
    BY <2>2, <2>5, AppendProperties
  <2>7. PICK s \in Seq(Nat) : s = Append(ks, Old(ks, i)) BY <2>6
  <2>8. Len(s) = i BY <2>6, <2>7
  <2>9. s \in [1..Len(s) -> Nat] BY LenProperties
  <2>10. QED BY <2>7, <2>8, <2>9
<1> DEFINE G(ks, i) == Append(ks, Old(ks, i))
           F == [q \in (1..n) \X V |-> IF q[2] \in St(q[1] - 1) THEN G(q[2], q[1]) ELSE <<>>]
<1>2. <<>> \in V /\ <<>> \in St(0) BY EmptySeq
<1>3. \A i \in Nat : St(i) \subseteq V
  <2> TAKE i \in Nat
  <2>1. \A ks \in [1..i -> Nat] : ks \in Seq(Nat) OBVIOUS
  <2>2. QED BY <2>1
<1>4. ASSUME NEW i \in 1..n, NEW ks \in St(i - 1) PROVE G(ks, i) \in St(i)
  BY <1>1
<1> HIDE DEF Old, G, V, St
<1>5. F \in [(1..n) \X V -> V]
  <2>1. \A q \in (1..n) \X V : (IF q[2] \in St(q[1] - 1) THEN G(q[2], q[1]) ELSE <<>>) \in V
    <3> TAKE q \in (1..n) \X V
    <3>1. q[1] \in 1..n /\ q[1] \in Nat OBVIOUS
    <3>2. q[2] \in St(q[1] - 1) => G(q[2], q[1]) \in V BY <1>3, <1>4, <3>1
    <3>3. QED BY <1>2, <3>2
  <2>2. QED BY <2>1
<1>6. \A i \in 1..n, ks \in V : F[i, ks] = IF ks \in St(i - 1) THEN G(ks, i) ELSE <<>> OBVIOUS
<1> HIDE DEF F
<1>7. PICK f : Recurs(n, V, <<>>, F, f) BY <1>2, <1>5, Unfolds
<1>8. f \in [0..n -> V] /\ f[0] = <<>> /\ \A i \in 1..n : f[i] = F[i, f[i - 1]] BY <1>7 DEF Recurs
<1>9. \A i \in 1..n : f[i - 1] \in St(i - 1) => f[i] = G(f[i - 1], i) /\ f[i] \in St(i)
  <2> TAKE i \in 1..n
  <2>1. i - 1 \in 0..n OBVIOUS
  <2>2. f[i - 1] \in V BY <1>8, <2>1
  <2>3. F[i, f[i - 1]] = IF f[i - 1] \in St(i - 1) THEN G(f[i - 1], i) ELSE <<>>
    BY <1>6, <2>2
  <2>4. f[i] = F[i, f[i - 1]] BY <1>8
  <2>5. f[i - 1] \in St(i - 1) => G(f[i - 1], i) \in St(i) BY <1>4
  <2>6. QED BY <2>3, <2>4, <2>5
<1>10. \A i \in 0..n : f[i] \in St(i)
  <2> DEFINE T == {i \in 0..n : f[i] \notin St(i)}
  <2>1. SUFFICES ASSUME T # {} PROVE FALSE OBVIOUS
  <2>2. T \subseteq Nat OBVIOUS
  <2>3. PICK i \in T : \A k \in T : i <= k
    <3> HIDE DEF T
    <3>1. QED BY <2>1, <2>2, LeastNat
  <2>4. i \in 0..n /\ f[i] \notin St(i) BY <2>3
  <2>5. i # 0 BY <1>2, <1>8, <2>4
  <2>6. i \in 1..n /\ i - 1 \in 0..n /\ ~(i <= i - 1) BY <2>4, <2>5
  <2>7. f[i - 1] \in St(i - 1) BY <2>3, <2>6
  <2>8. QED BY <1>9, <2>4, <2>6, <2>7
<1>11. Is(f)
  <2>1. \A i \in 0..n : f[i] = IF i = 0 THEN <<>> ELSE G(f[i - 1], i)
    <3> TAKE i \in 0..n
    <3>1. CASE i = 0 BY <1>8, <3>1
    <3>2. CASE i # 0
      <4>1. i \in 1..n /\ i - 1 \in 0..n BY <3>2
      <4>2. QED BY <1>9, <1>10, <3>2, <4>1
    <3>3. QED BY <3>1, <3>2
  <2>2. f = [i \in 0..n |-> IF i = 0 THEN <<>> ELSE G(f[i - 1], i)] BY <1>8, <2>1
  <2>3. QED BY <2>2 DEF G
<1>12. Is(u) BY <1>11
<1>13. Indexes(ops) = u[n]
  <2>1. Len(ops) = n OBVIOUS
  <2>2. QED BY <2>1 DEF Indexes, Old, u
<1> HIDE DEF u
<1>14. u[0] = <<>> BY <1>12
<1>15. \A i \in 1..n : u[i] = G(u[i - 1], i)
  <2> TAKE i \in 1..n
  <2>1. i \in 0..n /\ i # 0 OBVIOUS
  <2>2. QED BY <1>12, <2>1 DEF G
<1>17. \A i \in 0..n : u[i] \in St(i)
  <2> DEFINE T == {i \in 0..n : u[i] \notin St(i)}
  <2>1. SUFFICES ASSUME T # {} PROVE FALSE OBVIOUS
  <2>2. T \subseteq Nat OBVIOUS
  <2>3. PICK i \in T : \A k \in T : i <= k
    <3> HIDE DEF T
    <3>1. QED BY <2>1, <2>2, LeastNat
  <2>4. i \in 0..n /\ u[i] \notin St(i) BY <2>3
  <2>5. i # 0 BY <1>2, <1>14, <2>4
  <2>6. i \in 1..n /\ i - 1 \in 0..n /\ ~(i <= i - 1) BY <2>4, <2>5
  <2>7. u[i - 1] \in St(i - 1) BY <2>3, <2>6
  <2>8. QED BY <1>4, <1>15, <2>4, <2>6, <2>7
<1>18. u[n] \in [1..n -> Nat]
  <2>1. n \in 0..n OBVIOUS
  <2>2. QED BY <1>17, <2>1 DEF St
<1>19. QED BY <1>13, <1>18

\* Where functions start and end that follow each other from `first`.
Rising(n, first, e) ==
  e \in [0..n -> Int] /\ e[0] = first /\ \A i, k \in 0..n : i <= k => e[i] <= e[k]

LEMMA EntriesRise ==
  ASSUME NEW n \in Nat, NEW first \in Int, NEW size \in [1..n -> Nat]
  PROVE  Rising(n, first, Entries(first, size))
<1> DEFINE F     == [q \in (1..n) \X Int |-> q[2] + size[q[1]]]
           Is(f) == f = [j \in 0..n |-> IF j = 0 THEN first ELSE f[j - 1] + size[j]]
           u     == CHOOSE f : Is(f)
<1>1. F \in [(1..n) \X Int -> Int] OBVIOUS
<1>2. \A i \in 1..n, x \in Int : F[i, x] = x + size[i] OBVIOUS
<1> HIDE DEF F
<1>3. PICK f : Recurs(n, Int, first, F, f) BY <1>1, Unfolds
<1>4. f \in [0..n -> Int] /\ f[0] = first /\ \A i \in 1..n : f[i] = F[i, f[i - 1]]
  BY <1>3 DEF Recurs
<1>5. Is(f)
  <2>1. \A j \in 0..n : f[j] = IF j = 0 THEN first ELSE f[j - 1] + size[j]
    <3> TAKE j \in 0..n
    <3>1. CASE j = 0 BY <1>4, <3>1
    <3>2. CASE j # 0
      <4>1. j \in 1..n /\ j - 1 \in 0..n BY <3>2
      <4>2. f[j - 1] \in Int BY <1>4, <4>1
      <4>3. QED BY <1>2, <1>4, <3>2, <4>1, <4>2
    <3>3. QED BY <3>1, <3>2
  <2>2. QED BY <1>4, <2>1
<1>6. Is(u) BY <1>5
<1>7. Entries(first, size) = u
  <2>1. Len(size) = n OBVIOUS
  <2>2. QED BY <2>1 DEF Entries
<1> HIDE DEF u
<1>8. u[0] = first /\ u = [j \in 0..n |-> u[j]]
  <2>1. 0 \in 0..n OBVIOUS
  <2>2. QED BY <1>6, <2>1
<1>9. \A j \in 1..n : u[j] = u[j - 1] + size[j]
  <2> TAKE j \in 1..n
  <2>1. j \in 0..n /\ j # 0 OBVIOUS
  <2>2. QED BY <1>6, <2>1
<1>10. \A j \in 0..n : u[j] \in Int
  <2> DEFINE T == {i \in 0..n : u[i] \notin Int}
  <2>1. SUFFICES ASSUME T # {} PROVE FALSE OBVIOUS
  <2>2. T \subseteq Nat OBVIOUS
  <2>3. PICK i \in T : \A k \in T : i <= k
    <3> HIDE DEF T
    <3>1. QED BY <2>1, <2>2, LeastNat
  <2>4. i \in 0..n /\ u[i] \notin Int BY <2>3
  <2>5. i # 0 BY <1>8, <2>4
  <2>6. i \in 1..n /\ i - 1 \in 0..n /\ ~(i <= i - 1) BY <2>4, <2>5
  <2>7. u[i - 1] \in Int BY <2>3, <2>6
  <2>8. u[i] = u[i - 1] + size[i] /\ size[i] \in Int BY <1>9, <2>6
  <2>9. QED BY <2>4, <2>7, <2>8
<1>11. ASSUME NEW i \in 0..n, NEW k \in 0..n, i <= k PROVE u[i] <= u[k]
  <2> DEFINE T == {j \in i..n : ~(u[i] <= u[j])}
  <2>1. SUFFICES T = {}
    <3>1. k \in i..n BY <1>11
    <3>2. QED BY <3>1
  <2>2. SUFFICES ASSUME T # {} PROVE FALSE OBVIOUS
  <2>3. T \subseteq Nat OBVIOUS
  <2>4. PICK j \in T : \A l \in T : j <= l
    <3> HIDE DEF T
    <3>1. QED BY <2>2, <2>3, LeastNat
  <2>5. j \in i..n /\ ~(u[i] <= u[j]) BY <2>4
  <2>6. j # i BY <1>10, <2>5
  <2>7. j - 1 \in i..n /\ j \in 1..n /\ j - 1 \in 0..n /\ j \in 0..n /\ ~(j <= j - 1) BY <2>5, <2>6
  <2>8. u[i] <= u[j - 1] BY <2>4, <2>7
  <2>9. u[j] = u[j - 1] + size[j] /\ size[j] \in Nat BY <1>9, <2>7
  <2>10. u[i] \in Int /\ u[j - 1] \in Int BY <1>10, <2>7
  <2>11. QED BY <2>5, <2>8, <2>9, <2>10
<1>12. u \in [0..n -> Int] BY <1>8, <1>10
<1>13. QED BY <1>7, <1>8, <1>11, <1>12 DEF Rising

\* What a layout must have for its functions to be read.
LayoutTyped(old, l) ==
  /\ l.funcs \in Numbers /\ l.nfunc \in Nat /\ l.firstEntry \in Int
  /\ \A i \in 1..Len(old.funcs) : Size(old.funcs[i]) \in Int

\* The functions of a layout follow each other.
FuncsFollow(n, first, funcs) ==
  /\ Len(funcs) = n
  /\ \E e : /\ Rising(n, first, e)
            /\ \A j \in 1..n : funcs[j].entry = e[j - 1] /\ funcs[j].end = e[j]

LEMMA DecodeFuncIs ==
  ASSUME NEW old, NEW l, LayoutTyped(old, l), DecodeFuncLayout(old, l).ok
  PROVE  FuncsFollow(l.nfunc, l.firstEntry, DecodeFuncLayout(old, l).funcs)
<1> DEFINE raw == ReadSeq(Rbuf(l.funcs), l.nfunc, ReadFunc)
<1>0. /\ l.funcs \in Numbers /\ l.nfunc \in Nat /\ l.firstEntry \in Int
      /\ \A i \in 1..Len(old.funcs) : Size(old.funcs[i]) \in Int
  BY DEF LayoutTyped
<1>1. raw.v \in Seq(FuncVal) /\ Len(raw.v) = l.nfunc BY <1>0, ReadFuncsOf
<1> DEFINE n2o == Indexes([j \in 1..Len(raw.v) |-> raw.v[j].op])
           size == FuncSizes(old, raw.v, n2o)
           ok == Done(raw) /\ \A j \in 1..Len(raw.v) : n2o[j] <= Len(old.funcs) /\ size[j] >= 0
           e == Entries(l.firstEntry, size)
<1>2. ok /\ DecodeFuncLayout(old, l).funcs = FuncTable(old, raw.v, n2o, e)
  <2> HIDE DEF raw
  <2>1. ok
    <3>1. ~ok => DecodeFuncLayout(old, l) = [ok |-> FALSE] BY DEF DecodeFuncLayout, raw
    <3> HIDE DEF ok
    <3>2. QED BY <3>1
  <2>2. ok => DecodeFuncLayout(old, l).funcs = FuncTable(old, raw.v, n2o, e)
    BY DEF DecodeFuncLayout, raw
  <2>3. QED BY <2>1, <2>2
<1> HIDE DEF raw
<1>3. PICK n, v : n = l.nfunc /\ v = raw.v OBVIOUS
<1>4. n \in Nat /\ v \in Seq(FuncVal) /\ Len(v) = n /\ v \in [1..n -> FuncVal] BY <1>0, <1>1, <1>3
<1>5. \A j \in 1..n : v[j].op \in OpVal /\ v[j].d \in Int BY <1>4 DEF FuncVal
<1>6. n2o \in Seq(Nat) /\ Len(n2o) = n
  <2>1. [j \in 1..n |-> v[j].op] \in [1..n -> OpVal] BY <1>5
  <2>2. QED BY <1>3, <1>4, <2>1, IndexesOf
<1> HIDE DEF n2o
<1>7. \A j \in 1..n : n2o[j] \in Nat /\ n2o[j] <= Len(old.funcs) /\ size[j] >= 0
  BY <1>2, <1>3, <1>4, <1>6
<1>8. size = [j \in 1..n |-> v[j].d + (IF n2o[j] = 0 THEN 0 ELSE Size(old.funcs[n2o[j]]))]
  BY <1>3, <1>4 DEF FuncSizes
<1> HIDE DEF size
<1>9. size \in [1..n -> Nat]
  <2>1. ASSUME NEW j \in 1..n PROVE size[j] \in Nat
    <3>1. n2o[j] # 0 => n2o[j] \in 1..Len(old.funcs) BY <1>7
    <3>2. (IF n2o[j] = 0 THEN 0 ELSE Size(old.funcs[n2o[j]])) \in Int BY <1>0, <3>1
    <3>3. size[j] = v[j].d + (IF n2o[j] = 0 THEN 0 ELSE Size(old.funcs[n2o[j]])) BY <1>8
    <3>4. size[j] \in Int BY <1>5, <3>2, <3>3
    <3>5. QED BY <1>7, <3>4
  <2>2. QED BY <1>8, <2>1
<1>10. Rising(n, l.firstEntry, e) BY <1>0, <1>4, <1>9, EntriesRise
<1> HIDE DEF e
<1>11. FuncTable(old, v, n2o, e)
         = [j \in 1..n |-> [name |-> IF n2o[j] = 0 THEN v[j].op.name ELSE old.funcs[n2o[j]].name,
                            entry |-> e[j - 1], end |-> e[j]]]
  BY <1>4 DEF FuncTable
<1>12. Len(FuncTable(old, v, n2o, e)) = n BY <1>4, <1>11
<1>13. \A j \in 1..n : FuncTable(old, v, n2o, e)[j].entry = e[j - 1]
                       /\ FuncTable(old, v, n2o, e)[j].end = e[j]
  BY <1>11
<1>14. QED BY <1>2, <1>3, <1>10, <1>12, <1>13 DEF FuncsFollow

(***************************************************************************)
(* The skeleton a layout describes, and where its functions go.            *)
(***************************************************************************)
IsBin(b) ==
  b = [file |-> b.file, order |-> b.order, funcs |-> b.funcs, pcln |-> b.pcln, mod |-> b.mod]

SameText(b, c) == IsBin(c) /\ c.order = b.order /\ c.funcs = b.funcs

\* Tables are filled in beside the sections and functions.
LEMMA FillKeeps ==
  ASSUME NEW b, IsBin(b), NEW ks, NEW data
  PROVE  SameText(b, FillTables(b, ks, data))
<1>1. PICK x : FillTables(b, ks, data) = [b EXCEPT !.pcln.data = x] BY DEF FillTables
<1>2. PICK f, o, g, c, m : b = [file |-> f, order |-> o, funcs |-> g, pcln |-> c, mod |-> m]
  BY DEF IsBin
<1>3. [b EXCEPT !.pcln.data = x]
        = [file |-> f, order |-> o, funcs |-> g, pcln |-> [c EXCEPT !.data = x], mod |-> m]
  BY <1>2
<1>4. QED BY <1>1, <1>2, <1>3 DEF SameText, IsBin

FuncsInText(bin) == FuncsFit(bin.funcs, Sect(bin, ".text"))

\* A skeleton that is not refused has the layout's functions, inside .text.
LEMMA SkeletonIs ==
  ASSUME NEW old, NEW l, LayoutTyped(old, l), Skeleton(old, l).ok
  PROVE  /\ IsBin(Skeleton(old, l).bin) /\ l.nfunc # 0
         /\ FuncsFollow(l.nfunc, l.firstEntry, Skeleton(old, l).bin.funcs)
         /\ FuncsInText(Skeleton(old, l).bin)
<1> DEFINE b    == [order |-> EmptySects(l)]
           fl   == DecodeFuncLayout(old, l)
           pcln == EmptyPcln(old, l, b)
           text == Sect(b, ".text")
           mod  == [f \in {ModFields[i] : i \in 1..Len(ModFields)} |->
                      l.mod[CHOOSE i \in 1..Len(ModFields) : ModFields[i] = f]]
           bin  == [file |-> <<>>, order |-> b.order, funcs |-> fl.funcs, pcln |-> pcln, mod |-> mod]
           empty == ~SectsFit(l) \/ ~fl.ok \/ l.nfunc = 0
           apart == ~FuncsFit(fl.funcs, text) \/ ~TablesFit(pcln)
<1>1. Skeleton(old, l) = IF empty THEN [ok |-> FALSE] ELSE IF apart THEN [ok |-> FALSE]
                         ELSE [ok |-> TRUE, m |-> fl.m, bin |-> bin]
  BY DEF Skeleton
<1> HIDE DEF bin, empty, apart
<1>2. ~empty /\ ~apart /\ Skeleton(old, l).bin = bin BY <1>1
<1>3. fl.ok /\ l.nfunc # 0 /\ FuncsFit(fl.funcs, text) BY <1>2 DEF empty, apart
<1>4. FuncsFollow(l.nfunc, l.firstEntry, fl.funcs) BY <1>3, DecodeFuncIs
<1> HIDE DEF fl, pcln, mod
<1>5. bin.funcs = fl.funcs /\ bin.order = b.order /\ IsBin(bin) BY DEF bin, IsBin
<1>6. Sect(bin, ".text") = text
  <2> HIDE DEF bin
  <2>1. QED BY <1>5 DEF Sect
<1>7. QED BY <1>2, <1>3, <1>4, <1>5, <1>6 DEF FuncsInText

\* What the workers start from: the layout the encoder wrote, read back.
Final(p) == WithTables(p, FromLayout(p, Written(p)))

Predictable(p) ==
  p \in Pairs /\ Parse(p.old) /\ Parse(p.new) /\ Readable(p, Written(p))

\* Where function j of the skeleton d.skel goes, and where it ends.
HasPlace(d, j) ==
  /\ TextAt(d, j) \in Nat /\ Size(d.skel.funcs[j]) \in Nat
  /\ TextAt(d, j) + Size(d.skel.funcs[j]) <= d.lay.newLen

Before(d, j, k) == TextAt(d, j) + Size(d.skel.funcs[j]) <= TextAt(d, k)

Apart(d) ==
  /\ Len(d.skel.funcs) \in Nat /\ d.lay.newLen \in Nat
  /\ \A j \in 1..Len(d.skel.funcs) : HasPlace(d, j)
  /\ \A j, k \in 1..Len(d.skel.funcs) : j < k => Before(d, j, k)

\* The workers' functions lie one behind the other inside the prediction.
LEMMA FinalApart ==
  ASSUME NEW p, Predictable(p)
  PROVE  /\ Apart(Final(p))
         /\ BaseOf(p, Final(p)) = [k \in 1..Final(p).lay.newLen |-> BaseOf(p, Final(p))[k]]
<1> DEFINE raw  == Written(p)
           d    == FromLayout(p, raw)
           e    == WithTables(p, d)
           lay  == decodeLayout(raw, p.old)
           sk   == skeleton(p.old, lay)
           text == Sect(d.skel, ".text")
<1>1. ReadsBack(p, d, BaseOf(p, e))
  BY PredictAssumption DEF Predictable
<1> HIDE DEF raw
<1>2. lay.ok /\ sk.ok BY DEF Predictable, Readable, raw
<1>3. d.lay = lay /\ d.skel = FillTables(sk.bin, Stage1a, ConcatTables(p.new, Stage1a))
  BY DEF FromLayout
<1>4. e.lay = d.lay /\ e.skel = FillTables(d.skel, Stage1b, ConcatTables(p.new, Stage1b))
  BY DEF WithTables, FromLayout
<1>5. /\ sk = Skeleton(p.old, lay) /\ LayoutTyped(p.old, lay) /\ lay.newLen \in Nat
      /\ text.off \in Nat /\ text.addr \in Int /\ text.size \in Int
      /\ text.off + text.size <= lay.newLen
      /\ BaseOf(p, e) = [k \in 1..lay.newLen |-> BaseOf(p, e)[k]]
  BY <1>1, <1>3 DEF ReadsBack, LayoutTyped, Numbers
<1> HIDE DEF d, e, lay, sk
<1>6. PICK n \in Nat, first \in Int : n = lay.nfunc /\ first = lay.firstEntry
  BY <1>5 DEF LayoutTyped
<1>7. /\ IsBin(sk.bin) /\ n # 0 /\ FuncsFollow(n, first, sk.bin.funcs) /\ FuncsInText(sk.bin)
  BY <1>2, <1>5, <1>6, SkeletonIs
<1>8. SameText(sk.bin, d.skel) BY <1>3, <1>7, FillKeeps
<1>9. SameText(d.skel, e.skel) BY <1>4, <1>8, FillKeeps DEF SameText
<1>10. PICK funcs : funcs = sk.bin.funcs OBVIOUS
<1>11. d.skel.funcs = funcs /\ e.skel.funcs = funcs BY <1>8, <1>9, <1>10 DEF SameText
<1>12. Sect(sk.bin, ".text") = text /\ Sect(e.skel, ".text") = text
  BY <1>8, <1>9 DEF SameText, Sect
<1> HIDE DEF text
<1>13. PICK f : /\ Rising(n, first, f)
                /\ \A j \in 1..n : funcs[j].entry = f[j - 1] /\ funcs[j].end = f[j]
  BY <1>7, <1>10 DEF FuncsFollow
<1>14. Len(funcs) = n BY <1>7, <1>10 DEF FuncsFollow
<1>15. f \in [0..n -> Int] /\ \A i, k \in 0..n : i <= k => f[i] <= f[k] BY <1>13 DEF Rising
<1>16. PICK off \in Nat, addr \in Int, size \in Int, L \in Nat :
         off = text.off /\ addr = text.addr /\ size = text.size /\ L = lay.newLen
  BY <1>5
<1>17. off + size <= L BY <1>5, <1>16
<1>18. f[n] <= addr + size /\ f[0] >= addr
  <2>1. funcs[n].end <= addr + size /\ funcs[1].entry >= addr
    BY <1>7, <1>10, <1>12, <1>14, <1>16 DEF FuncsInText, FuncsFit
  <2>2. n \in 1..n /\ 1 \in 1..n /\ 1 - 1 = 0 BY <1>7
  <2>3. QED BY <1>13, <2>1, <2>2
<1>19. ASSUME NEW j \in 1..n
       PROVE  /\ TextAt(e, j) = off + f[j - 1] - addr
              /\ Size(e.skel.funcs[j]) = f[j] - f[j - 1]
              /\ f[j] \in Int /\ f[j - 1] \in Int
              /\ f[0] <= f[j - 1] /\ f[j - 1] <= f[j] /\ f[j] <= f[n]
  <2>1. j \in 0..n /\ j - 1 \in 0..n /\ 0 \in 0..n /\ n \in 0..n /\ 0 <= j - 1 /\ j - 1 <= j /\ j <= n
    OBVIOUS
  <2>2. TextAt(e, j) = off + f[j - 1] - addr BY <1>11, <1>12, <1>13, <1>16 DEF TextAt
  <2>3. Size(e.skel.funcs[j]) = f[j] - f[j - 1] BY <1>11, <1>13 DEF Size
  <2>4. QED BY <1>15, <2>1, <2>2, <2>3
<1>20. f[0] \in Int /\ f[n] \in Int BY <1>15
<1>21. Len(e.skel.funcs) = n /\ e.lay.newLen = L BY <1>3, <1>4, <1>11, <1>14, <1>16
<1>22. ASSUME NEW j \in 1..n PROVE HasPlace(e, j)
  <2>1. PICK a, z, y, w : a = f[0] /\ z = f[j - 1] /\ y = f[j] /\ w = f[n] OBVIOUS
  <2>2. /\ a \in Int /\ z \in Int /\ y \in Int /\ w \in Int /\ a <= z /\ z <= y /\ y <= w
        /\ w <= addr + size /\ a >= addr
    BY <1>18, <1>19, <1>20, <2>1
  <2>3. /\ off + z - addr \in Nat /\ y - z \in Nat /\ (off + z - addr) + (y - z) <= L
    BY <1>17, <2>2
  <2>4. QED BY <1>19, <1>21, <2>1, <2>3 DEF HasPlace
<1>23. ASSUME NEW j \in 1..n, NEW k \in 1..n, j < k PROVE Before(e, j, k)
  <2>1. PICK z, y, x : z = f[j - 1] /\ y = f[j] /\ x = f[k - 1] OBVIOUS
  <2>2. j \in 0..n /\ k - 1 \in 0..n /\ j <= k - 1 BY <1>23
  <2>3. y <= x /\ z \in Int /\ y \in Int /\ x \in Int BY <1>15, <1>19, <2>1, <2>2
  <2>4. (off + z - addr) + (y - z) <= off + x - addr BY <2>3
  <2>5. QED BY <1>19, <2>1, <2>4 DEF Before
<1>24. Apart(e) BY <1>21, <1>22, <1>23 DEF Apart
<1>25. Final(p) = e BY DEF Final, e, d, raw
<1>26. QED BY <1>5, <1>16, <1>21, <1>24, <1>25

\* A relocated function has the size the skeleton gives it.
LEMMA PredictedIs ==
  ASSUME NEW p, NEW d, NEW j
  PROVE  PredictedFunc(p, d, j)
           = [k \in 1..Size(d.skel.funcs[j]) |-> PredictedFunc(p, d, j)[k]]
BY DEF PredictedFunc, Relocate, RelocOne

(***************************************************************************)
(* The prediction once the workers have written the functions in D.        *)
(***************************************************************************)
Covers(d, j, k) == TextAt(d, j) < k /\ k <= TextAt(d, j) + Size(d.skel.funcs[j])
Covering(d, D, k) == {j \in D : Covers(d, j, k)}

By(p, d, js, k) ==
  IF js = {} THEN BaseOf(p, d)[k]
  ELSE LET j == CHOOSE j \in js : TRUE IN PredictedFunc(p, d, j)[k - TextAt(d, j)]
Cell(p, d, D, k) == By(p, d, Covering(d, D, k), k)

Painted(p, d, D) == [k \in 1..d.lay.newLen |-> Cell(p, d, D, k)]

\* No byte belongs to two functions,
LEMMA OneCovers ==
  ASSUME NEW d, Apart(d), NEW i \in 1..Len(d.skel.funcs), NEW j \in 1..Len(d.skel.funcs),
         NEW k \in Nat, Covers(d, i, k), Covers(d, j, k)
  PROVE  i = j
<1>1. SUFFICES ASSUME NEW a \in 1..Len(d.skel.funcs), NEW b \in 1..Len(d.skel.funcs), a < b,
                      Covers(d, a, k), Covers(d, b, k)
               PROVE  FALSE
  <2>1. i \in Int /\ j \in Int BY DEF Apart
  <2>2. i = j \/ i < j \/ j < i BY <2>1
  <2>3. QED BY <1>1, <2>2
<1>2. Before(d, a, b) /\ HasPlace(d, a) /\ HasPlace(d, b) BY <1>1 DEF Apart
<1>3. PICK x, s, y : x = TextAt(d, a) /\ s = Size(d.skel.funcs[a]) /\ y = TextAt(d, b) OBVIOUS
<1>4. x \in Nat /\ s \in Nat /\ y \in Nat /\ x + s <= y BY <1>2, <1>3 DEF Before, HasPlace
<1>5. k <= x + s /\ y < k BY <1>1, <1>3 DEF Covers
<1>6. QED BY <1>4, <1>5

\* so in whatever order two functions are written, the prediction is the same:
\* it depends only on which have been.
LEMMA PaintMore ==
  ASSUME NEW p, NEW d, Apart(d), NEW D \in SUBSET (1..Len(d.skel.funcs)),
         NEW j \in 1..Len(d.skel.funcs), j \notin D
  PROVE  Splice(Painted(p, d, D), TextAt(d, j), PredictedFunc(p, d, j)) = Painted(p, d, D \cup {j})
<1> DEFINE b == Painted(p, d, D)
           s == PredictedFunc(p, d, j)
           L == d.lay.newLen
           m == Size(d.skel.funcs[j])
           i == TextAt(d, j)
           V == {b[k] : k \in 1..L} \cup {s[k] : k \in 1..m}
<1>1. L \in Nat /\ m \in Nat /\ i \in Nat /\ i + m <= L BY DEF Apart, HasPlace
<1>2. s = [k \in 1..m |-> s[k]] BY PredictedIs
<1>3. b = [k \in 1..L |-> b[k]]
  <2>1. b = [k \in 1..L |-> Cell(p, d, D, k)] BY DEF Painted
  <2> HIDE DEF b, L
  <2>2. QED BY <2>1
<1>4. Painted(p, d, D \cup {j}) = [k \in 1..L |-> Cell(p, d, D \cup {j}, k)] BY DEF Painted
<1>5. \A k \in 1..L : b[k] = Cell(p, d, D, k) BY DEF Painted
<1>6. ASSUME NEW k \in 1..L
      PROVE  Cell(p, d, D \cup {j}, k) = IF i < k /\ k <= i + m THEN s[k - i] ELSE Cell(p, d, D, k)
  <2>1. k \in Nat BY <1>1
  <2>2. CASE i < k /\ k <= i + m
    <3>1. Covers(d, j, k) BY <2>2 DEF Covers
    <3>2. \A a \in D \cup {j} : Covers(d, a, k) => a = j BY <2>1, <3>1, OneCovers
    <3>3. Covering(d, D \cup {j}, k) = {j} BY <3>1, <3>2 DEF Covering
    <3>4. By(p, d, {j}, k) = s[k - i]
      <4>1. {j} # {} /\ (CHOOSE a \in {j} : TRUE) = j OBVIOUS
      <4>2. By(p, d, {j}, k) = PredictedFunc(p, d, j)[k - TextAt(d, j)] BY <4>1, Zenon DEF By
      <4>3. QED BY <4>2
    <3>5. QED BY <2>2, <3>3, <3>4 DEF Cell
  <2>3. CASE ~(i < k /\ k <= i + m)
    <3>1. ~Covers(d, j, k) BY <2>3 DEF Covers
    <3>2. Covering(d, D \cup {j}, k) = Covering(d, D, k) BY <3>1 DEF Covering
    <3>3. QED BY <2>3, <3>2 DEF Cell
  <2>4. QED BY <2>2, <2>3
<1> HIDE DEF b, s, L, m, i
<1>7. b \in Seq(V) /\ Len(b) = L
  <2>1. \A k \in 1..L : b[k] \in V OBVIOUS
  <2> HIDE DEF V
  <2>2. b \in [1..L -> V] BY <1>3, <2>1
  <2>3. QED BY <1>1, <2>2
<1>8. s \in Seq(V) /\ Len(s) = m
  <2>1. \A k \in 1..m : s[k] \in V OBVIOUS
  <2> HIDE DEF V
  <2>2. s \in [1..m -> V] BY <1>2, <2>1
  <2>3. QED BY <1>1, <2>2
<1> HIDE DEF V
<1>9. /\ Splice(b, i, s) \in Seq(V) /\ Len(Splice(b, i, s)) = L
      /\ \A k \in 1..L : Splice(b, i, s)[k] = IF i < k /\ k <= i + m THEN s[k - i] ELSE b[k]
  <2>1. i + Len(s) <= Len(b) BY <1>1, <1>7, <1>8
  <2>2. QED BY <1>1, <1>7, <1>8, <2>1, SpliceOf
<1>10. PICK q \in Seq(V) : q = Splice(b, i, s) BY <1>9
<1>11. q = [k \in 1..Len(q) |-> q[k]] OBVIOUS
<1>12. \A k \in 1..L : q[k] = Cell(p, d, D \cup {j}, k) BY <1>5, <1>6, <1>9, <1>10
<1>13. q = [k \in 1..L |-> Cell(p, d, D \cup {j}, k)] BY <1>9, <1>10, <1>11, <1>12
<1>14. QED BY <1>4, <1>10, <1>13 DEF b, i, s

\* Before the first, it is what the workers find.
LEMMA PaintNone ==
  ASSUME NEW p, NEW d, BaseOf(p, d) = [k \in 1..d.lay.newLen |-> BaseOf(p, d)[k]]
  PROVE  BaseOf(p, d) = Painted(p, d, {})
<1>1. \A k : Cell(p, d, {}, k) = BaseOf(p, d)[k] BY DEF Cell, By, Covering
<1>2. QED BY <1>1 DEF Painted

(***************************************************************************)
(* What is known of a prediction at each of its stages.  What the encoder  *)
(* learns and writes is determined by the pair; what a worker's step adds  *)
(* depends only on its function; and the functions are given out once.     *)
(***************************************************************************)
Paired(d) == {j \in 1..Len(d.skel.funcs) : d.m.n2o[j] # 0}

(* The finished prediction of a pair.                                      *)
All(p) == Painted(p, Final(p), Paired(Final(p)))

(* What the encoder knows after n rounds.                                  *)
Voted(p, n) ==
  IF n = 0 THEN WithMaps(p, WithMatch(p))
  ELSE IF n = 1 THEN WithVotes(p, WithMaps(p, WithMatch(p)))
  ELSE WithVotes(p, WithVotes(p, WithMaps(p, WithMatch(p))))

PStages == {"idle", "parse", "plain", "maps", "vote", "skeleton", "blobs", "whole", "text",
            "done", "failed"}

PairKnown ==
  /\ pstage \in PStages /\ side \in {"enc", "dec"}
  /\ pstage # "idle" => pjob \in Pairs
  /\ pstage \notin {"idle", "parse", "plain"} => Parse(pjob.old) /\ Parse(pjob.new)

EncoderKnows ==
  /\ pstage = "maps" => enc = WithMatch(pjob)
  /\ pstage = "vote" => \E n \in 0..OvRounds : enc = Voted(pjob, n)
  /\ pstage \in {"skeleton", "blobs", "whole", "text", "done"} => layRaw = Written(pjob)

SideKnows ==
  /\ pstage = "blobs" => Predictable(pjob) /\ dec = FromLayout(pjob, layRaw)
  /\ pstage \in {"whole", "text", "done"} => Predictable(pjob) /\ dec = Final(pjob)

(* The functions given out and no longer held.                             *)
Placed(d, t, c) == {j \in Paired(d) : j <= t /\ \A w \in PW : c[w] # j}

Working ==
  pstage = "text" =>
    /\ taken \in Nat /\ cur \in [PW -> Int]
    /\ \A w \in PW : /\ cur[w] >= -1
                     /\ cur[w] = -1 => taken >= Len(dec.skel.funcs)
                     /\ cur[w] > 0 => cur[w] \in Paired(dec) /\ cur[w] <= taken
    /\ \A v, w \in PW : (v # w /\ cur[v] > 0) => cur[v] # cur[w]
    /\ pred = Painted(pjob, dec, Placed(dec, taken, cur))

Predicted ==
  /\ side = "dec" => encPred = All(pjob)
  /\ pstage = "done" => side = "dec" /\ pred = All(pjob)

PredInv == PairKnown /\ EncoderKnows /\ SideKnows /\ Working /\ Predicted

LEMMA PredInvInit == (PredictInit \/ PredictIdle) => PredInv
BY DEF PredictInit, PredictIdle, PredictStart, PredInv, PairKnown, PStages, EncoderKnows, SideKnows,
       Working, Predicted

IsEnc(e) ==
  e = [m |-> e.m, dmaps |-> e.dmaps, shifts |-> e.shifts, votes |-> e.votes, maj |-> e.maj,
       round |-> e.round]

\* A round counts itself.
LEMMA RoundCounts ==
  ASSUME NEW p, NEW e, IsEnc(e)
  PROVE  IsEnc(WithVotes(p, e)) /\ WithVotes(p, e).round = e.round + 1
<1>1. PICK v, j, d : WithVotes(p, e) = [e EXCEPT !.votes = v, !.maj = j, !.round = @ + 1, !.dmaps = d]
  BY DEF WithVotes
<1>2. PICK em, ed, es, ev, ej, er :
        e = [m |-> em, dmaps |-> ed, shifts |-> es, votes |-> ev, maj |-> ej, round |-> er]
  BY DEF IsEnc
<1>3. WithVotes(p, e) = [m |-> em, dmaps |-> d, shifts |-> es, votes |-> v, maj |-> j, round |-> er + 1]
  BY <1>1, <1>2
<1>4. QED BY <1>2, <1>3 DEF IsEnc

LEMMA VotedRounds ==
  ASSUME NEW p, NEW n \in 0..OvRounds
  PROVE  Voted(p, n).round = n
<1> DEFINE e == WithMaps(p, WithMatch(p))
<1>1. IsEnc(e) /\ e.round = 0
  <2>1. PICK a, b, c : e = [[Nothing EXCEPT !.m = a] EXCEPT !.dmaps = b, !.shifts = c]
    BY DEF WithMaps, WithMatch
  <2>2. e = [m |-> a, dmaps |-> b, shifts |-> c, votes |-> <<>>, maj |-> <<>>, round |-> 0]
    BY <2>1 DEF Nothing
  <2>3. QED BY <2>2 DEF IsEnc
<1> HIDE DEF e
<1>2. IsEnc(WithVotes(p, e)) /\ WithVotes(p, e).round = 1 BY <1>1, RoundCounts
<1>3. WithVotes(p, WithVotes(p, e)).round = 2 BY <1>2, RoundCounts
<1>4. n \in {0, 1, 2} BY DEF OvRounds
<1>5. QED BY <1>1, <1>2, <1>3, <1>4 DEF Voted, e

\* Both binaries parse, or the plain codec takes the pair.
LEMMA MatchOrFallBackStep == PredInv /\ MatchOrFallBack => PredInv'
<1> SUFFICES ASSUME PredInv, MatchOrFallBack PROVE PredInv' OBVIOUS
<1>1. /\ pstage = "parse" /\ pjob' = pjob /\ side' = side /\ encPred' = encPred
      /\ \/ pstage' = "maps" /\ enc' = WithMatch(pjob) /\ Parse(pjob.old) /\ Parse(pjob.new)
         \/ pstage' = "plain"
  BY DEF MatchOrFallBack
<1>2. PairKnown' BY <1>1 DEF PredInv, PairKnown, PStages
<1>3. EncoderKnows' BY <1>1 DEF EncoderKnows
<1>4. SideKnows' /\ Working' BY <1>1 DEF SideKnows, Working
<1>5. Predicted' BY <1>1 DEF PredInv, Predicted
<1>6. QED BY <1>2, <1>3, <1>4, <1>5 DEF PredInv

LEMMA MapDataStep == PredInv /\ MapData => PredInv'
<1> SUFFICES ASSUME PredInv, MapData PROVE PredInv' OBVIOUS
<1>1. /\ pstage = "maps" /\ pstage' = "vote" /\ enc' = WithMaps(pjob, enc)
      /\ pjob' = pjob /\ side' = side /\ encPred' = encPred
  BY DEF MapData
<1>2. PairKnown' BY <1>1 DEF PredInv, PairKnown, PStages
<1>3. EncoderKnows'
  <2>1. enc' = Voted(pjob, 0) BY <1>1 DEF PredInv, EncoderKnows, Voted
  <2>2. 0 \in 0..OvRounds BY DEF OvRounds
  <2>3. QED BY <1>1, <2>1, <2>2 DEF EncoderKnows
<1>4. SideKnows' /\ Working' BY <1>1 DEF SideKnows, Working
<1>5. Predicted' BY <1>1 DEF PredInv, Predicted
<1>6. QED BY <1>2, <1>3, <1>4, <1>5 DEF PredInv

LEMMA VoteRoundStep == PredInv /\ VoteRound => PredInv'
<1> SUFFICES ASSUME PredInv, VoteRound PROVE PredInv' OBVIOUS
<1>1. /\ pstage = "vote" /\ pstage' = pstage /\ enc' = WithVotes(pjob, enc) /\ enc.round < OvRounds
      /\ pjob' = pjob /\ side' = side /\ encPred' = encPred
  BY DEF VoteRound
<1>2. PairKnown' BY <1>1 DEF PredInv, PairKnown, PStages
<1>3. EncoderKnows'
  <2>1. PICK n \in 0..OvRounds : enc = Voted(pjob, n) BY <1>1 DEF PredInv, EncoderKnows
  <2>2. n < OvRounds BY <1>1, <2>1, VotedRounds
  <2>3. n \in {0, 1} /\ n + 1 \in 0..OvRounds BY <2>2 DEF OvRounds
  <2>4. enc' = Voted(pjob, n + 1) BY <1>1, <2>1, <2>3 DEF Voted
  <2>5. QED BY <1>1, <2>3, <2>4 DEF EncoderKnows
<1>4. SideKnows' /\ Working' BY <1>1 DEF SideKnows, Working
<1>5. Predicted' BY <1>1 DEF PredInv, Predicted
<1>6. QED BY <1>2, <1>3, <1>4, <1>5 DEF PredInv

LEMMA WriteLayoutStep == PredInv /\ WriteLayout => PredInv'
<1> SUFFICES ASSUME PredInv, WriteLayout PROVE PredInv' OBVIOUS
<1>1. /\ pstage = "vote" /\ pstage' = "skeleton" /\ enc.round = OvRounds
      /\ layRaw' = EncodeLayout(TheLayout(pjob, enc), pjob.old)
      /\ pjob' = pjob /\ side' = side /\ encPred' = encPred
  BY DEF WriteLayout
<1>2. PairKnown' BY <1>1 DEF PredInv, PairKnown, PStages
<1>3. EncoderKnows'
  <2>1. PICK n \in 0..OvRounds : enc = Voted(pjob, n) BY <1>1 DEF PredInv, EncoderKnows
  <2>2. n = 2 BY <1>1, <2>1, VotedRounds DEF OvRounds
  <2>3. enc = Voted(pjob, 2) BY <2>1, <2>2
  <2>4. Voted(pjob, 2) = WithVotes(pjob, WithVotes(pjob, WithMaps(pjob, WithMatch(pjob))))
    BY DEF Voted
  <2>5. Written(pjob) = EncodeLayout(TheLayout(pjob, Voted(pjob, 2)), pjob.old)
    BY <2>4 DEF Written
  <2>6. layRaw' = Written(pjob) BY <1>1, <2>3, <2>5
  <2>7. QED BY <1>1, <2>6 DEF EncoderKnows
<1>4. SideKnows' /\ Working' BY <1>1 DEF SideKnows, Working
<1>5. Predicted' BY <1>1 DEF PredInv, Predicted
<1>6. QED BY <1>2, <1>3, <1>4, <1>5 DEF PredInv

\* A side reads the layout the encoder wrote, or refuses it.
LEMMA ReadLayoutStep == PredInv /\ ReadLayout => PredInv'
<1> SUFFICES ASSUME PredInv, ReadLayout PROVE PredInv' OBVIOUS
<1>1. /\ pstage = "skeleton"
      /\ \/ Readable(pjob, layRaw) /\ pstage' = "blobs" /\ dec' = FromLayout(pjob, layRaw)
         \/ pstage' = "failed"
      /\ pjob' = pjob /\ side' = side /\ encPred' = encPred /\ layRaw' = layRaw
  BY DEF ReadLayout
<1>2. PairKnown' BY <1>1 DEF PredInv, PairKnown, PStages
<1>3. layRaw = Written(pjob) BY <1>1 DEF PredInv, EncoderKnows
<1>4. EncoderKnows' BY <1>1, <1>3 DEF EncoderKnows
<1>5. SideKnows'
  <2>1. CASE pstage' = "blobs"
    <3>1. pjob \in Pairs /\ Parse(pjob.old) /\ Parse(pjob.new) BY <1>1 DEF PredInv, PairKnown
    <3>2. Predictable(pjob) BY <1>1, <1>3, <2>1, <3>1 DEF Predictable
    <3>3. QED BY <1>1, <2>1, <3>2 DEF SideKnows
  <2>2. CASE pstage' = "failed" BY <2>2 DEF SideKnows
  <2>3. QED BY <1>1, <2>1, <2>2
<1>6. Working' BY <1>1 DEF Working
<1>7. Predicted' BY <1>1 DEF PredInv, Predicted
<1>8. QED BY <1>2, <1>4, <1>5, <1>6, <1>7 DEF PredInv

LEMMA PredictTablesStep == PredInv /\ PredictTables => PredInv'
<1> SUFFICES ASSUME PredInv, PredictTables PROVE PredInv' OBVIOUS
<1>1. /\ pstage = "blobs" /\ pstage' = "whole" /\ dec' = WithTables(pjob, dec)
      /\ pjob' = pjob /\ side' = side /\ encPred' = encPred /\ layRaw' = layRaw
  BY DEF PredictTables
<1>2. PairKnown' BY <1>1 DEF PredInv, PairKnown, PStages
<1>3. layRaw = Written(pjob) BY <1>1 DEF PredInv, EncoderKnows
<1>4. EncoderKnows' BY <1>1, <1>3 DEF EncoderKnows
<1>5. SideKnows'
  <2>1. Predictable(pjob) /\ dec = FromLayout(pjob, layRaw) BY <1>1 DEF PredInv, SideKnows
  <2>2. dec' = Final(pjob) BY <1>1, <1>3, <2>1 DEF Final
  <2>3. QED BY <1>1, <2>1, <2>2 DEF SideKnows
<1>6. Working' BY <1>1 DEF Working
<1>7. Predicted' BY <1>1 DEF PredInv, Predicted
<1>8. QED BY <1>2, <1>4, <1>5, <1>6, <1>7 DEF PredInv

LEMMA PredictWholeStep == PredInv /\ PredictWhole => PredInv'
<1> SUFFICES ASSUME PredInv, PredictWhole PROVE PredInv' OBVIOUS
<1>1. /\ pstage = "whole" /\ pstage' = "text" /\ pred' = BaseOf(pjob, dec)
      /\ taken' = 0 /\ cur' = [w \in PW |-> 0] /\ dec' = dec
      /\ pjob' = pjob /\ side' = side /\ encPred' = encPred /\ layRaw' = layRaw
  BY DEF PredictWhole
<1>2. PairKnown' BY <1>1 DEF PredInv, PairKnown, PStages
<1>3. EncoderKnows' BY <1>1 DEF PredInv, EncoderKnows
<1>4. Predictable(pjob) /\ dec = Final(pjob) BY <1>1 DEF PredInv, SideKnows
<1>5. SideKnows' BY <1>1, <1>4 DEF SideKnows
<1>6. pred' = Painted(pjob, dec, {}) BY <1>1, <1>4, FinalApart, PaintNone
<1>7. Placed(dec, taken', cur') = {}
  <2>1. \A j \in Paired(dec) : ~(j <= 0) BY DEF Paired
  <2>2. QED BY <1>1, <2>1 DEF Placed
<1>8. Working' BY <1>1, <1>6, <1>7 DEF Working
<1>9. Predicted' BY <1>1 DEF PredInv, Predicted
<1>10. QED BY <1>2, <1>3, <1>5, <1>8, <1>9 DEF PredInv

\* A function is given to one worker, and what is written stays as it is.
LEMMA TakeFuncStep == ASSUME NEW u \in PW PROVE PredInv /\ TakeFunc(u) => PredInv'
<1> SUFFICES ASSUME PredInv, TakeFunc(u) PROVE PredInv' OBVIOUS
<1> DEFINE n == Len(dec.skel.funcs)
           x == IF taken >= n THEN -1 ELSE IF dec.m.n2o[taken + 1] = 0 THEN 0 ELSE taken + 1
<1>1. /\ pstage = "text" /\ pstage' = "text" /\ cur[u] = 0 /\ taken' = taken + 1
      /\ cur' = [cur EXCEPT ![u] = x] /\ pred' = pred /\ dec' = dec
      /\ pjob' = pjob /\ side' = side /\ encPred' = encPred /\ layRaw' = layRaw
  BY DEF TakeFunc
<1>2. PairKnown' BY <1>1 DEF PredInv, PairKnown, PStages
<1>3. EncoderKnows' BY <1>1 DEF PredInv, EncoderKnows
<1>4. Predictable(pjob) /\ dec = Final(pjob) BY <1>1 DEF PredInv, SideKnows
<1>5. SideKnows' BY <1>1, <1>4 DEF SideKnows
<1>6. n \in Nat BY <1>4, FinalApart DEF Apart
<1>7. /\ taken \in Nat /\ cur \in [PW -> Int]
      /\ \A w \in PW : /\ cur[w] >= -1
                       /\ cur[w] = -1 => taken >= n
                       /\ cur[w] > 0 => cur[w] \in Paired(dec) /\ cur[w] <= taken
      /\ \A v, w \in PW : (v # w /\ cur[v] > 0) => cur[v] # cur[w]
      /\ pred = Painted(pjob, dec, Placed(dec, taken, cur))
  <2>1. Working BY DEF PredInv
  <2>2. QED BY <1>1, <2>1, Zenon DEF Working
<1>8. \A j \in Paired(dec) : j \in 1..n /\ j \in Nat /\ dec.m.n2o[j] # 0 BY <1>6 DEF Paired
<1>9. /\ x \in Int /\ x >= -1
      /\ x = -1 => taken >= n
      /\ x > 0 => x = taken + 1 /\ x \in Paired(dec)
  <2>1. taken < n => taken + 1 \in 1..n BY <1>6, <1>7
  <2>2. QED BY <1>6, <1>7, <2>1 DEF Paired
<1>10. \A j \in Paired(dec) : j = taken + 1 => x = j
  <2> SUFFICES ASSUME NEW j \in Paired(dec), j = taken + 1 PROVE x = j OBVIOUS
  <2>1. ~(taken >= n) /\ dec.m.n2o[taken + 1] # 0 BY <1>6, <1>7, <1>8
  <2>2. QED BY <2>1
<1> HIDE DEF n, x
<1>11. cur' \in [PW -> Int] /\ cur'[u] = x /\ \A w \in PW : w # u => cur'[w] = cur[w]
  BY <1>1, <1>7, <1>9
<1>12. taken' \in Nat /\ taken <= taken' BY <1>1, <1>7
<1>13. \A w \in PW : /\ cur'[w] >= -1
                     /\ cur'[w] = -1 => taken' >= n
                     /\ cur'[w] > 0 => cur'[w] \in Paired(dec) /\ cur'[w] <= taken'
  <2> TAKE w \in PW
  <2>1. CASE w = u BY <1>1, <1>6, <1>7, <1>9, <1>11, <1>12, <2>1
  <2>2. CASE w # u
    <3>1. cur'[w] = cur[w] /\ cur[w] \in Int BY <1>7, <1>11, <2>2
    <3>2. QED BY <1>1, <1>6, <1>7, <3>1
  <2>3. QED BY <2>1, <2>2
<1>14. \A v, w \in PW : (v # w /\ cur'[v] > 0) => cur'[v] # cur'[w]
  <2> SUFFICES ASSUME NEW v \in PW, NEW w \in PW, v # w, cur'[v] > 0 PROVE cur'[v] # cur'[w]
    OBVIOUS
  <2>1. CASE v = u
    <3>1. w # u /\ cur'[v] = taken + 1 BY <1>9, <1>11, <2>1
    <3>2. cur'[w] = cur[w] BY <1>11, <3>1
    <3>3. cur[w] # taken + 1 BY <1>7
    <3>4. QED BY <3>1, <3>2, <3>3
  <2>2. CASE w = u
    <3>1. v # u /\ cur'[v] = cur[v] BY <1>11, <2>2
    <3>2. cur[v] > 0 /\ cur[v] <= taken /\ cur[v] \in Int BY <1>7, <3>1
    <3>3. x > 0 => x = taken + 1 BY <1>9
    <3>4. QED BY <1>7, <1>9, <1>11, <2>2, <3>1, <3>2, <3>3
  <2>3. CASE v # u /\ w # u BY <1>7, <1>11, <2>3
  <2>4. QED BY <2>1, <2>2, <2>3
<1>15. Placed(dec, taken', cur') = Placed(dec, taken, cur)
  <2>1. ASSUME NEW j \in Paired(dec)
        PROVE  (j <= taken' /\ \A w \in PW : cur'[w] # j)
                 <=> (j <= taken /\ \A w \in PW : cur[w] # j)
    <3>1. j \in Nat /\ j >= 1 BY <1>8
    <3>2. CASE j = taken + 1
      <4>1. cur'[u] = j BY <1>10, <1>11, <3>2
      <4>2. ~(j <= taken) BY <1>7, <3>2
      <4>3. QED BY <4>1, <4>2
    <3>3. CASE j # taken + 1
      <4>1. j <= taken' <=> j <= taken BY <1>1, <1>7, <3>1, <3>3
      <4>2. cur[u] # j BY <1>1, <3>1
      <4>3. x # j BY <1>9, <3>1, <3>3
      <4>4. (\A w \in PW : cur'[w] # j) <=> (\A w \in PW : cur[w] # j) BY <1>11, <4>2, <4>3
      <4>5. QED BY <4>1, <4>4
    <3>4. QED BY <3>2, <3>3
  <2>2. QED BY <2>1 DEF Placed
<1>16. pred' = Painted(pjob', dec', Placed(dec', taken', cur')) BY <1>1, <1>7, <1>15
<1>17. Working' BY <1>1, <1>11, <1>12, <1>13, <1>14, <1>16 DEF Working, n
<1>18. Predicted' BY <1>1 DEF PredInv, Predicted
<1>19. QED BY <1>2, <1>3, <1>5, <1>17, <1>18 DEF PredInv

\* A worker's function joins those written.
LEMMA RelocateFuncStep == ASSUME NEW u \in PW PROVE PredInv /\ RelocateFunc(u) => PredInv'
<1> SUFFICES ASSUME PredInv, RelocateFunc(u) PROVE PredInv' OBVIOUS
<1> DEFINE j == cur[u]
<1>1. /\ pstage = "text" /\ pstage' = "text" /\ j > 0 /\ taken' = taken
      /\ cur' = [cur EXCEPT ![u] = 0] /\ dec' = dec
      /\ pred' = Splice(pred, TextAt(dec, j), PredictedFunc(pjob, dec, j))
      /\ pjob' = pjob /\ side' = side /\ encPred' = encPred /\ layRaw' = layRaw
  BY DEF RelocateFunc
<1>2. PairKnown' BY <1>1 DEF PredInv, PairKnown, PStages
<1>3. EncoderKnows' BY <1>1 DEF PredInv, EncoderKnows
<1>4. Predictable(pjob) /\ dec = Final(pjob) BY <1>1 DEF PredInv, SideKnows
<1>5. SideKnows' BY <1>1, <1>4 DEF SideKnows
<1>6. Apart(dec) BY <1>4, FinalApart
<1>7. /\ taken \in Nat /\ cur \in [PW -> Int]
      /\ \A w \in PW : /\ cur[w] >= -1
                       /\ cur[w] = -1 => taken >= Len(dec.skel.funcs)
                       /\ cur[w] > 0 => cur[w] \in Paired(dec) /\ cur[w] <= taken
      /\ \A v, w \in PW : (v # w /\ cur[v] > 0) => cur[v] # cur[w]
      /\ pred = Painted(pjob, dec, Placed(dec, taken, cur))
  <2>1. Working BY DEF PredInv
  <2>2. QED BY <1>1, <2>1, Zenon DEF Working
<1>8. j \in Paired(dec) /\ j <= taken BY <1>1, <1>7
<1>9. \A w \in PW : w # u => cur[w] # j BY <1>1, <1>7
<1>10. cur' \in [PW -> Int] /\ cur'[u] = 0 /\ \A w \in PW : w # u => cur'[w] = cur[w]
  BY <1>1, <1>7
<1>11. cur[u] = j OBVIOUS
<1> HIDE DEF j
<1>12. Placed(dec, taken', cur') = Placed(dec, taken, cur) \cup {j}
  <2>1. \A i \in Paired(dec) : (\A w \in PW : cur'[w] # i) <=> (i = j \/ \A w \in PW : cur[w] # i)
    <3> TAKE i \in Paired(dec)
    <3>1. i # 0 BY DEF Paired
    <3>2. CASE i = j BY <1>9, <1>10, <3>1, <3>2
    <3>3. CASE i # j BY <1>10, <1>11, <3>1, <3>3
    <3>4. QED BY <3>2, <3>3
  <2>2. QED BY <1>1, <1>8, <2>1 DEF Placed
<1>13. /\ j \notin Placed(dec, taken, cur) /\ j \in 1..Len(dec.skel.funcs)
       /\ Placed(dec, taken, cur) \in SUBSET (1..Len(dec.skel.funcs))
  BY <1>8, <1>11 DEF Placed, Paired
<1>14. pred' = Painted(pjob', dec', Placed(dec', taken', cur'))
  <2>1. PICK D \in SUBSET (1..Len(dec.skel.funcs)) : D = Placed(dec, taken, cur) BY <1>13
  <2>2. Splice(Painted(pjob, dec, D), TextAt(dec, j), PredictedFunc(pjob, dec, j))
          = Painted(pjob, dec, D \cup {j})
    BY <1>6, <1>13, <2>1, PaintMore
  <2>3. pred' = Painted(pjob, dec, D \cup {j}) BY <1>1, <1>7, <2>1, <2>2
  <2>4. Placed(dec', taken', cur') = D \cup {j} BY <1>1, <1>12, <2>1
  <2>5. QED BY <1>1, <2>3, <2>4
<1>15. \A w \in PW : /\ cur'[w] >= -1
                     /\ cur'[w] = -1 => taken' >= Len(dec'.skel.funcs)
                     /\ cur'[w] > 0 => cur'[w] \in Paired(dec') /\ cur'[w] <= taken'
  BY <1>1, <1>7, <1>10
<1>16. \A v, w \in PW : (v # w /\ cur'[v] > 0) => cur'[v] # cur'[w] BY <1>7, <1>10
<1>17. Working' BY <1>1, <1>7, <1>10, <1>14, <1>15, <1>16 DEF Working
<1>18. Predicted' BY <1>1 DEF PredInv, Predicted
<1>19. QED BY <1>2, <1>3, <1>5, <1>17, <1>18 DEF PredInv

\* When no worker finds another function, every paired one has been written.
LEMMA PredictionDoneStep == PredInv /\ PredictionDone => PredInv'
<1> SUFFICES ASSUME PredInv, PredictionDone PROVE PredInv' OBVIOUS
<1>1. /\ pstage = "text" /\ pjob' = pjob /\ layRaw' = layRaw /\ \A w \in PW : cur[w] = -1
      /\ \/ side = "enc" /\ side' = "dec" /\ pstage' = "skeleton" /\ encPred' = pred
         \/ /\ side # "enc" /\ pstage' = "done" /\ side' = side /\ encPred' = encPred
            /\ dec' = dec /\ pred' = pred
  BY DEF PredictionDone
<1>2. PairKnown' BY <1>1 DEF PredInv, PairKnown, PStages
<1>3. EncoderKnows' BY <1>1 DEF PredInv, EncoderKnows
<1>4. Predictable(pjob) /\ dec = Final(pjob) BY <1>1 DEF PredInv, SideKnows
<1>5. SideKnows' BY <1>1, <1>4 DEF SideKnows
<1>6. /\ taken \in Nat
      /\ \A w \in PW : cur[w] = -1 => taken >= Len(dec.skel.funcs)
      /\ pred = Painted(pjob, dec, Placed(dec, taken, cur))
  BY <1>1 DEF PredInv, Working
<1>7. taken >= Len(dec.skel.funcs) /\ Len(dec.skel.funcs) \in Nat
  <2>1. 1 \in PW BY PredictAssumption DEF PW
  <2>2. QED BY <1>1, <1>4, <1>6, <2>1, FinalApart DEF Apart
<1>8. Placed(dec, taken, cur) = Paired(dec)
  <2>1. \A j \in Paired(dec) : j <= taken /\ \A w \in PW : cur[w] # j
    <3> TAKE j \in Paired(dec)
    <3>1. j \in 1..Len(dec.skel.funcs) BY DEF Paired
    <3>2. j <= taken /\ j # -1 BY <1>6, <1>7, <3>1
    <3>3. QED BY <1>1, <3>2
  <2>2. QED BY <2>1 DEF Placed
<1>9. pred = All(pjob) BY <1>4, <1>6, <1>8 DEF All
<1>10. Working' BY <1>1 DEF Working
<1>11. Predicted'
  <2>1. side = "enc" \/ side = "dec" BY DEF PredInv, PairKnown
  <2>2. QED BY <1>1, <1>9, <2>1 DEF PredInv, Predicted
<1>12. QED BY <1>2, <1>3, <1>5, <1>10, <1>11 DEF PredInv

LEMMA PredInvStep == PredInv /\ [PredictNext]_pvars => PredInv'
<1> SUFFICES ASSUME PredInv, [PredictNext]_pvars PROVE PredInv' OBVIOUS
<1>1. CASE MatchOrFallBack BY <1>1, MatchOrFallBackStep
<1>2. CASE MapData BY <1>2, MapDataStep
<1>3. CASE VoteRound BY <1>3, VoteRoundStep
<1>4. CASE WriteLayout BY <1>4, WriteLayoutStep
<1>5. CASE ReadLayout BY <1>5, ReadLayoutStep
<1>6. CASE PredictTables BY <1>6, PredictTablesStep
<1>7. CASE PredictWhole BY <1>7, PredictWholeStep
<1>8. CASE PredictionDone BY <1>8, PredictionDoneStep
<1>9. ASSUME NEW w \in PW, TakeFunc(w) PROVE PredInv' BY <1>9, TakeFuncStep
<1>10. ASSUME NEW w \in PW, RelocateFunc(w) PROVE PredInv' BY <1>10, RelocateFuncStep
<1>11. CASE UNCHANGED pvars
  BY <1>11 DEF pvars, PredInv, PairKnown, EncoderKnows, SideKnows, Working, Predicted
<1>12. QED BY <1>1, <1>2, <1>3, <1>4, <1>5, <1>6, <1>7, <1>8, <1>9, <1>10, <1>11 DEF PredictNext

\* However many workers write the functions of a prediction, and in whatever
\* order, what is written at any moment depends only on which functions are.
THEOREM PredictInvariant == PredictSpec => []PredInv
BY PredInvInit, PredInvStep, PTL DEF PredictSpec

\* go127.go, "an encoder and a decoder that disagree say so": they never have
\* to.  The decoder's prediction is the one the encoder's correction corrects.
THEOREM PredictionsAgree == PredictSpec => []SidesAgree
<1>1. PredInv => SidesAgree BY DEF PredInv, Predicted, SidesAgree
<1>2. QED BY <1>1, PredictInvariant, PTL
=============================================================================
