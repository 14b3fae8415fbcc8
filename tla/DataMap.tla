------------------------------ MODULE DataMap ------------------------------
(***************************************************************************)
(* Content maps of data sections: src/delta/datamap.go.                    *)
(*                                                                         *)
(* A map is a sequence of blocks [d, m, a]: the block's shift, whether it  *)
(* matched by content, and whether its content was too common to place.    *)
(* The job of a map is [old, new, block, align, tol], align giving each    *)
(* block the unit of its shift.                                            *)
(***************************************************************************)
EXTENDS GoBin

CONSTANTS
  WindowHash(_),   \* hashWindow; windows may collide
  Lookahead,       \* windows looked up past a block
  MaxOccur         \* a window found this often is not verified

CeilTo(n, b) == (n + b - 1) \div b
Blocks(j) == CeilTo(Len(j.old), j.block)

(* The window index: every (hash, position) of the new section.            *)
Windows(j, lo, hi) ==
  {<<WindowHash(Cut(j.new, p, p + j.block)), p>> : p \in lo..(hi - 1)}
NumWindows(j) == Len(j.new) - j.block + 1
WinIndex(j) == Windows(j, 0, NumWindows(j))

Found(ix, h) == {e[2] : e \in {e \in ix : e[1] = h}}

(* matchAt: the block at o, moved by d, is in the new section there, up to *)
(* tol cells.                                                              *)
MatchAt(j, o, d) ==
  /\ d % j.align[o \div j.block + 1] = 0
  /\ o + d >= 0 /\ o + d + j.block <= Len(j.new)
  /\ Cardinality({k \in 0..(j.block - 1) : At(j.old, o + k) # At(j.new, o + d + k)}) <= j.tol

\* Mutant: a window that has the block's hash is taken for the block.
VerifiedByHash(j, o, prev, d) == d # prev /\ o + d >= 0 /\ o + d + j.block <= Len(j.new)

(* What the loop over a window's places accepts: the block's own cells.    *)
Verified(j, o, prev, d) == d # prev /\ MatchAt(j, o, d)

(* The shifts worth trying for the block at o: for each window from it on, *)
(* the places before and after the expected one.  `key` is the distance,   *)
(* then the order in which the loop meets them.                            *)
Candidates(j, ix, o, prev) ==
  LET qs == o..Min({o + j.block + Lookahead, Len(j.old) - j.block})
      Near(q) ==
        LET ps == Found(ix, WindowHash(Cut(j.old, q, q + j.block)))
            lo == {p \in ps : p < q + prev}
            hi == ps \ lo
        IN IF Cardinality(ps) >= MaxOccur THEN {}
           ELSE (IF lo = {} THEN {} ELSE {[d |-> Max(lo) - q, n |-> 2 * q]})
                  \cup (IF hi = {} THEN {} ELSE {[d |-> Min(hi) - q, n |-> 2 * q + 1]})
      Dist(d) == IF d > prev THEN d - prev ELSE prev - d
  IN {[d |-> c.d, key |-> <<Dist(c.d), c.n>>] :
        c \in {c \in UNION {Near(q) : q \in qs} : Verified(j, o, prev, c.d)}}

Overflows(j, ix, o) ==
  \E q \in o..Min({o + j.block + Lookahead, Len(j.old) - j.block}) :
    Cardinality(Found(ix, WindowHash(Cut(j.old, q, q + j.block)))) >= MaxOccur

Nearer(k, l) == k[1] < l[1] \/ (k[1] = l[1] /\ k[2] <= l[2])

(* step: block i (from 0) given the shift of the block before it.          *)
Step(j, ix, i, prev) ==
  LET o == i * j.block
      cs == Candidates(j, ix, o, prev)
      best == (CHOOSE c \in cs : \A c2 \in cs : Nearer(c.key, c2.key)).d
  IN IF o + j.block > Len(j.old) THEN [d |-> prev, m |-> FALSE, a |-> FALSE]
     ELSE IF MatchAt(j, o, prev) THEN [d |-> prev, m |-> TRUE, a |-> FALSE]
     ELSE IF cs = {} THEN [d |-> prev, m |-> FALSE, a |-> Overflows(j, ix, o)]
     ELSE IF /\ o + 2 * j.block <= Len(j.old)
             /\ ~MatchAt(j, o + j.block, best) /\ MatchAt(j, o + j.block, prev)
          THEN [d |-> prev, m |-> FALSE, a |-> FALSE]
     ELSE [d |-> best, m |-> TRUE, a |-> FALSE]

(* The pass over all n blocks, each from the shift of the one before it.   *)
Pass(j, ix, n) ==
  LET upTo[i \in 0..n] ==
        IF i = 0 THEN <<>>
        ELSE LET before == upTo[i - 1]
             IN Append(before, Step(j, ix, i - 1, IF i = 1 THEN 0 ELSE before[i - 1].d))
  IN upTo[n]

(* The backward pass: an ambiguous block keeps its shift when it matches   *)
(* there, else takes the next matched one's, else none, else its own       *)
(* brought to the block's unit.                                            *)
Truncated(d, a) == IF d >= 0 THEN (d \div a) * a ELSE -(((-d) \div a) * a)

Resolved(j, bs) ==
  [i \in 1..Len(bs) |->
     LET o == (i - 1) * j.block
         later == {k \in (i + 1)..Len(bs) : bs[k].m /\ ~bs[k].a}
         nextD == bs[Min(later)].d
     IN IF ~bs[i].a \/ MatchAt(j, o, bs[i].d) THEN bs[i]
        ELSE IF later # {} /\ MatchAt(j, o, nextD) THEN [bs[i] EXCEPT !.d = nextD]
        ELSE IF MatchAt(j, o, 0) THEN [bs[i] EXCEPT !.d = 0]
        ELSE [bs[i] EXCEPT !.d = Truncated(@, j.align[i])]]

TooShort(j) == Len(j.new) < j.block \/ Len(j.old) < j.block

(* buildDataMap, as one pass.                                              *)
BuildDataMap(j) ==
  [block |-> j.block, oldLen |-> Len(j.old),
   b |-> IF TooShort(j) THEN [i \in 1..Blocks(j) |-> [d |-> 0, m |-> FALSE, a |-> FALSE]]
         ELSE Resolved(j, Pass(j, WinIndex(j), Blocks(j)))]

Job(old, new, block, tol) ==
  [old |-> old, new |-> new, block |-> block, tol |-> tol,
   align |-> [i \in 1..CeilTo(Len(old), block) |-> 1]]

(* reliable: matched, or between matched blocks of the same shift.         *)
Reliable(dm, i) ==
  /\ i \in 1..Len(dm.b)
  /\ \/ dm.b[i].m
     \/ LET lo == {k \in 1..(i - 1) : dm.b[k].m}
            hi == {k \in (i + 1)..Len(dm.b) : dm.b[k].m}
        IN lo # {} /\ hi # {} /\ dm.b[Max(lo)].d = dm.b[i].d /\ dm.b[Min(hi)].d = dm.b[i].d

BlockOf(dm, off) == Min({off \div dm.block + 1, Len(dm.b)})
MapOff(dm, off) == IF dm.b = <<>> THEN off ELSE off + dm.b[BlockOf(dm, off)].d

(* maskPointers: the aligned pointers into the image, and their removal.   *)
Pointers(b, d) ==
  {q \in 0..(Len(d) \div PtrSize - 1) : InImage(b, U64(d, q * PtrSize))}
Masked(b, d) ==
  [k \in 1..Len(d) |-> IF (k - 1) \div PtrSize \in Pointers(b, d) THEN 0 ELSE d[k]]

(* buildSectionMap: the map of one section, pointers masked on both sides; *)
(* a block with a pointer moves by whole pointers.                         *)
BuildSectionMap(old, new, name, block) ==
  LET od == Sect(old, name).data
      ptrs == Pointers(old, od)
      HasPtr(i) == \E q \in ptrs : q >= ((i - 1) * block) \div PtrSize
                                     /\ q < CeilTo((i - 1) * block + block, PtrSize)
  IN BuildDataMap([old |-> Masked(old, od), new |-> Masked(new, Sect(new, name).data),
                   block |-> block, tol |-> 0,
                   align |-> [i \in 1..CeilTo(Len(od), block) |-> IF HasPtr(i) THEN PtrSize ELSE 1]])
=============================================================================
