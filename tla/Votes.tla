------------------------------- MODULE Votes -------------------------------
(***************************************************************************)
(* The encoder's target vote: collectVotes, majorities, fixBlocks and      *)
(* deriveOverrides of src/delta/predict.go.                                *)
(*                                                                         *)
(* A vote is [o, n]: an old target and the new target one of its           *)
(* references has.  Votes are kept sorted.                                 *)
(***************************************************************************)
EXTENDS PclnPredict, TypeWalk

CONSTANTS
  DataBlock,    \* dataBlock
  OvMinVotes    \* ovMinVotes: votes an override needs

DataMapSects == <<".rodata", ".go.type", ".go.func", ".noptrdata", ".data">>
PtrRewriteSects == <<".go.module", ".dynamic", ".got", ".got.plt", ".rela", ".rela.plt",
                     ".go.fipsinfo", ".dynsym">>

HasBits(b, n) == n \in Names(b) /\ ~Sect(b, n).nobits

(* buildMaps: one goroutine a section, each building its own map.          *)
BuildMaps(old, new) ==
  [n \in {n \in Range(DataMapSects) : HasBits(old, n) /\ n \in Names(new)} |->
     BuildSectionMap(old, new, n, DataBlock)]

(* The votes of a section's pointers: those whose place in the new section *)
(* can be trusted and holds a pointer too.                                 *)
PointerVotes(old, new, dmaps, n) ==
  LET od == Sect(old, n).data  nd == Sect(new, n).data
      mapped == n \in DOMAIN dmaps
      qs == SelectSeq([i \in 1..(Len(od) \div PtrSize) |-> (i - 1) * PtrSize],
                      LAMBDA o : InImage(old, U64(od, o))
                                   /\ (mapped => Reliable(dmaps[n], o \div dmaps[n].block + 1)))
      To(o) == IF mapped THEN MapOff(dmaps[n], o) ELSE o
      good == SelectSeq(qs, LAMBDA o : To(o) >= 0 /\ To(o) + PtrSize <= Len(nd)
                                         /\ InImage(new, U64(nd, To(o))))
  IN IF ~HasBits(old, n) \/ ~HasBits(new, n) THEN <<>>
     ELSE [k \in 1..Len(good) |-> [o |-> U64(od, good[k]), n |-> U64(nd, To(good[k]))]]

(* The votes of the descriptors' relative fields.                          *)
TypeVotes(old, new, dmaps) ==
  LET k == SectionOf(old, old.mod.types)
      s == old.order[k]
      dm == dmaps[s.name]
      nd == Sect(new, s.name).data
      Target(f) == (IF f.kind = "x" THEN new.mod.text ELSE new.mod.types) + At(nd, MapOff(dm, f.at))
      good == SelectSeq(RelativeFields(old, s),
                LAMBDA f : /\ Reliable(dm, f.at \div dm.block + 1)
                           /\ MapOff(dm, f.at) >= 0 /\ MapOff(dm, f.at) + 1 <= Len(nd)
                           /\ InImage(new, Target(f)))
  IN IF k = 0 THEN <<>>
     ELSE IF s.name \notin DOMAIN dmaps \/ s.name \notin Names(new) THEN <<>>
     ELSE [i \in 1..Len(good) |-> [o |-> good[i].target, n |-> Target(good[i])]]

CollectVotes(old, new, dmaps) ==
  SortSeq(FlattenSeq([i \in 1..Len(DataMapSects \o PtrRewriteSects) |->
                        PointerVotes(old, new, dmaps, (DataMapSects \o PtrRewriteSects)[i])])
            \o TypeVotes(old, new, dmaps),
          LAMBDA a, b : a.o < b.o \/ (a.o = b.o /\ a.n < b.n))

(* majorities.  A group of equal new targets ends where the new target     *)
(* changes; the old target is compared at the start of a group only.       *)
RECURSIVE Groups(_, _, _)
Groups(votes, i, j) ==
  LET k == Min({x \in (j + 1)..(Len(votes) + 1) : x > Len(votes) \/ votes[x].n # votes[j].n})
  IN IF j > Len(votes) \/ votes[j].o # votes[i].o THEN <<>>
     ELSE <<[from |-> j, to |-> k, n |-> votes[j].n]>> \o Groups(votes, i, k)

RECURSIVE MajoritiesFrom(_, _)
MajoritiesFrom(votes, i) ==
  LET gs == Groups(votes, i, i)
      Count(g) == gs[g].to - gs[g].from
      best == CHOOSE g \in 1..Len(gs) : \A h \in 1..Len(gs) :
                Count(g) > Count(h) \/ (Count(g) = Count(h) /\ g <= h)
      end == gs[Len(gs)].to
  IN IF i > Len(votes) THEN <<>>
     ELSE <<[o |-> votes[i].o, n |-> gs[best].n, count |-> Count(best), total |-> end - i]>>
            \o MajoritiesFrom(votes, end)

Majorities(votes) == MajoritiesFrom(votes, 1)

(* fixBlocks: an unmatched block whose targets agree on another shift gets *)
(* it, and so do the plain unmatched blocks after it.                      *)
BlockVotes(old, new, dmaps, maj, name, i) ==
  LET s == Sect(old, name)
      mine == {k \in 1..Len(maj) :
                 /\ 2 * maj[k].count > maj[k].total
                 /\ SectionOf(old, maj[k].o) # 0 /\ old.order[SectionOf(old, maj[k].o)].name = name
                 /\ (maj[k].o - s.addr) \div dmaps[name].block + 1 = i}
      D(k) == (maj[k].n - Sect(new, name).addr) - (maj[k].o - s.addr)
      Weight(d) == FoldLeft(LAMBDA a, k : IF k \in mine /\ D(k) = d THEN a + maj[k].count ELSE a,
                            0, [k \in 1..Len(maj) |-> k])
  IN [d \in {D(k) : k \in mine} |-> Weight(d)]

FixBlocks(old, new, dmaps, maj) ==
  [name \in DOMAIN dmaps |->
     LET dm == dmaps[name]
         Agreed(i) ==
           LET v == BlockVotes(old, new, dmaps, maj, name, i)
               total == FoldSet(LAMBDA d, a : a + v[d], 0, DOMAIN v)
           IN {d \in DOMAIN v : 2 * v[d] > total /\ d # dm.b[i].d}
         fixed == [i \in 1..Len(dm.b) |-> ~dm.b[i].m /\ Agreed(i) # {}]
         Own(i) == IF fixed[i] THEN CHOOSE d \in Agreed(i) : TRUE ELSE dm.b[i].d
         Fill(st, i) ==
           LET settled == dm.b[i].m \/ fixed[i]
               d == IF settled \/ dm.b[i].a THEN Own(i) ELSE st.cur
           IN [cur |-> IF settled THEN Own(i) ELSE st.cur,
               b |-> Append(st.b, [dm.b[i] EXCEPT !.d = d])]
     IN IF \A i \in 1..Len(dm.b) : ~fixed[i] THEN dm
        ELSE [dm EXCEPT !.b = FoldLeft(Fill, [cur |-> 0, b |-> <<>>], [i \in 1..Len(dm.b) |-> i]).b]]

(* The overrides: what the majority still mispredicts.                     *)
Overrides(mp, maj) ==
  LET bad == SelectSeq(maj, LAMBDA j :
               LET r == MapAddr(mp, j.o, 0)
               IN Mapped(r) /\ j.n # r.a /\ j.count >= OvMinVotes /\ 2 * j.count > j.total)
  IN [k \in 1..Len(bad) |-> [off |-> bad[k].o, d |-> bad[k].n - bad[k].o]]
=============================================================================
