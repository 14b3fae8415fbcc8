------------------------------- MODULE Mapper -------------------------------
(***************************************************************************)
(* Where an address of the old binary went: src/delta/reloc.go and the     *)
(* shift tables of shifttab.go.                                            *)
(*                                                                         *)
(* A mapper is [src, dst, m, dmaps, shifts, ov]: two binaries, a function  *)
(* match, content maps and shift tables by section name, and overrides by  *)
(* address.  A shift table is a sequence of [off, d].                      *)
(***************************************************************************)
EXTENDS FuncMatch, DataMap

CONSTANT Wide   \* the displacement width of rip-relative operands

BssSects == {".bss", ".noptrbss"}

(* shiftTable.Map: the last entry at or before the offset.                 *)
MapShift(st, off) ==
  LET at == {i \in 1..Len(st) : st[i].off <= off}
  IN IF at = {} THEN off ELSE off + st[Max(at)].d

(* mapAddrBase: through the functions, the maps and the shift tables.      *)
(* `self` is the index of the referring function, or 0.                    *)
MapAddrBase(mp, t, self) ==
  LET stext == Sect(mp.src, ".text")
      f == FuncAt(mp.src, t)
      g == mp.m.o2n[f]
      k0 == SectionOf(mp.src, t)
      k == IF k0 = 0 /\ t > 0 THEN SectionOf(mp.src, t - 1) ELSE k0   \* one past the end
      s == mp.src.order[k]
      off == t - s.addr
      noff == IF s.name \in DOMAIN mp.dmaps THEN MapOff(mp.dmaps[s.name], off)
              ELSE IF s.name \in DOMAIN mp.shifts THEN MapShift(mp.shifts[s.name], off)
              ELSE off
  IN IF t >= stext.addr /\ t < stext.addr + stext.size
     THEN IF f = 0 THEN [a |-> Sect(mp.dst, ".text").addr + (t - stext.addr), cls |-> "none"]
          ELSE IF g = 0 THEN [a |-> 0, cls |-> "unmatched"]
          ELSE [a |-> mp.dst.funcs[g].entry + (t - mp.src.funcs[f].entry),
                cls |-> IF f = self THEN "self" ELSE "matched"]
     ELSE IF k = 0 THEN [a |-> 0, cls |-> "outside"]
     ELSE IF s.name \notin Names(mp.dst) THEN [a |-> 0, cls |-> "outside"]
     ELSE [a |-> Sect(mp.dst, s.name).addr + noff, cls |-> "data"]

(* mapAddr: an override wins, the class stays the maps'.                   *)
MapAddr(mp, t, self) ==
  LET r == MapAddrBase(mp, t, self)
  IN IF t \in DOMAIN mp.ov THEN [r EXCEPT !.a = mp.ov[t]] ELSE r

Mapped(r) == r.cls \notin {"unmatched", "outside"}

(* mapper.lookup: what the relocator wants to know.                        *)
LookupTarget(mp, t, self) ==
  LET r == MapAddr(mp, t, self) IN [addr |-> r.a, known |-> Mapped(r)]

(***************************************************************************)
(* Shift tables.  The unchanged functions' references into a section       *)
(* without content tell where its variables went.                          *)
(***************************************************************************)
Samples(old, new, m, name) ==
  UNION {LET f == old.funcs[m.n2o[j]]  g == new.funcs[j]
             oc == FuncBytes(old, f)  nc == FuncBytes(new, g)
             refs == Refs(oc)
             wide == {i \in 1..Len(refs) : refs[i].pcrel = Wide}
             From(i) == TargetOf(oc, f.entry, refs[i])
             In(t) == LET k == SectionOf(old, t)
                          l == IF k = 0 THEN SectionOf(old, t - 1) ELSE k
                      IN l # 0 /\ old.order[l].name = name
             Off(i) == From(i) - Sect(old, name).addr
         IN IF ~Equal(oc, nc) THEN {}
            ELSE {[off |-> Off(i),
                   d |-> TargetOf(nc, g.entry, refs[i]) - Sect(new, name).addr - Off(i)] :
                    i \in {i \in wide : In(From(i))}}
         : j \in {j \in 1..Len(new.funcs) : m.n2o[j] # 0}}

(* The samples in order, and of them those at which the shift changes.     *)
ShiftChanges(samples) ==
  LET Less(a, b) == a.off < b.off \/ (a.off = b.off /\ a.d < b.d)
      s == SetToSortSeq(samples, Less)
      at == SelectSeq([i \in 1..Len(s) |-> i],
                      LAMBDA i : s[i].d # (IF i = 1 THEN 0 ELSE s[i - 1].d))
  IN [k \in 1..Len(at) |-> s[at[k]]]

DeriveShiftTables(old, new, m) ==
  [name \in {n \in BssSects \cap Names(old) \cap Names(new) : Samples(old, new, m, n) # {}} |->
     ShiftChanges(Samples(old, new, m, name))]

(***************************************************************************)
(* Deltas of two running values: shift tables and overrides.               *)
(***************************************************************************)
EncodePairs(s) ==
  FlattenSeq([i \in 1..Len(s) |->
    U(s[i].off - (IF i = 1 THEN 0 ELSE s[i - 1].off)) \o S(s[i].d - (IF i = 1 THEN 0 ELSE s[i - 1].d))])

ReadPair(r) ==
  LET o == ReadU(r)  d == ReadS(o) IN [d EXCEPT !.v = [off |-> o.v, d |-> d.v]]

SumPairs(raw) ==
  LET Sum(i, F(_)) == FoldLeft(LAMBDA a, k : a + F(raw[k]), 0, [k \in 1..i |-> k])
  IN [i \in 1..Len(raw) |-> [off |-> Sum(i, LAMBDA p : p.off), d |-> Sum(i, LAMBDA p : p.d)]]

(* n values one after the other, each by Read; none after a failure.       *)
ReadNext(s, Read(_)) == LET x == Read(s.r) IN [r |-> x, vs |-> Append(s.vs, x.v)]
AllRead(s) == [s.r EXCEPT !.v = s.vs]

ReadSeq(r, n, Read(_)) ==
  LET upTo[i \in 0..n] == IF i = 0 THEN [r |-> r, vs |-> <<>>] ELSE ReadNext(upTo[i - 1], Read)
  IN IF r.ok THEN AllRead(upTo[n]) ELSE [r EXCEPT !.v = <<>>]

(* decodeShiftTable: pairs up to the end of the stream.                    *)
DecodeShiftTable(b) ==
  LET raw == ReadSeq(Rbuf(b), CeilTo(Len(b), 2), ReadPair)
  IN [ok |-> Done(raw), out |-> SumPairs(raw.v)]
=============================================================================
