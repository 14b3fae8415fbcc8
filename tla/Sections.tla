------------------------------ MODULE Sections ------------------------------
(***************************************************************************)
(* The prediction before the text workers: predictDataSection,             *)
(* predictHoles and predictWhole of src/delta/predict.go.                  *)
(***************************************************************************)
EXTENDS Votes

CopyInto(n, d) == PadTo(Cut(d, 0, Min({n, Len(d)})), n)     \* copy(dst, d), dst zeroed
(* Pieces copied over a buffer one after the other: the last one counts.   *)
Overlay(b, pieces) ==
  [k \in 1..Len(b) |->
     LET on == {i \in 1..Len(pieces) : pieces[i].at < k /\ k <= pieces[i].at + Len(pieces[i].data)}
     IN IF on = {} THEN b[k] ELSE LET piece == pieces[Max(on)] IN piece.data[k - piece.at]]
NoMap == [block |-> DataBlock, b |-> <<>>]

(* predictDataSection: the old blocks at their shifts, then every pointer  *)
(* into the image through the mapper.                                      *)
PredictDataSection(old, s, dm, mp, n) ==
  LET d == s.data
      Block(k) == Cut(d, (k - 1) * dm.block, Min({k * dm.block, Len(d)}))
      Inside(w) == w.at >= 0 /\ w.at + Len(w.data) <= n
      Moved(k) == [at |-> MapOff(dm, (k - 1) * dm.block), data |-> Block(k)]
      Value(q) == U64(d, (q - 1) * PtrSize)
      Target(q) == MapAddr(mp, Value(q), 0)
      ptrs == SelectSeq([q \in 1..(Len(d) \div PtrSize) |-> q],
                        LAMBDA q : InImage(old, Value(q)) /\ Mapped(Target(q)))
      Pointer(q) == [at |-> MapOff(dm, (q - 1) * PtrSize), data |-> Ptr(Target(q).a)]
      pieces == [k \in 1..CeilTo(Len(d), dm.block) |-> Moved(k)] \o [i \in 1..Len(ptrs) |-> Pointer(ptrs[i])]
  IN Overlay(Zeros(n), SelectSeq(pieces, Inside))

(* predictHoles: the gaps between sections cleared, the tail aligned with  *)
(* the old file's at the end of the file.                                  *)
Spans(b, len) ==
  SortSeq(SelectSeq(b.order, LAMBDA s : ~s.nobits /\ s.size # 0 /\ s.off + s.size <= len),
          LAMBDA s, t : s.off < t.off)

PredictHoles(pred, old, new) ==
  LET sp == Spans(new, Len(pred))
      Gap(k) == \E i \in 2..Len(sp) : k > sp[i - 1].off + sp[i - 1].size /\ k <= sp[i].off
      oldEnd == Max({0} \cup {s.off + s.size : s \in {s \in Range(old.order) : ~s.nobits /\ s.size # 0}})
      end == sp[Len(sp)].off + sp[Len(sp)].size
      room == Len(pred) - end
      src == Cut(old.file, Max({oldEnd, Len(old.file) - room}), Len(old.file))
  IN IF sp = <<>> THEN pred
     ELSE [k \in 1..end |-> IF Gap(k) THEN 0 ELSE pred[k]] \o Zeros(room - Len(src)) \o src

(* predictText before its workers: INT3, the linker's prologue, and what   *)
(* follows the last function.                                              *)
TextBase(old, new) ==
  LET o == Sect(old, ".text")  n == Sect(new, ".text")
      pro == Cut(o.data, 0, old.funcs[1].entry - o.addr)
      at == new.funcs[Len(new.funcs)].end - n.addr
      epi == Cut(o.data, old.funcs[Len(old.funcs)].end - o.addr, Len(o.data))
      Fit(i, d) == Cut(d, 0, Min({Len(d), n.size - i}))
  IN Splice(Splice([k \in 1..n.size |-> INT3], 0, Fit(0, pro)), at, Fit(at, epi))

(* One section of predictWhole.  The goroutines of the sections write      *)
(* disjoint parts of the file and share nothing else they write.           *)
PredictSection(old, new, l, m, mp, bp, ns) ==
  LET os == Sect(old, ns.name)
      types == SectionOf(old, old.mod.types)
      dm == mp.dmaps[ns.name]
      moved == PredictDataSection(old, os, dm, mp, ns.size)
  IN CASE ns.name = ".text" -> TextBase(old, new)
       [] ns.name = ".gopclntab" -> CopyInto(ns.size, PredictPcln(old, new, m, l, bp))
       [] ns.name \notin Names(old) -> Zeros(ns.size)
       [] ns.name = ".plt" ->
            Relocate(os.data, ns.size, os.addr, ns.addr, LAMBDA t : LookupTarget(mp, t, 0))
       [] ns.name \in DOMAIN mp.dmaps ->
            IF types # 0 /\ old.order[types].name = ns.name
            THEN RewriteTypeOffsets(old, new, os, dm, mp, moved) ELSE moved
       [] ns.name \in Range(PtrRewriteSects) /\ ns.name \notin DOMAIN mp.dmaps ->
            PredictDataSection(old, os, NoMap, mp, ns.size)
       [] OTHER -> CopyInto(ns.size, os.data)

PredictSections(old, new, l, m, mp, bp) ==
  LET base == PredictHoles(CopyInto(l.newLen, old.file), old, new)
      mine == SelectSeq(new.order, LAMBDA s : ~s.nobits /\ s.off + s.size <= l.newLen)
      pieces == [i \in 1..Len(mine) |->
                  [at |-> mine[i].off, data |-> PredictSection(old, new, l, m, mp, bp, mine[i])]]
  IN Overlay(base, SelectSeq(pieces, LAMBDA w : w.data # <<>>))
=============================================================================
