---------------------------- MODULE PclnPredict ----------------------------
(***************************************************************************)
(* Rebuilding .gopclntab: src/delta/blobs.go and pcln.go.  The linker's    *)
(* own rules, replayed on the old tables in the new function order.        *)
(***************************************************************************)
EXTENDS Layout

CONSTANTS GfBlock, GfTol   \* the content maps of the pclntab's tables

(* forEachName: where the names of a table start.                          *)
NameStarts(tab) ==
  SelectSeq([i \in 1..Len(tab) |-> i - 1],
            LAMBDA o : (o = 0 \/ At(tab, o - 1) = 0) /\ NameAt(tab, o).ok)
Occurrences(tab, name) == SelectSeq(NameStarts(tab), LAMBDA o : NameAt(tab, o).out = name)

NameIsAt(tab, c, name) == c + Len(name) < Len(tab) /\ Cut(tab, c, c + Len(name) + 1) = name \o <<0>>

(* nameOffMap.Map: through the content map of the two tables when the name *)
(* is there, otherwise occurrence k for occurrence k.                      *)
MapNameOff(oldTab, newTab, fnmap, off) ==
  LET n == NameAt(oldTab, off)
      c == MapOff(fnmap, off)
      occs == Occurrences(newTab, n.out)
      starts == Range(NameStarts(oldTab))
      nth == IF off \notin starts THEN 0
             ELSE Cardinality({o \in starts : o < off /\ NameAt(oldTab, o) = n})
  IN IF ~n.ok THEN off
     ELSE IF NameIsAt(newTab, c, n.out) THEN c
     ELSE IF occs = <<>> THEN off
     ELSE occs[Min({nth + 1, Len(occs)})]

(* predictCutab: each entry's file name, looked up in the new filetab.     *)
PredictCutab(cutab, oldFiles, newFiles) ==
  [i \in 1..Len(cutab) |->
     LET n == NameAt(oldFiles, cutab[i])
         occs == Occurrences(newFiles, n.out)
     IN IF cutab[i] = Nil THEN Nil ELSE IF n.ok /\ occs # <<>> THEN occs[1] ELSE cutab[i]]

(* The pc-value tables of a record in the order the linker emits them: the *)
(* three of the header, the pcdata, and the inline-tree index (2) last.    *)
PcRefs(rec) ==
  LET npc == At(rec, 5)
      pcdata == SelectSeq([k \in 1..npc |-> k - 1], LAMBDA k : k # 2)
               \o (IF npc > 2 THEN <<2>> ELSE <<>>)
  IN <<At(rec, 2), At(rec, 3), At(rec, 4)>> \o [k \in 1..npc |-> At(rec, FuncSize + pcdata[k])]

(* predictPctab: each table once, where it is first used; equal tables are *)
(* one.  `off` maps old offsets to predicted ones.                         *)
PredictPctab(old, m) ==
  LET tab == Table(old.pcln, Pctab)
      js == SelectSeq(m.n2o, LAMBDA i : i # 0)
      refs == FlattenSeq([k \in 1..Len(js) |-> PcRefs(Record(old.pcln, old.funcs[js[k]].funcOff))])
      Emit(st, o) ==
        LET content == PcTable(tab, o)
            same == {p \in DOMAIN st.off : PcTable(tab, p) = content}
        IN IF o = 0 \/ o >= Len(tab) \/ o \in DOMAIN st.off THEN st
           ELSE IF same # {}
                THEN [st EXCEPT !.off = @ @@ (o :> st.off[CHOOSE p \in same : TRUE])]
           ELSE [tab |-> st.tab \o content, off |-> st.off @@ (o :> Len(st.tab))]
  IN FoldLeft(Emit, [tab |-> <<0>>, off |-> <<>>], refs)

(***************************************************************************)
(* go:func.*.  A funcdata symbol is [off, kind, first, size, class]: kind  *)
(* the index it is first used as, class its alignment in bytes.            *)
(***************************************************************************)
FdRefs(b, i) ==
  LET rec == Record(b.pcln, b.funcs[i].funcOff)
  IN SelectSeq([k \in 1..At(rec, 7) |-> [off |-> At(rec, FuncSize + At(rec, 5) + k - 1), kind |-> k - 1, first |-> i]],
               LAMBDA r : r.off # Nil /\ r.off < TabLen(b.pcln, Gofunc))

(* Stack objects are 8, pointer maps, inline trees and wrapinfo 4, varint  *)
(* streams 1; the argument maps of assembly functions are 8, and are known *)
(* by lying before the first break in first-use order.                     *)
Class(kind, size, firstRegion) ==
  IF kind = 2 \/ (kind = 0 /\ firstRegion /\ size % PtrSize = 0) THEN 8
  ELSE IF kind \in {0, 1, 3, 7} THEN 4 ELSE 1

(* classify.                                                               *)
FdSyms(old) ==
  LET refs == FlattenSeq([i \in 1..Len(old.funcs) |-> FdRefs(old, i)])
      FirstRef(o) == refs[Min({k \in 1..Len(refs) : refs[k].off = o})]
      offs == SelectSeq([o \in 1..TabLen(old.pcln, Gofunc) |-> o - 1],
                        LAMBDA o : \E k \in 1..Len(refs) : refs[k].off = o)
      breaks == {k \in 2..Len(offs) : FirstRef(offs[k]).first < FirstRef(offs[k - 1]).first}
      firstBreak == IF breaks = {} THEN Len(offs) + 1 ELSE Min(breaks)
      SizeOf(k) == (IF k = Len(offs) THEN TabLen(old.pcln, Gofunc) ELSE offs[k + 1]) - offs[k]
  IN [k \in 1..Len(offs) |->
        FirstRef(offs[k]) @@ [size |-> SizeOf(k),
                              class |-> Class(FirstRef(offs[k]).kind, SizeOf(k), k < firstBreak)]]

(* What a symbol's own references become.                                  *)
RetargetFd(old, new, mp, fnmap, s, d) ==
  LET Name(v) == MapNameOff(Table(old.pcln, Funcnametab), Table(new.pcln, Funcnametab), fnmap, v)
      Gc(v) == LET r == MapAddr(mp, old.mod.rodata + v, 0)
               IN IF r.cls = "data" THEN r.a - new.mod.rodata ELSE v
      Wrapped(v) == LET r == MapAddr(mp, old.mod.text + v, 0)
                    IN IF Mapped(r) THEN r.a - new.mod.text ELSE v
      InRecord(k) == k > PtrSize /\ (k - PtrSize) % 4 = 0 /\ (k - PtrSize) \div 4 <= U64(d, 0)
  IN CASE s.kind = 3 -> [k \in 1..Len(d) |-> IF k % 4 = 2 /\ k + 2 <= Len(d) THEN Name(d[k]) ELSE d[k]]
       [] s.kind = 2 -> [k \in 1..Len(d) |-> IF Len(d) >= PtrSize /\ InRecord(k) THEN Gc(d[k]) ELSE d[k]]
       [] s.kind = 7 -> [k \in 1..Len(d) |-> IF k = 1 THEN Wrapped(d[k]) ELSE d[k]]
       [] OTHER -> d

(* predictGofunc: by falling class, in the order of first use in the new   *)
(* release, each symbol aligned to its class.                              *)
PredictGofunc(old, new, m, mp) ==
  LET syms == FdSyms(old)
      js == SelectSeq(m.n2o, LAMBDA i : i # 0)
      uses == FlattenSeq([k \in 1..Len(js) |-> FdRefs(old, js[k])])
      used == SelectSeq([k \in 1..Len(uses) |-> k],
                        LAMBDA k : \A l \in 1..(k - 1) : uses[l].off # uses[k].off)
      Sym(o) == syms[CHOOSE k \in 1..Len(syms) : syms[k].off = o]
      OfClass(c) == SelectSeq([k \in 1..Len(used) |-> Sym(uses[used[k]].off)], LAMBDA s : s.class = c)
      fnmap == BuildDataMap(Job(Table(old.pcln, Funcnametab), Table(new.pcln, Funcnametab), GfBlock, 0))
      Place(st, s) ==
        LET gf == IF s.class = 8 /\ Len(st.tab) % PtrSize # 0 THEN Append(st.tab, 0) ELSE st.tab
            d == Cut(Table(old.pcln, Gofunc), s.off, s.off + s.size)
        IN [tab |-> gf \o RetargetFd(old, new, mp, fnmap, s, d), off |-> st.off @@ (s.off :> Len(gf))]
  IN FoldLeft(Place, [tab |-> <<>>, off |-> <<>>], OfClass(8) \o OfClass(4) \o OfClass(1))

PadTo(b, n) == IF Len(b) >= n THEN b ELSE b \o Zeros(n - Len(b))

(* predictBlobs.                                                           *)
PredictBlobs(old, new, m, mp) ==
  LET pc == PredictPctab(old, m)
      gf == PredictGofunc(old, new, m, mp)
  IN [cutab |-> PadTo(PredictCutab(Table(old.pcln, Cutab), Table(old.pcln, Filetab), Table(new.pcln, Filetab)),
                      TabLen(new.pcln, Cutab)),
      pctab |-> PadTo(pc.tab, TabLen(new.pcln, Pctab)), pcOff |-> pc.off,
      gofunc |-> PadTo(gf.tab, TabLen(new.pcln, Gofunc)), gfOff |-> gf.off]

(***************************************************************************)
(* The functab.                                                            *)
(***************************************************************************)
(* resolveNameOffs: a paired function keeps the entry its old one maps to, *)
(* unless that is taken; the others of a name share what is left, in the   *)
(* order of the old entries.                                               *)
ResolveNameOffs(old, new, m) ==
  LET fnt == Table(new.pcln, Funcnametab)
      fnmap == BuildDataMap(Job(Table(old.pcln, Funcnametab), fnt, GfBlock, 0))
      n == Len(new.funcs)
      Name(j) == new.funcs[j].name
      Old(j) == old.funcs[m.n2o[j]].nameOff
      Take1(st, j) ==
        LET c == MapOff(fnmap, Old(j)) IN
        IF m.n2o[j] # 0 /\ NameIsAt(fnt, c, Name(j)) /\ (\A k \in DOMAIN st : st[k] # c)
        THEN st @@ (j :> c) ELSE st
      direct == FoldLeft(Take1, <<>>, [j \in 1..n |-> j])
      Less(a, b) == IF m.n2o[a] = 0 \/ m.n2o[b] = 0 THEN m.n2o[a] # 0 /\ m.n2o[b] = 0 ELSE Old(a) < Old(b)
      Group(name) == SelectSeq([j \in 1..n |-> j], LAMBDA j : j \notin DOMAIN direct /\ Name(j) = name)
      Rank(j) == 1 + Cardinality({k \in Range(Group(Name(j))) :
                                    Less(k, j) \/ (~Less(j, k) /\ k < j)})
      Left(name) ==
        LET occs == Occurrences(fnt, name)
            free == SelectSeq(occs, LAMBDA o : \A k \in DOMAIN direct : direct[k] # o)
        IN IF free = <<>> THEN occs ELSE free
  IN [j \in 1..n |->
        IF j \in DOMAIN direct THEN direct[j]
        ELSE IF Left(Name(j)) = <<>> THEN 0
        ELSE Left(Name(j))[Min({Rank(j), Len(Left(Name(j)))})]]

(* reshape: the arrays cut or filled to the new counts.                    *)
Reshape(rec, sh) ==
  LET npc == At(rec, 5)  nfd == At(rec, 7)
      head == [Cut(rec, 0, FuncSize) EXCEPT ![6] = sh[1], ![8] = sh[2]]
  IN head \o [k \in 1..sh[1] |-> IF k <= npc THEN At(rec, FuncSize + k - 1) ELSE 0]
          \o [k \in 1..sh[2] |-> IF k <= nfd THEN At(rec, FuncSize + npc + k - 1) ELSE Nil]

(* The record of a paired function, its offsets taken through the          *)
(* prediction and from there to the final tables.                          *)
RetargetRecord(rec, bp, maps) ==
  LET npc == At(rec, 5)
      Pc(x) == IF x # 0 /\ x \in DOMAIN bp.pcOff THEN MapOff(maps.pc, bp.pcOff[x]) ELSE x
      Gf(x) == IF x # Nil /\ x \in DOMAIN bp.gfOff THEN MapOff(maps.gf, bp.gfOff[x]) ELSE x
      Cu(x) == IF x # Nil THEN MapOff(maps.cu, x) ELSE x
  IN [k \in 1..Len(rec) |->
        CASE k \in {3, 4, 5} \/ (k > FuncSize /\ k <= FuncSize + npc) -> Pc(rec[k])
          [] k > FuncSize + npc -> Gf(rec[k])
          [] k = 7 -> Cu(rec[k])
          [] OTHER -> rec[k]]

(* A function without counterpart: no tables, the unit of the one before.  *)
BlankRecord(sh, cu) ==
  <<0, 0, 0, 0, 0, sh[1], cu, sh[2]>> \o Zeros(sh[1]) \o [k \in 1..sh[2] |-> Nil]

PredictRecords(old, new, m, l, bp) ==
  LET maps == [cu |-> BuildDataMap(Job(bp.cutab, Table(new.pcln, Cutab), GfBlock, 0)),
               pc |-> BuildDataMap(Job(bp.pctab, Table(new.pcln, Pctab), GfBlock, GfTol)),
               gf |-> BuildDataMap(Job(bp.gofunc, Table(new.pcln, Gofunc), GfBlock, GfTol))]
      nameOff == ResolveNameOffs(old, new, m)
      Given(j) == {k \in 1..Len(l.recShapes) : l.recShapes[k].idx = j}
      ShapeOf(j, def) == IF Given(j) = {} THEN def ELSE l.recShapes[Max(Given(j))].sh
      One(st, j) ==
        LET orec == Record(old.pcln, old.funcs[m.n2o[j]].funcOff)
            rec0 == RetargetRecord(orec, bp, maps)
            sh == ShapeOf(j, <<At(orec, 5), At(orec, 7)>>)
            paired == IF sh = <<At(orec, 5), At(orec, 7)>> THEN rec0 ELSE Reshape(rec0, sh)
            rec == IF m.n2o[j] # 0 THEN paired ELSE BlankRecord(ShapeOf(j, ModalShape(old)), st.cu)
        IN [cu |-> IF m.n2o[j] # 0 THEN At(rec, 6) ELSE st.cu,
            recs |-> Append(st.recs, <<new.funcs[j].entry - new.mod.text, nameOff[j]>> \o Cut(rec, 2, Len(rec)))]
  IN FoldLeft(One, [cu |-> 0, recs |-> <<>>], [j \in 1..Len(new.funcs) |-> j]).recs

(* The functab: entries, the end of the last function, then the records,   *)
(* each aligned.                                                           *)
PredictFunctab(new, recs) ==
  LET n == Len(recs)
      Aligned(o) == CeilTo(o, PtrSize) * PtrSize
      RecOff == FoldLeft(LAMBDA os, j :
                  Append(os, Aligned(IF j = 1 THEN 2 * n + 1 ELSE os[j - 1] + Len(recs[j - 1]))),
                  <<>>, [j \in 1..n |-> j])
      head == FlattenSeq([j \in 1..n |-> <<new.funcs[j].entry - new.mod.text, RecOff[j]>>])
              \o <<new.funcs[n].end - new.mod.text>>
  IN FoldLeft(LAMBDA t, j : PadTo(t, RecOff[j]) \o recs[j], head, [j \in 1..n |-> j])

(* predictPcln: every table at the offset the layout gives it.             *)
PredictPcln(old, new, m, l, bp) ==
  LET functab == PredictFunctab(new, PredictRecords(old, new, m, l, bp))
      Content(k) == CASE k = Functab -> functab
                      [] k = Findfunctab -> GenFindfunctab(new.funcs)
                      [] OTHER -> Table(new.pcln, k)
      PlaceTab(out, k) ==
        LET at == l.tabOff[k]  room == Max({0, Len(out) - at})
        IN Splice(out, at, Cut(Content(k), 0, Min({room, Len(Content(k))})))
      header == Cut(old.pcln.data, 0, old.pcln.taboff[1])
      base == PadTo(Cut(header, 0, Min({l.pclnLen, Len(header)})), l.pclnLen)
  IN Splice(FoldLeft(PlaceTab, base, [k \in 1..7 |-> k]), 1,
            <<Len(new.funcs), l.nfiles>> \o Cut(l.tabOff, 0, 5))
=============================================================================
