------------------------------- MODULE Layout -------------------------------
(***************************************************************************)
(* The layout stream and the skeleton built from it: src/delta/layout.go.  *)
(*                                                                         *)
(* Everything in the stream is a difference from the old binary.  The      *)
(* skeleton is a binary without contents; both sides build it from the     *)
(* stream and run the predictors on it.                                    *)
(***************************************************************************)
EXTENDS Mapper

CONSTANTS
  SectNames,   \* the section names, in alphabetical order
  MaxFuncs,     \* maxFuncs
  MaxPatchSize, \* maxPatchSize: the largest file a layout may describe
  MaxFuncName   \* the longest function name that can be sent

MaxSectName == 256
MaxU16 == 65536   \* the largest block size, and the most pcdata of a function

ASSUME LayoutAssumption == {MaxFuncs, MaxPatchSize, MaxFuncName} \subseteq Nat

LayoutMagic == 77
ModFields == <<"text", "types", "etypes", "typedesclen", "itaboffset", "itabsize",
               "rodata", "gofunc", "findfunctab", "epclntab", "minpc", "maxpc">>

Str(name) == Bytes(<<CHOOSE i \in 1..Len(SectNames) : SectNames[i] = name>>)
StrOf(b) == IF Len(b) = 1 /\ b[1] \in 1..Len(SectNames) THEN SectNames[b[1]] ELSE ""
Sorted(names) == SelectSeq(SectNames, LAMBDA n : n \in names)

(***************************************************************************)
(* Lists sent against the old list: op 0 is the element after the last one *)
(* used, op 1 an explicit one, op 2 a name that is new.  `ks` is the old   *)
(* index of each element, 0 for a new one.                                 *)
(***************************************************************************)
Expect(ks, i) ==
  LET before == {j \in 1..(i - 1) : ks[j] # 0} IN IF before = {} THEN 1 ELSE ks[Max(before)] + 1

EncodeList(ks, NewName(_), Rest(_)) ==
  FlattenSeq([i \in 1..Len(ks) |->
    (IF ks[i] = 0 THEN <<2>> \o Bytes(NewName(i))
     ELSE IF ks[i] = Expect(ks, i) THEN <<0>> ELSE <<1, ks[i] - 1>>) \o Rest(i)])

(* A name, no longer than the reader takes.                                *)
ReadName(r, max) == LET n == ReadN(r, max) IN Take(n, n.v)

(* An index beyond the old list is refused where the list is read.         *)
ReadOp(r, maxName) ==
  LET op == ReadU(r)
      arg == IF op.v = 1 THEN ReadU(op) ELSE IF op.v = 2 THEN ReadName(op, maxName) ELSE op
  IN [arg EXCEPT !.ok = @ /\ op.v \in 0..2,
                 !.v = [op |-> op.v, k |-> IF op.v = 1 THEN arg.v ELSE 0,
                        name |-> IF op.v = 2 THEN arg.v ELSE <<>>]]

\* Mutant: the element after an explicit one is not expected next.
IndexesKeepExpect(ops) ==
  LET upTo[i \in 0..Len(ops)] ==
        IF i = 0 THEN <<>>
        ELSE LET ks == upTo[i - 1]  o == ops[i]
             IN Append(ks, CASE o.op = 0 -> Cardinality({j \in 1..(i - 1) : ks[j] # 0}) + 1
                             [] o.op = 1 -> o.k + 1
                             [] OTHER -> 0)
  IN upTo[Len(ops)]

(* The old index of each decoded element.                                  *)
Indexes(ops) ==
  LET upTo[i \in 0..Len(ops)] ==
        IF i = 0 THEN <<>>
        ELSE LET ks == upTo[i - 1]  o == ops[i]
             IN Append(ks, CASE o.op = 0 -> Expect(ks, i) [] o.op = 1 -> o.k + 1 [] OTHER -> 0)
  IN upTo[Len(ops)]

(***************************************************************************)
(* The section table.                                                      *)
(***************************************************************************)
EncodeSects(old, sects) ==
  LET ks == [i \in 1..Len(sects) |->
               LET same == {k \in 1..Len(old.order) : old.order[k].name = sects[i].name}
               IN IF same = {} THEN 0 ELSE Min(same)]
      Base(i, f) == IF ks[i] = 0 THEN 0 ELSE old.order[ks[i]][f]
      Fields(i) == S(sects[i].addr - Base(i, "addr")) \o S(sects[i].off - Base(i, "off"))
                     \o S(sects[i].size - Base(i, "size")) \o U(IF sects[i].nobits THEN 1 ELSE 0)
  IN U(Len(sects)) \o EncodeList(ks, LAMBDA i : Tail(Str(sects[i].name)), Fields)

DecodeSects(r, old) ==
  LET n == ReadN(r, 4096)
      One(q) == LET op == ReadOp(q, MaxSectName)  f == ReadSeq(op, 3, ReadS)  nb == ReadU(f)
                IN [nb EXCEPT !.v = [op |-> op.v, f |-> f.v, nb |-> nb.v]]
      raw == ReadSeq(n, n.v, One)
      ks == Indexes([i \in 1..n.v |-> raw.v[i].op])
      Base(i, f) == IF ks[i] = 0 THEN 0 ELSE old.order[ks[i]][f]
      ok == raw.ok /\ \A i \in 1..n.v : ks[i] <= Len(old.order)
  IN [raw EXCEPT !.ok = ok,
        !.v = IF ~ok THEN <<>>
              ELSE [i \in 1..n.v |->
                     [name |-> IF ks[i] = 0 THEN StrOf(raw.v[i].op.name) ELSE old.order[ks[i]].name,
                      addr |-> Base(i, "addr") + raw.v[i].f[1], off |-> Base(i, "off") + raw.v[i].f[2],
                      size |-> Base(i, "size") + raw.v[i].f[3], nobits |-> raw.v[i].nb = 1]]]

(***************************************************************************)
(* The functions: order, names of new ones, and sizes.                     *)
(***************************************************************************)
EncodeFuncLayout(old, new, m) ==
  EncodeList(m.n2o, LAMBDA j : new.funcs[j].name,
             LAMBDA j : S(Size(new.funcs[j]) - (IF m.n2o[j] = 0 THEN 0 ELSE Size(old.funcs[m.n2o[j]]))))

ReadFunc(q) == LET op == ReadOp(q, MaxFuncName)  d == ReadS(op) IN [d EXCEPT !.v = [op |-> op.v, d |-> d.v]]

(* A function's size is sent as a difference from its old one's.           *)
FuncSizes(old, v, n2o) ==
  [j \in 1..Len(v) |-> v[j].d + (IF n2o[j] = 0 THEN 0 ELSE Size(old.funcs[n2o[j]]))]

(* Functions follow each other from the first entry.                       *)
Entries(first, size) ==
  LET entry[j \in 0..Len(size)] == IF j = 0 THEN first ELSE entry[j - 1] + size[j] IN entry

(* A paired function carries the old name.                                 *)
FuncTable(old, v, n2o, entry) ==
  [j \in 1..Len(v) |->
     [name |-> IF n2o[j] = 0 THEN v[j].op.name ELSE old.funcs[n2o[j]].name,
      entry |-> entry[j - 1], end |-> entry[j]]]

DecodeFuncLayout(old, l) ==
  LET raw == ReadSeq(Rbuf(l.funcs), l.nfunc, ReadFunc)
      n2o == Indexes([j \in 1..Len(raw.v) |-> raw.v[j].op])
      size == FuncSizes(old, raw.v, n2o)
      ok == Done(raw) /\ \A j \in 1..Len(raw.v) : n2o[j] <= Len(old.funcs) /\ size[j] >= 0
      back(i) == {j \in 1..Len(raw.v) : n2o[j] = i}
  IN IF ~ok THEN [ok |-> FALSE]
     ELSE [ok |-> TRUE,
           funcs |-> FuncTable(old, raw.v, n2o, Entries(l.firstEntry, size)),
           m |-> [n2o |-> n2o,
                  o2n |-> [i \in 1..Len(old.funcs) |-> IF back(i) = {} THEN 0 ELSE Max(back(i))]]]

(***************************************************************************)
(* Data maps as runs of equal shifts.                                      *)
(***************************************************************************)
EncodeRLE(dm) ==
  LET starts == SelectSeq([i \in 1..Len(dm.b) |-> i], LAMBDA i : i = 1 \/ dm.b[i].d # dm.b[i - 1].d)
      RunLen(k) == (IF k = Len(starts) THEN Len(dm.b) + 1 ELSE starts[k + 1]) - starts[k]
      Shift(k) == IF k = 0 THEN 0 ELSE dm.b[starts[k]].d
  IN U(dm.block) \o U(dm.oldLen) \o U(Len(starts))
       \o FlattenSeq([k \in 1..Len(starts) |-> U(RunLen(k)) \o S(Shift(k) - Shift(k - 1))])

DecodeRLE(b) ==
  LET block == ReadN(Rbuf(b), MaxU16)  oldLen == ReadN(block, MaxPatchSize)  n == ReadN(oldLen, Len(b) + 1)
      raw == ReadSeq(n, n.v, ReadPair)     \* run length and shift difference
      nb == CeilTo(oldLen.v, block.v)
      sums == SumPairs(raw.v)
      run(i) == Min({k \in 1..n.v : sums[k].off >= i})
      total == IF n.v = 0 THEN 0 ELSE sums[n.v].off
      ok == block.v # 0 /\ Done(raw) /\ total <= nb
  IN [ok |-> ok,
      out |-> IF ~ok THEN <<>>
              ELSE [block |-> block.v, oldLen |-> oldLen.v,
                    b |-> [i \in 1..total |-> [d |-> sums[run(i)].d, m |-> FALSE, a |-> FALSE]]]]

(***************************************************************************)
(* The whole layout.                                                       *)
(***************************************************************************)
(* The record shapes the decoder would get wrong.                          *)
RecShapes(old, new, m) ==
  LET DefaultShape(j) == IF m.n2o[j] = 0 THEN ModalShape(old)
                         ELSE Shape(old.pcln, old.funcs[m.n2o[j]].funcOff)
      Real(j) == Shape(new.pcln, new.funcs[j].funcOff)
      js == SelectSeq([j \in 1..Len(new.funcs) |-> j], LAMBDA j : Real(j) # DefaultShape(j))
  IN [k \in 1..Len(js) |-> [idx |-> js[k], sh |-> Real(js[k])]]

BuildLayout(old, new, m, dmaps, shifts, ov) ==
  [newLen |-> Len(new.file),
   sects |-> [i \in 1..Len(new.order) |-> [f \in {"name", "addr", "off", "size", "nobits"} |-> new.order[i][f]]],
   mod |-> [i \in 1..Len(ModFields) |-> new.mod[ModFields[i]]],
   firstEntry |-> new.funcs[1].entry, nfunc |-> Len(new.funcs),
   funcs |-> EncodeFuncLayout(old, new, m),
   nfiles |-> new.pcln.nfiles, pclnLen |-> new.pcln.len, tabOff |-> new.pcln.taboff,
   recShapes |-> RecShapes(old, new, m), shifts |-> shifts, dmaps |-> dmaps, ov |-> ov]

EncodeLayout(l, old) ==
  LET shifts == Sorted({n \in DOMAIN l.shifts : l.shifts[n] # <<>>})
      dmaps == Sorted(DOMAIN l.dmaps)
      PrevIdx(k) == IF k = 1 THEN 0 ELSE l.recShapes[k - 1].idx - 1
      Each(s, F(_)) == FlattenSeq([i \in 1..Len(s) |-> F(i)])
  IN <<LayoutMagic>> \o S(l.newLen - Len(old.file)) \o EncodeSects(old, l.sects)
       \o Each(ModFields, LAMBDA i : S(l.mod[i] - old.mod[ModFields[i]]))
       \o S(l.firstEntry - old.funcs[1].entry) \o U(l.nfunc) \o Bytes(l.funcs)
       \o S(l.nfiles - old.pcln.nfiles) \o S(l.pclnLen - old.pcln.len)
       \o Each(l.tabOff, LAMBDA i : S(l.tabOff[i] - old.pcln.taboff[i]))
       \o U(Len(l.recShapes))
       \o Each(l.recShapes, LAMBDA k : <<l.recShapes[k].idx - 1 - PrevIdx(k)>> \o l.recShapes[k].sh)
       \o U(Len(shifts)) \o Each(shifts, LAMBDA i : Str(shifts[i]) \o Bytes(EncodePairs(l.shifts[shifts[i]])))
       \o U(Len(dmaps)) \o Each(dmaps, LAMBDA i : Str(dmaps[i]) \o Bytes(EncodeRLE(l.dmaps[dmaps[i]])))
       \o U(Len(l.ov)) \o EncodePairs(l.ov)

(* A name and a stream of its own.                                         *)
ReadNamed(r, Dec(_)) ==
  LET n == ReadName(r, MaxSectName)  b == ReadBytes(n)  d == Dec(b.v)
  IN [b EXCEPT !.ok = @ /\ d.ok, !.v = [name |-> StrOf(n.v), out |-> d.out]]
ByName(s) ==
  [n \in {s[i].name : i \in 1..Len(s)} |-> s[Max({i \in 1..Len(s) : s[i].name = n})].out]

(* An element of recShapes: its index as a difference, npcdata, nfuncdata. *)
ReadShape(r) ==
  LET idx == ReadN(r, MaxFuncs)  npc == ReadN(idx, MaxU16)  nfd == ReadN(npc, 256)
  IN [nfd EXCEPT !.v = <<idx.v, npc.v, nfd.v>>]

DecodeLayout(b, old) ==
  LET magic == ReadU(Rbuf(b))
      newLen == ReadS(magic)
      sects == DecodeSects(newLen, old)
      mod == ReadSeq(sects, Len(ModFields), ReadS)
      first == ReadS(mod)
      nfunc == ReadN(first, MaxFuncs)
      funcs == ReadBytes(nfunc)
      nfiles == ReadS(funcs)
      pclnLen == ReadS(nfiles)
      tabs == ReadSeq(pclnLen, 7, ReadS)
      nsh == ReadN(tabs, MaxFuncs)
      shapes == ReadSeq(nsh, nsh.v, ReadShape)
      Idx(k) == 1 + FoldLeft(LAMBDA a, i : a + shapes.v[i][1], 0, [i \in 1..k |-> i])
      nst == ReadN(shapes, 64)
      shifts == ReadSeq(nst, nst.v, LAMBDA q : ReadNamed(q, DecodeShiftTable))
      ndm == ReadN(shifts, 64)
      dmaps == ReadSeq(ndm, ndm.v, LAMBDA q : ReadNamed(q, DecodeRLE))
      nov == ReadN(dmaps, Len(dmaps.b) + 1)
      ov == ReadSeq(nov, nov.v, ReadPair)
      len == Len(old.file) + newLen.v
  IN IF magic.v # LayoutMagic \/ ~Done(ov) \/ len \notin 0..MaxPatchSize THEN [ok |-> FALSE]
     ELSE [ok |-> TRUE, newLen |-> len, sects |-> sects.v,
           mod |-> [i \in 1..Len(ModFields) |-> old.mod[ModFields[i]] + mod.v[i]],
           firstEntry |-> old.funcs[1].entry + first.v, nfunc |-> nfunc.v, funcs |-> funcs.v,
           nfiles |-> old.pcln.nfiles + nfiles.v, pclnLen |-> old.pcln.len + pclnLen.v,
           tabOff |-> [i \in 1..7 |-> old.pcln.taboff[i] + tabs.v[i]],
           recShapes |-> [k \in 1..nsh.v |-> [idx |-> Idx(k), sh |-> Tail(shapes.v[k])]],
           shifts |-> ByName(shifts.v), dmaps |-> ByName(dmaps.v), ov |-> SumPairs(ov.v)]

(* overrideMap.                                                            *)
OverrideMap(ov) ==
  [a \in {ov[i].off : i \in 1..Len(ov)} |->
     a + ov[Max({i \in 1..Len(ov) : ov[i].off = a})].d]

(***************************************************************************)
(* skeleton: the decoder's view of the new binary, refused when a section  *)
(* or a table lies outside its file, or the functions outside .text.       *)
(***************************************************************************)
SectsFit(l) ==
  /\ \A i \in 1..Len(l.sects) : l.sects[i].nobits \/ l.sects[i].off + l.sects[i].size <= l.newLen
  /\ {".text", ".gopclntab"} \subseteq {l.sects[i].name : i \in 1..Len(l.sects)}

FuncsFit(funcs, text) ==
  funcs[Len(funcs)].end <= text.addr + text.size /\ funcs[1].entry >= text.addr

TablesFit(pcln) ==
  /\ pcln.len >= PcHeaderSize
  /\ \A k \in 1..7 : pcln.taboff[k] <= TabEnd(pcln, k) /\ TabEnd(pcln, k) <= pcln.len

EmptySects(l) ==
  SortSeq([i \in 1..Len(l.sects) |-> l.sects[i] @@ [data |-> <<>>]], LAMBDA s, t : s.addr < t.addr)

EmptyPcln(old, l, b) ==
  [addr |-> Sect(b, ".gopclntab").addr, len |-> l.pclnLen, nfiles |-> l.nfiles, taboff |-> l.tabOff,
   data |-> Cut(old.pcln.data, 0, PcHeaderSize) \o Zeros(l.pclnLen - PcHeaderSize)]

Skeleton(old, l) ==
  LET b == [order |-> EmptySects(l)]
      fl == DecodeFuncLayout(old, l)
      pcln == EmptyPcln(old, l, b)
  IN IF ~SectsFit(l) \/ ~fl.ok \/ l.nfunc = 0 THEN [ok |-> FALSE]
     ELSE IF ~FuncsFit(fl.funcs, Sect(b, ".text")) \/ ~TablesFit(pcln) THEN [ok |-> FALSE]
     ELSE [ok |-> TRUE, m |-> fl.m,
           bin |-> [file |-> <<>>, order |-> b.order, funcs |-> fl.funcs, pcln |-> pcln,
                    mod |-> [f \in {ModFields[i] : i \in 1..Len(ModFields)} |->
                               l.mod[CHOOSE i \in 1..Len(ModFields) : ModFields[i] = f]]]]

(* The tables sent as plain deltas, before and after the prediction of the *)
(* second group, and their place in the skeleton's pclntab.                *)
Stage1a == <<Funcnametab, Filetab>>
Stage1b == <<Cutab, Pctab, Gofunc>>
ConcatTables(b, ks) == FlattenSeq([i \in 1..Len(ks) |-> Table(b.pcln, ks[i])])

FillTables(b, ks, data) ==
  LET Before(i) == FoldLeft(LAMBDA a, k : a + TabLen(b.pcln, ks[k]), 0, [k \in 1..(i - 1) |-> k])
      Fill(d, i) == Splice(d, b.pcln.taboff[ks[i]], Cut(data, Before(i), Before(i) + TabLen(b.pcln, ks[i])))
  IN [b EXCEPT !.pcln.data = FoldLeft(Fill, @, [i \in 1..Len(ks) |-> i])]
=============================================================================
