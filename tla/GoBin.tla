------------------------------- MODULE GoBin -------------------------------
(***************************************************************************)
(* A Go ELF binary as the codec sees it: src/delta/gobin.                  *)
(*                                                                         *)
(* Contents are sequences of cells, a cell standing for four bytes: an     *)
(* offset or an index is one cell, a pointer PtrSize of them, low cell     *)
(* first.  A name is a sequence of positive cells, ended by 0 in a table.  *)
(* A binary is a record                                                    *)
(*   file   the cells of the file                                          *)
(*   order  its allocated sections by address: name, addr, off, size, data *)
(*          (empty when nobits)                                            *)
(*   mod    the moduledata fields                                          *)
(*   pcln   the pclntab: addr, len, nfiles, taboff (where its seven tables *)
(*          start), and data                                               *)
(*   funcs  the functions in address order: name, entry, end, funcOff,     *)
(*          nameOff                                                        *)
(***************************************************************************)
EXTENDS Buf

CONSTANTS
  SubbucketSize, Subbuckets,   \* findfunctab geometry
  PcHeaderSize                 \* cells of the pcHeader

PtrSize == 2
Nil == 255                     \* ^uint32(0)
FuncSize == 8                  \* a _func record before its arrays

U64(d, o) == At(d, o) + 256 * At(d, o + 1)
Ptr(v) == <<v % 256, v \div 256>>

Names(b) == {b.order[i].name : i \in 1..Len(b.order)}
Sect(b, name) == b.order[CHOOSE i \in 1..Len(b.order) : b.order[i].name = name]

(***************************************************************************)
(* Lookups by address.  sort.Search: the first section, or function, whose *)
(* end lies beyond the address; 0 when there is none or it starts later.   *)
(***************************************************************************)
FirstPast(n, End(_), a) ==
  LET past == {i \in 1..n : End(i) > a} IN IF past = {} THEN n + 1 ELSE Min(past)

SectionOf(b, a) ==
  LET i == FirstPast(Len(b.order), LAMBDA k : b.order[k].addr + b.order[k].size, a)
  IN IF i <= Len(b.order) /\ b.order[i].addr <= a THEN i ELSE 0

FuncAt(b, a) ==
  LET i == FirstPast(Len(b.funcs), LAMBDA k : b.funcs[k].end, a)
  IN IF i <= Len(b.funcs) /\ b.funcs[i].entry <= a THEN i ELSE 0

Size(f) == f.end - f.entry

FuncBytes(b, f) ==
  LET t == Sect(b, ".text") IN Cut(t.data, f.entry - t.addr, f.end - t.addr)

(* ImageRange: what tells a pointer from an integer.                       *)
ImageLo(b) == Min({b.order[i].addr : i \in 1..Len(b.order)})
ImageHi(b) == Max({b.order[i].addr + b.order[i].size : i \in 1..Len(b.order)})
InImage(b, v) == v >= ImageLo(b) /\ v < ImageHi(b)

(***************************************************************************)
(* The pclntab.  Each table runs to the start of the next.                 *)
(***************************************************************************)
Funcnametab == 1  Cutab == 2  Filetab == 3  Pctab == 4  Functab == 5  Gofunc == 6  Findfunctab == 7

TabEnd(p, k) == IF k = 7 THEN p.len ELSE p.taboff[k + 1]
TabLen(p, k) == TabEnd(p, k) - p.taboff[k]
Table(p, k) == Cut(p.data, p.taboff[k], TabEnd(p, k))

NameAt(tab, off) ==
  LET ends == {e \in off..(Len(tab) - 1) : At(tab, e) = 0}
  IN IF off >= Len(tab) \/ ends = {} THEN Error ELSE Ok(Cut(tab, off, Min(ends)))

(* The _func record: entry, name, pcsp, pcfile, pcln, npcdata, cu,         *)
(* nfuncdata, then the two arrays.                                         *)
Shape(p, funcOff) ==
  LET t == p.taboff[Functab] + funcOff IN <<At(p.data, t + 5), At(p.data, t + 7)>>
RecSize(shape) == FuncSize + shape[1] + shape[2]
Record(p, funcOff) ==
  LET t == p.taboff[Functab] + funcOff
  IN Cut(p.data, t, t + RecSize(Shape(p, funcOff)))

(***************************************************************************)
(* Parse: what the Go-aware codec takes.  Anything else is Unsupported and *)
(* gets the plain codec.                                                   *)
(***************************************************************************)
ParsePcln(p, m) ==
  /\ p.len >= PcHeaderSize
  /\ m.gofunc >= p.addr /\ m.gofunc < p.addr + p.len /\ m.findfunctab >= m.gofunc
  /\ p.taboff[Gofunc] = m.gofunc - p.addr /\ p.taboff[Findfunctab] = m.findfunctab - p.addr
  /\ \A k \in 1..7 : p.taboff[k] <= TabEnd(p, k) /\ TabEnd(p, k) <= p.len

(* No function at all passes here, although the layout then looks for the  *)
(* first one; a linked Go binary has the runtime's.                        *)
ParseFuncs(b) ==
  LET p == b.pcln  ft == Table(p, Functab)  n == Len(b.funcs)
  IN /\ Len(ft) >= 2 * (n + 1)
     /\ \A i \in 1..n :
          LET f == b.funcs[i]  e == At(ft, 2 * (i - 1)) IN
          /\ f.funcOff = At(ft, 2 * i - 1) /\ f.funcOff + FuncSize <= Len(ft)
          /\ At(ft, 2 * i) >= e /\ At(ft, f.funcOff) = e
          /\ f.entry = b.mod.text + e /\ f.end = b.mod.text + At(ft, 2 * i)
          /\ f.nameOff = At(ft, f.funcOff + 1)
          /\ NameAt(Table(p, Funcnametab), f.nameOff) = Ok(f.name)

Parse(b) ==
  /\ {".text", ".gopclntab", ".go.module", ".go.type"} \subseteq Names(b)
  /\ \A i \in 1..Len(b.order) : b.order[i].nobits \/ b.order[i].off + b.order[i].size <= Len(b.file)
  /\ LET t == Sect(b, ".text")  pc == Sect(b, ".gopclntab")
     IN /\ b.pcln.addr = pc.addr /\ b.mod.epclntab = pc.addr + pc.size
        /\ b.mod.text >= t.addr /\ b.mod.text < t.addr + t.size
  /\ ParsePcln(b.pcln, b.mod) /\ ParseFuncs(b)

(***************************************************************************)
(* What the linker derives from the functions alone.                       *)
(***************************************************************************)
CeilDiv(n, d) == (n + d - 1) \div d

(* The first function that touches subbucket i: every SubbucketSize-th     *)
(* byte of a function sets its subbucket, and so does its last byte.       *)
SubIndex(funcs, i) ==
  LET lo == funcs[1].entry
      Touches(f) == \/ \E p \in f.entry..(f.end - 1) :
                         (p - f.entry) % SubbucketSize = 0 /\ (p - lo) \div SubbucketSize = i
                    \/ (f.end - 1 - lo) \div SubbucketSize = i
      at == {f \in 1..Len(funcs) : Touches(funcs[f])}
  IN IF at = {} THEN -1 ELSE Min(at) - 1

(* GenFindfunctab: buckets of a base index and a byte per subbucket.       *)
GenFindfunctab(funcs) ==
  LET span == funcs[Len(funcs)].end - funcs[1].entry
      n == CeilDiv(span, SubbucketSize)
      nb == CeilDiv(span, SubbucketSize * Subbuckets)
      Bucket(b) == LET base == SubIndex(funcs, b * Subbuckets) IN
        <<base>> \o [j \in 1..Min({Subbuckets, n - b * Subbuckets}) |->
                       (SubIndex(funcs, b * Subbuckets + j - 1) - base) % 256]
  IN FlattenSeq([b \in 1..nb |-> Bucket(b - 1)])

(* ModalShape: the commonest record shape, ties to the smaller, so that    *)
(* the order in which a map is walked does not matter.                     *)
ModalShape(b) ==
  LET shape == [i \in 1..Len(b.funcs) |-> Shape(b.pcln, b.funcs[i].funcOff)]
      Count(s) == Cardinality({i \in 1..Len(shape) : shape[i] = s})
      Less(s, t) == s[1] < t[1] \/ (s[1] = t[1] /\ s[2] < t[2])
  IN CHOOSE s \in {shape[i] : i \in 1..Len(shape)} :
       \A t \in {shape[i] : i \in 1..Len(shape)} :
         t = s \/ Count(s) > Count(t) \/ (Count(s) = Count(t) /\ Less(s, t))

(* PcTableLen: (value, pc) pairs up to a zero value that is not the first. *)
PcEnd(tab, off) ==
  LET pairs == {p \in off..(Len(tab) + 1) : (p - off) % 2 = 0}
      stops == {p \in pairs : p # off /\ p < Len(tab) /\ At(tab, p) = 0}
  IN IF off >= Len(tab) THEN off
     ELSE IF stops # {} THEN Min(stops) + 1
     ELSE Min({p \in pairs : p >= Len(tab)})

PcTable(tab, off) == Cut(tab, off, PcEnd(tab, off))
=============================================================================
