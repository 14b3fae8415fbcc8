-------------------------------- MODULE X86 --------------------------------
(***************************************************************************)
(* Relocating the PC-relative operands of machine code: src/delta/x86.     *)
(*                                                                         *)
(* Code is a sequence of cells.  The instruction decoder is a library's:   *)
(* Decode tells an instruction's length, 0 when it has none, and the width *)
(* and place of its displacement.  A displacement fills one cell and wraps *)
(* at the Span of its width.                                               *)
(***************************************************************************)
EXTENDS Buf

CONSTANTS
  Decode(_),   \* of the cells from an instruction on: [len, pcrel, off]
  Span(_)      \* of a width: how many values a displacement has

INT3 == 204

Signed(v, w) == IF v >= Span(w) \div 2 THEN v - Span(w) ELSE v
Fits(v, w) == v >= -(Span(w) \div 2) /\ v < Span(w) \div 2

(* The instructions of code in order; bytes that do not decode are passed  *)
(* over one at a time.                                                     *)
Insts(code) ==
  LET from[i \in 0..Len(code)] ==
        LET d == Decode(Cut(code, i, Len(code))) IN
        IF i = Len(code) THEN <<>>
        ELSE IF d.len = 0 THEN from[i + 1]
        ELSE <<[at |-> i, len |-> d.len, pcrel |-> d.pcrel, fld |-> i + d.off]>>
               \o from[Min({i + d.len, Len(code)})]
  IN from[0]

(* The instructions with a displacement that lies within the code.         *)
Refs(code) == SelectSeq(Insts(code), LAMBDA d : d.pcrel > 0 /\ d.fld < Len(code))

TargetOf(code, pc, d) == pc + d.at + d.len + Signed(At(code, d.fld), d.pcrel)

\* Mutant: the displacement is taken from the start of the instruction.
DisplacementFromStart(addr, dstPC, d) == addr - (dstPC + d.at)

(* A displacement counts from the end of its instruction.                  *)
Displacement(addr, dstPC, d) == addr - (dstPC + d.at + d.len)

(* relocOne: the new displacement, or the old one when the target has no   *)
(* counterpart or the distance no longer fits.                             *)
RelocOne(code, d, srcPC, dstPC, Lookup(_)) ==
  LET t == Lookup(TargetOf(code, srcPC, d))
      nd == Displacement(t.addr, dstPC, d)
  IN IF t.known /\ Fits(nd, d.pcrel) THEN nd % Span(d.pcrel) ELSE At(code, d.fld)

(* Relocate: code moved from srcPC to dstPC, cut or padded to n cells.     *)
Relocate(code0, n, srcPC, dstPC, Lookup(_)) ==
  LET code == Cut(code0, 0, Min({n, Len(code0)}))
      refs == Refs(code)
      Ref(k) == {i \in 1..Len(refs) : refs[i].fld = k}
  IN [k \in 1..n |->
        IF k > Len(code) THEN INT3
        ELSE IF Ref(k - 1) = {} THEN code[k]
        ELSE RelocOne(code, refs[Max(Ref(k - 1))], srcPC, dstPC, Lookup)]

(* ContentHash: the length and the code with its displacements zeroed.     *)
ContentHash(code) ==
  LET flds == {Refs(code)[i].fld : i \in 1..Len(Refs(code))}
  IN [k \in 1..Len(code) |-> IF k - 1 \in flds THEN 0 ELSE code[k]]

(* Equal: two bodies that differ in displacements only, by a's decoding.   *)
Equal(a, b) ==
  /\ Len(a) = Len(b)
  /\ LET flds == {Refs(a)[i].fld : i \in 1..Len(Refs(a))}
     IN \A k \in 1..Len(a) : k - 1 \in flds \/ a[k] = b[k]
=============================================================================
