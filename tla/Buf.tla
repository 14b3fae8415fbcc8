-------------------------------- MODULE Buf --------------------------------
(***************************************************************************)
(* Byte buffers and the two cursors every stream of a patch is written and *)
(* read with: src/delta/buf.go.                                            *)
(*                                                                         *)
(* A buffer is a sequence of bytes, indexed from 0 as in the code.  A      *)
(* varint is one element of it; an element of MaxVarint or more where one  *)
(* is expected is an unfinished varint.                                    *)
(***************************************************************************)
EXTENDS Integers, Sequences, SequencesExt, FiniteSetsExt

CONSTANT MaxVarint   \* bound: the numbers of an instance stay below it

At(b, i) == b[i + 1]
Cut(b, i, j) == SubSeq(b, i + 1, j)                        \* b[i:j]
Splice(b, i, s) == Cut(b, 0, i) \o s \o Cut(b, i + Len(s), Len(b))   \* copy(b[i:], s)
Zeros(n) == [i \in 1..n |-> 0]

(* How many leading bytes two buffers share: lz.matchLen.                  *)
MatchLen(a, b) ==
  Max({n \in 0..Min({Len(a), Len(b)}) : \A i \in 1..n : a[i] = b[i]})

(* binary.PutUvarint and PutVarint (zig-zag).                              *)
U(v) == <<v>>
S(v) == <<IF v >= 0 THEN 2 * v ELSE -2 * v - 1>>
Bytes(b) == U(Len(b)) \o b

(***************************************************************************)
(* rbuf: what is left, the last value read, and whether a read failed.     *)
(* After a failure everything reads as zero from an empty buffer.          *)
(***************************************************************************)
Rbuf(b) == [b |-> b, v |-> 0, ok |-> TRUE]
Fail(r) == [b |-> <<>>, v |-> 0, ok |-> FALSE]

ReadU(r) ==
  IF r.b = <<>> \/ Head(r.b) >= MaxVarint THEN Fail(r)
  ELSE [r EXCEPT !.b = Tail(r.b), !.v = Head(r.b)]

UnZigZag(n) == IF n % 2 = 0 THEN n \div 2 ELSE -((n + 1) \div 2)

ReadS(r) ==
  LET u == ReadU(r) IN IF ~u.ok THEN u ELSE [u EXCEPT !.v = UnZigZag(@)]

(* un: a value above max is a failure, so that it never becomes an index.  *)
ReadN(r, max) ==
  LET u == ReadU(r) IN IF u.v > max THEN Fail(u) ELSE u

(* take: the next n bytes as the value.                                    *)
Take(r, n) ==
  IF Len(r.b) < n THEN [Fail(r) EXCEPT !.v = <<>>]
  ELSE [r EXCEPT !.b = Cut(r.b, n, Len(r.b)), !.v = Cut(r.b, 0, n)]

(* bytes: a length, then that many bytes.                                  *)
ReadBytes(r) == LET u == ReadU(r) IN Take(u, u.v)

(* done: no failure, nothing left over.                                    *)
Done(r) == r.ok /\ r.b = <<>>

Error == [ok |-> FALSE, out |-> <<>>]
Ok(b) == [ok |-> TRUE, out |-> b]
=============================================================================
