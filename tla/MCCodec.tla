------------------------------ MODULE MCCodec ------------------------------
(***************************************************************************)
(* Codec on short files of few byte values.  A file that starts with 1 is  *)
(* a binary the Go-aware codec takes; its tables are its second byte and   *)
(* its third, and the rest of it is predicted to be the old file's.        *)
(***************************************************************************)
EXTENDS Codec, Correction

\* The two compressors are stood for by run lengths.
RECURSIVE Rle(_)
Rle(b) ==
  IF b = <<>> THEN <<>>
  ELSE LET n == Max({k \in 1..Len(b) : \A i \in 1..k : b[i] = b[1]})
       IN <<n, b[1]>> \o Rle(Cut(b, n, Len(b)))

RECURSIVE UnRle(_)
UnRle(z) ==
  IF z = <<>> THEN Ok(<<>>)
  ELSE IF Len(z) = 1 \/ z[1] \notin 1..64 THEN Error
  ELSE LET rest == UnRle(Cut(z, 2, Len(z))) IN
       IF rest.ok THEN Ok([i \in 1..z[1] |-> z[2]] \o rest.out) ELSE Error

MCZstdEncode(b) == <<40>> \o Rle(b)
MCZstdDecode(z) == IF z = <<>> \/ z[1] # 40 THEN Error ELSE UnRle(Tail(z))
MCBrotliEncode(b, quality) == IF quality = 10 THEN <<10, 10>> \o Rle(b) ELSE Rle(b)
MCBrotliDecode(z) ==
  IF Len(z) >= 2 /\ z[1] = 10 /\ z[2] = 10 THEN UnRle(Cut(z, 2, Len(z))) ELSE UnRle(z)

\* A LET, at which TLC's statistics of an action end.
MCPlainDiff(old, new) == LET diff == PlainDiff(old, new) IN diff

Short(n) == UNION {[1..k -> {0, 1}] : k \in 0..n}

MCBucket(w) == Total(w) % 2
MCSupported(b) == Len(b) >= 3 /\ b[1] = 1
MCLayoutOf(old, new) == U(Len(new))
\* The decoder's size limits: a layout of more than MaxFile bytes is refused.
MaxFile == 11
MCLayoutOk(old, lay, na, nb) == Len(lay) = 1 /\ lay[1] \in 3..MaxFile /\ na = 1 /\ nb = 1
MCTables1a(b) == Cut(b, 1, 2)
MCTables1b(b) == Cut(b, 2, 3)
MCPredictTables(old, lay) == MCTables1b(old)
MCPredictWhole(old, lay, t1a, t1b) ==
  LET n == lay[1]
      b == Cut(old, 0, 1) \o t1a \o t1b \o Cut(old, 3, Len(old))
  IN Cut(b \o Zeros(n), 0, n)

\* Longer files: matches at several offsets, changed and moved.
Long == {<<1, 1, 0, 2, 3, 2, 3, 2>>, <<1, 0, 0, 2, 3, 2, 3, 2, 3>>, <<2, 3, 2, 3, 1, 1, 0>>,
         <<1, 1, 0, 3, 3, 3, 3, 3>>, <<1, 1, 0, 2, 3, 4, 5, 6, 7, 8, 9>>,
         <<1, 1, 0, 9, 2, 3, 4, 5, 6, 7, 8>>}

Auto  == [plainOnly |-> FALSE, maxTransform |-> 0]
Plain == [plainOnly |-> TRUE, maxTransform |-> 0]

MCPatchJobs ==
  {[old |-> o, new |-> n, opts |-> Auto] : o \in Short(4), n \in Short(4)}
    \cup {[old |-> o, new |-> n, opts |-> x] : o \in Long, n \in Long, x \in {Auto, Plain}}
    \cup {[old |-> <<1, 1, 0>>, new |-> <<1, 1>> \o Zeros(MaxFile - 1), opts |-> Auto]}

MCBlobJobs == [data : {<<>>, <<1>>, <<1, 2>>, <<1, 2, 3>>, <<1, 2, 3, 4>>, <<1, 1, 1, 1, 1>>},
               backend : Backends]
MCOthers == {<<1, 1, 1>>}
=============================================================================
