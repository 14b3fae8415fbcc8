--------------------------------- MODULE Lz ---------------------------------
(***************************************************************************)
(* The exact-match engine of the codec, src/delta/internal/lz/lz.go: an    *)
(* index over a source buffer, a lookup near a hint, and the (literals,    *)
(* copy, seek) operations that rebuild a buffer.                           *)
(***************************************************************************)
EXTENDS Buf

CONSTANTS
  MinMatch,    \* the shortest copy worth an operation
  Window,      \* bytes a lookup reads to hash; the last Window - 1 positions are not indexed
  Near,        \* entries tried one by one on each side of the hint
  Probe,       \* further tries on each side, at growing distance
  Bucket(_)    \* the hash of the MinMatch bytes at a position

(* NewIndex: the positions whose bytes hash alike, in ascending order.     *)
Entries(src, h) ==
  SelectSeq([i \in 1..(Len(src) - Window + 1) |-> i - 1],
            LAMBDA i : Bucket(Cut(src, i, i + MinMatch)) = h)

Indexed(src) == Len(src) >= Window

(* The order in which Find tries the entries around position k of n.       *)
RECURSIVE Growing(_, _, _)
Growing(k, step, n) ==
  IF n = 0 THEN <<>> ELSE <<k - step, k + step - 1>> \o Growing(k, step * 4, n - 1)

Tries(k, n) ==
  SelectSeq(FlattenSeq([d \in 1..Near |-> <<k - d, k + d - 1>>])
              \o Growing(k, Near, Probe) \o <<0, n - 1>>,
            LAMBDA i : i >= 0 /\ i < n)

(* Find: the longest match among the tries, the first of equals, the hint  *)
(* itself before all others; nothing shorter than MinMatch.                *)
Find(src, dst, p, hint) ==
  IF p + Window > Len(dst) \/ ~Indexed(src) THEN [pos |-> 0, len |-> 0]
  ELSE
  LET rest == Cut(dst, p, Len(dst))
      MatchAt(i) == MatchLen(Cut(src, i, Len(src)), rest)
      atHint == IF hint >= 0 /\ hint < Len(src) THEN MatchAt(hint) ELSE 0
      first == IF atHint >= MinMatch THEN [pos |-> hint, len |-> atHint] ELSE [pos |-> 0, len |-> 0]
      ents == Entries(src, Bucket(Cut(dst, p, p + MinMatch)))
      want == IF hint < 0 THEN p ELSE hint
      k == Cardinality({i \in 1..Len(ents) : ents[i] < want})
      Better(best, i) == IF MatchAt(ents[i + 1]) > best.len
                         THEN [pos |-> ents[i + 1], len |-> MatchAt(ents[i + 1])] ELSE best
      best == FoldLeft(Better, first, Tries(k, Len(ents)))
  IN IF best.len < MinMatch THEN [pos |-> 0, len |-> 0] ELSE best

(***************************************************************************)
(* Emit: greedy with one byte of look-ahead.                               *)
(***************************************************************************)
LzOp(lits, copy, seek) == U(lits) \o U(copy) \o S(seek)

RECURSIVE EmitFrom(_, _, _, _, _)
EmitFrom(src, dst, cursor, p, start) ==
  LET none == [ctrl |-> <<>>, lit |-> <<>>]
      m == Find(src, dst, p, cursor)
      m2 == IF p + 1 < Len(dst) THEN Find(src, dst, p + 1, cursor) ELSE m
      lazy == m2.len > m.len + 1
      b == IF lazy THEN m2 ELSE m
      q == IF lazy THEN p + 1 ELSE p
  IN IF p >= Len(dst)
     THEN IF start < Len(dst)
          THEN [ctrl |-> LzOp(Len(dst) - start, 0, 0), lit |-> Cut(dst, start, Len(dst))]
          ELSE none
     ELSE IF m.len = 0 THEN EmitFrom(src, dst, cursor, p + 1, start)
     ELSE LET rest == EmitFrom(src, dst, b.pos + b.len, q + b.len, q + b.len) IN
          [ctrl |-> LzOp(q - start, b.len, b.pos - cursor) \o rest.ctrl,
           lit |-> Cut(dst, start, q) \o rest.lit]

Emit(src, dst) == EmitFrom(src, dst, 0, 0, 0)

(***************************************************************************)
(* Reader.Apply: n bytes rebuilt from src; the unused rest of both streams *)
(* is left for the next call.                                              *)
(***************************************************************************)
LzError == [ok |-> FALSE, out |-> <<>>, ctrl |-> <<>>, lit |-> <<>>]

RECURSIVE LzApply(_, _, _, _, _, _)
LzApply(src, n, ctrl, lit, cursor, out) ==
  LET a == ReadU(Rbuf(ctrl))  b == ReadU(a)  c == ReadS(b)
      left == n - Len(out)
      out1 == out \o Cut(lit, 0, a.v)
      lit1 == Cut(lit, a.v, Len(lit))
      at == cursor + c.v
  IN IF Len(out) >= n THEN [ok |-> TRUE, out |-> out, ctrl |-> ctrl, lit |-> lit]
     ELSE IF ~(a.ok /\ b.ok /\ c.ok) \/ a.v > left \/ a.v > Len(lit) THEN LzError
     ELSE IF b.v = 0
          THEN IF c.v # 0 \/ a.v = 0 THEN LzError ELSE LzApply(src, n, c.b, lit1, cursor, out1)
     ELSE IF at < 0 \/ b.v > left - a.v \/ at + b.v > Len(src) THEN LzError
     ELSE LzApply(src, n, c.b, lit1, at + b.v, out1 \o Cut(src, at, at + b.v))
=============================================================================
