------------------------------- MODULE Plain -------------------------------
(***************************************************************************)
(* The plain codec (transform 0), src/delta/plain.go: bsdiff's shape, with *)
(* the difference of matched regions kept as runs of non-zero bytes.       *)
(***************************************************************************)
EXTENDS Lz

CONSTANTS
  Margin,        \* what a control triple costs, in matched bytes
  DiffMergeGap   \* equal bytes carried inside a difference run

(***************************************************************************)
(* plainDiff.  The state of the scan is [scan, mlen, pos] and the last     *)
(* match [lastscan, lastpos, lastoffset].                                  *)
(***************************************************************************)
Agree(old, new, i, off) ==
  /\ i + off >= 0 /\ i + off < Len(old)
  /\ At(old, i + off) = At(new, i)

Agreeing(old, new, from, to, off) ==
  Cardinality({i \in from..(to - 1) : Agree(old, new, i, off)})

(* The inner loop: stop where a fresh match explains the bytes ahead       *)
(* better than carrying on at the previous offset does.                    *)
RECURSIVE ScanAhead(_, _, _, _, _, _)
ScanAhead(old, new, off, st, scsc, score) ==
  IF st.scan >= Len(new) THEN [st EXCEPT !.score = score]
  ELSE LET m == Find(old, new, st.scan, st.scan + off)
           s1 == score + Agreeing(old, new, scsc, st.scan + m.len, off)
           next == [st EXCEPT !.pos = m.pos, !.mlen = m.len]
       IN IF (m.len = s1 /\ m.len # 0) \/ m.len > s1 + Margin
          THEN [next EXCEPT !.score = s1]
          ELSE ScanAhead(old, new, off, [next EXCEPT !.scan = @ + 1],
                         Max({scsc, st.scan + m.len}),
                         s1 - (IF Agree(old, new, st.scan, off) THEN 1 ELSE 0))

(* The shortest extension with the most matching bytes against its length, *)
(* counted twice: the two loops that lengthen a match.                     *)
BestExtension(max, Same(_)) ==
  LET Score(n) == 2 * Cardinality({i \in 0..(n - 1) : Same(i)}) - n
  IN CHOOSE n \in 0..max : \A m \in 0..max :
       Score(n) > Score(m) \/ (Score(n) = Score(m) /\ n <= m)

Forward(old, new, lastscan, lastpos, scan) ==
  BestExtension(Max({0, Min({scan - lastscan, Len(old) - lastpos})}),
                LAMBDA i : At(old, lastpos + i) = At(new, lastscan + i))

Backward(old, new, lastscan, scan, pos) ==
  IF scan >= Len(new) THEN 0
  ELSE BestExtension(Min({scan - lastscan, pos}),
                     LAMBDA i : At(old, pos - i - 1) = At(new, scan - i - 1))

(* Where the two extensions overlap, the split that keeps most matches.    *)
Split(old, new, a, apos, b, bpos, overlap) ==
  LET Gain(n) == Cardinality({i \in 0..(n - 1) : At(new, a + i) = At(old, apos + i)})
                 - Cardinality({i \in 0..(n - 1) : At(new, b + i) = At(old, bpos + i)})
  IN CHOOSE n \in 0..overlap : \A m \in 0..overlap :
       Gain(n) > Gain(m) \/ (Gain(n) = Gain(m) /\ n <= m)

(* One control triple's regions: matched, literal, and where to seek.      *)
Triple(old, new, last, st) ==
  LET lenf0 == Forward(old, new, last.scan, last.pos, st.scan)
      lenb0 == Backward(old, new, last.scan, st.scan, st.pos)
      overlap == last.scan + lenf0 - (st.scan - lenb0)
      lens == IF overlap > 0
              THEN Split(old, new, last.scan + lenf0 - overlap, last.pos + lenf0 - overlap,
                         st.scan - lenb0, st.pos - lenb0, overlap)
              ELSE 0
      lenf == IF overlap > 0 THEN lenf0 + lens - overlap ELSE lenf0
      lenb == IF overlap > 0 THEN lenb0 - lens ELSE lenb0
  IN [at |-> last.scan, old |-> last.pos, lenf |-> lenf,
      extra |-> (st.scan - lenb) - (last.scan + lenf),
      seek |-> (st.pos - lenb) - (last.pos + lenf),
      last |-> [scan |-> st.scan - lenb, pos |-> st.pos - lenb, off |-> st.pos - st.scan]]

RECURSIVE Triples(_, _, _, _)
Triples(old, new, last, st0) ==
  IF st0.scan >= Len(new) THEN <<>>
  ELSE LET from == st0.scan + st0.mlen
           st == ScanAhead(old, new, last.off, [st0 EXCEPT !.scan = from], from, 0)
       IN IF st.mlen # st.score \/ st.scan = Len(new)
          THEN LET t == Triple(old, new, last, st) IN <<t>> \o Triples(old, new, t.last, st)
          ELSE Triples(old, new, last, st)

(***************************************************************************)
(* diffWriter: the differences of one matched region as runs [s, e); equal *)
(* stretches shorter than DiffMergeGap stay inside a run.  `base` is the   *)
(* logical position of the region, lastEnd the end of the last run.        *)
(***************************************************************************)
RECURSIVE RunEnd(_, _, _, _)
RunEnd(a, b, e, gap) ==
  LET same == MatchLen(Cut(a, e, Len(a)), Cut(b, e, Len(b))) IN
  IF e < Len(a) /\ same < gap /\ e + same < Len(a)
  THEN RunEnd(a, b, e + same + 1, gap) ELSE e

RECURSIVE Runs(_, _, _, _)
Runs(a, b, i, gap) ==
  LET s == i + MatchLen(Cut(a, i, Len(a)), Cut(b, i, Len(b)))
      e == RunEnd(a, b, s + 1, gap)
  IN IF s >= Len(a) THEN <<>> ELSE <<[s |-> s, e |-> e]>> \o Runs(a, b, e, gap)

RECURSIVE DiffRuns(_, _, _, _, _)
DiffRuns(new, old, runs, base, lastEnd) ==
  IF runs = <<>> THEN [b |-> <<>>, end |-> lastEnd]
  ELSE LET s == runs[1].s  e == runs[1].e
           rest == DiffRuns(new, old, Tail(runs), base, base + e)
       IN [rest EXCEPT !.b = U(base + s - lastEnd) \o U(e - s)
             \o [k \in 1..(e - s) |-> (At(new, s + k - 1) - At(old, s + k - 1)) % 256] \o @]

(* The three streams of all triples: control, differences, literals.       *)
RECURSIVE Write(_, _, _, _, _)
Write(old, new, ts, base, lastEnd) ==
  IF ts = <<>> THEN [ctrl |-> <<>>, diff |-> <<>>, extra |-> <<>>]
  ELSE LET t == ts[1]
           n == Cut(new, t.at, t.at + t.lenf)
           o == Cut(old, t.old, t.old + t.lenf)
           d == DiffRuns(n, o, Runs(n, o, 0, DiffMergeGap), base, lastEnd)
           rest == Write(old, new, Tail(ts), base + t.lenf, d.end)
       IN [ctrl |-> U(t.lenf) \o U(t.extra) \o S(t.seek) \o rest.ctrl,
           diff |-> d.b \o rest.diff,
           extra |-> Cut(new, t.at + t.lenf, t.at + t.lenf + t.extra) \o rest.extra]

PackPlain(n, w) ==
  U(n) \o U(Len(w.ctrl)) \o U(Len(w.diff)) \o U(Len(w.extra)) \o w.ctrl \o w.diff \o w.extra

PlainDiff(old, new) ==
  IF old = <<>>
  THEN PackPlain(1, [ctrl |-> U(0) \o U(Len(new)) \o S(0), diff |-> <<>>, extra |-> new])
  ELSE LET ts == Triples(old, new, [scan |-> 0, pos |-> 0, off |-> 0],
                         [scan |-> 0, mlen |-> 0, pos |-> 0, score |-> 0])
       IN PackPlain(Len(ts), Write(old, new, ts, 0, 0))

(***************************************************************************)
(* diffReader: the pending run [next, pend) and the rest of its stream.    *)
(***************************************************************************)
Never == 2 ^ 30

Advance(d, max) ==
  LET gap == ReadN(Rbuf(d.b), max)  n == ReadN(gap, max)  t == Take(n, n.v) IN
  IF d.b = <<>> THEN [d EXCEPT !.pend = <<>>, !.next = Never]
  ELSE IF ~(gap.ok /\ n.ok /\ t.ok)
       THEN [d EXCEPT !.b = <<>>, !.pend = <<>>, !.next = Never, !.ok = FALSE]
  ELSE [d EXCEPT !.b = t.b, !.next = @ + gap.v, !.pend = t.v]

NewDiffReader(b, max) ==
  Advance([b |-> b, logical |-> 0, next |-> 0, pend |-> <<>>, ok |-> TRUE], max)

(* add: the difference bytes that cover the next Len(dst) logical bytes; a *)
(* run that straddles the end keeps its rest for the next region.          *)
RECURSIVE Add(_, _, _)
Add(d, dst, max) ==
  LET end == d.logical + Len(dst)
      n == Min({Len(d.pend), end - d.next})
      base == d.next - d.logical
      sum == [k \in 1..Len(dst) |-> IF k > base /\ k <= base + n
                                    THEN (dst[k] + d.pend[k - base]) % 256 ELSE dst[k]]
  IN IF d.next >= end THEN [d |-> [d EXCEPT !.logical = end], ok |-> TRUE, out |-> dst]
     ELSE IF ~d.ok \/ d.next < d.logical THEN [d |-> d, ok |-> FALSE, out |-> dst]
     ELSE IF n < Len(d.pend)
          THEN [d |-> [d EXCEPT !.pend = Cut(@, n, Len(@)), !.next = @ + n, !.logical = end],
                ok |-> TRUE, out |-> sum]
     ELSE Add(Advance([d EXCEPT !.next = @ + Len(d.pend)], max), sum, max)

DiffDone(d) == d.ok /\ d.b = <<>> /\ d.pend = <<>>

(***************************************************************************)
(* plainPatch.                                                             *)
(***************************************************************************)
RECURSIVE Replay(_, _, _, _, _, _, _, _)
Replay(old, newLen, n, ctrl, d, extra, opos, out) ==
  LET nd == ReadN(ctrl, newLen)  ne == ReadN(nd, newLen)  seek == ReadS(ne)
      add == Add(d, Cut(old, opos, opos + nd.v), newLen)
      opos1 == opos + nd.v
      npos1 == Len(out) + nd.v
  IN IF n = 0
     THEN IF Done(ctrl) /\ DiffDone(d) /\ Len(out) = newLen /\ extra = <<>> THEN Ok(out) ELSE Error
     ELSE IF ~seek.ok THEN Error
     ELSE IF npos1 > newLen \/ opos < 0 \/ opos1 > Len(old) THEN Error
     ELSE IF ~add.ok THEN Error
     ELSE IF ne.v > Len(extra) \/ npos1 + ne.v > newLen THEN Error
     ELSE Replay(old, newLen, n - 1, seek, add.d, Cut(extra, ne.v, Len(extra)), opos1 + seek.v,
                 out \o add.out \o Cut(extra, 0, ne.v))

PlainPatch(old, body, newLen) ==
  LET a == ReadN(Rbuf(body), Len(body))  b == ReadN(a, Len(body))
      c == ReadN(b, Len(body))  e == ReadN(c, newLen)
      ctrl == Take(e, b.v)  diff == Take(ctrl, c.v)  extra == Take(diff, e.v)
  IN IF ~Done(extra) THEN Error
     ELSE Replay(old, newLen, a.v, Rbuf(ctrl.v), NewDiffReader(diff.v, newLen), extra.v, 0, <<>>)
=============================================================================
