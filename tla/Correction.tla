----------------------------- MODULE Correction -----------------------------
(***************************************************************************)
(* The correction, src/delta/correct.go: what turns a prediction into the  *)
(* file, in place.  A region that differs is written as literals or as an  *)
(* lz stream over the prediction's own bytes, whichever is smaller.        *)
(***************************************************************************)
EXTENDS Plain

CONSTANTS
  MergeGap,   \* equal bytes cheaper to send again than a region header
  SrcSlack    \* how far past a region its source window reaches

SlackAt(end, n) == Min({SrcSlack, n - end})

(* One region [s, e): its control bytes and its literals.                  *)
Region(pred, want, s, e, prevEnd) ==
  LET m == Emit(Cut(pred, s, e + SlackAt(e, Len(pred))), Cut(want, s, e))
      lz == Len(m.ctrl) + 1 + Len(m.lit) < e - s
  IN IF lz THEN [ctrl |-> U(s - prevEnd) \o U(2 * (e - s) + 1) \o m.ctrl, lit |-> m.lit]
     ELSE [ctrl |-> U(s - prevEnd) \o U(2 * (e - s)), lit |-> Cut(want, s, e)]

RECURSIVE Regions(_, _, _, _)
Regions(pred, want, runs, prevEnd) ==
  IF runs = <<>> THEN [ctrl |-> <<>>, lit |-> <<>>]
  ELSE LET r == Region(pred, want, runs[1].s, runs[1].e, prevEnd)
           rest == Regions(pred, want, Tail(runs), runs[1].e)
       IN [ctrl |-> r.ctrl \o rest.ctrl, lit |-> r.lit \o rest.lit]

(* encodeCorrection; a prediction of another length is refused.            *)
EncodeCorrection(pred, want) ==
  LET runs == Runs(want, pred, 0, MergeGap)
      w == Regions(pred, want, runs, 0)
  IN U(Len(want)) \o U(Len(runs)) \o U(Len(w.ctrl)) \o U(Len(w.lit)) \o w.ctrl \o w.lit

(***************************************************************************)
(* applyCorrection: buf holds the prediction and becomes the file.         *)
(***************************************************************************)
RECURSIVE Correct(_, _, _, _, _)
Correct(buf, n, pos, c, lit) ==
  LET gap == ReadN(c, Len(buf))  v == ReadN(gap, 2 * Len(buf) + 1)
      at == pos + gap.v
      span == v.v \div 2
      src == Cut(buf, at, at + span + SlackAt(at + span, Len(buf)))
      lz == LzApply(src, span, v.b, lit, 0, <<>>)
  IN IF n = 0 THEN IF c.b = <<>> /\ lit = <<>> THEN Ok(buf) ELSE Error
     ELSE IF ~v.ok \/ gap.v > Len(buf) - pos \/ span > Len(buf) - at THEN Error
     ELSE IF v.v % 2 = 0
          THEN IF span > Len(lit) THEN Error
               ELSE Correct(Splice(buf, at, Cut(lit, 0, span)), n - 1, at + span, v,
                            Cut(lit, span, Len(lit)))
     ELSE IF ~lz.ok THEN Error
     ELSE Correct(Splice(buf, at, lz.out), n - 1, at + span, Rbuf(lz.ctrl), lz.lit)

ApplyCorrection(buf, stream) ==
  LET n == ReadU(Rbuf(stream))  regions == ReadN(n, Len(buf) + 1)
      cl == ReadN(regions, Len(stream))  ll == ReadN(cl, Len(stream))
      ctrl == Take(ll, cl.v)  lit == Take(ctrl, ll.v)
  IN IF ~Done(lit) \/ n.v # Len(buf) THEN Error
     ELSE Correct(buf, regions.v, 0, Rbuf(ctrl.v), lit.v)
=============================================================================
