------------------------------ MODULE Predict ------------------------------
(***************************************************************************)
(* The Go-aware prediction of a release: src/delta/predict.go, reloc.go    *)
(* and the order go127.go runs it in.                                      *)
(*                                                                         *)
(* The encoder pairs the functions, maps the data, votes on targets and    *)
(* writes the layout; then it runs the decoder's code on the layout it     *)
(* wrote, and later the decoder runs it again.  The correction the encoder *)
(* sends fits only if the two predictions are the same.  Deltas of the     *)
(* stage 1 tables are not written out here: Codec shows that plainPatch    *)
(* undoes plainDiff, so both sides fill in the new release's tables.       *)
(***************************************************************************)
EXTENDS Layout

CONSTANTS
  Pairs,            \* the binaries to predict: [old, new, moved], moved when
                    \* code and data are the same and only their places differ
  PredictWorkers,   \* predictWorkers
  \* What the actions call, bound by an instance to the operators of the same
  \* names; TLC's statistics of the actions end at these calls.
  buildMaps(_, _), collectVotes(_, _, _), majorities(_), fixBlocks(_, _, _, _), overrides(_, _),
  decodeLayout(_, _), skeleton(_, _), predictBlobs(_, _, _, _), predictSections(_, _, _, _, _, _)

OvRounds == 2

(***************************************************************************)
(* encodeGoAMD64: what the encoder learns of a pair p, step by step.       *)
(***************************************************************************)
Nothing == [m |-> <<>>, dmaps |-> <<>>, shifts |-> <<>>, votes |-> <<>>, maj |-> <<>>, round |-> 0]

WithMatch(p) == [Nothing EXCEPT !.m = MatchFuncs(p.old, p.new)]

WithMaps(p, e) ==
  [e EXCEPT !.dmaps = buildMaps(p.old, p.new), !.shifts = DeriveShiftTables(p.old, p.new, e.m)]

(* A round of deriveOverrides.                                             *)
WithVotes(p, e) ==
  LET votes == collectVotes(p.old, p.new, e.dmaps)
      maj == majorities(votes)
  IN [e EXCEPT !.votes = votes, !.maj = maj, !.round = @ + 1,
               !.dmaps = fixBlocks(p.old, p.new, @, maj)]

EncoderMapper(p, e) == [src |-> p.old, dst |-> p.new, m |-> e.m, dmaps |-> e.dmaps,
                        shifts |-> e.shifts, ov |-> <<>>]

TheLayout(p, e) ==
  BuildLayout(p.old, p.new, e.m, e.dmaps, e.shifts, overrides(EncoderMapper(p, e), e.maj))

(***************************************************************************)
(* What both sides make of a layout stream: d is what one has so far.      *)
(***************************************************************************)
Readable(p, raw) ==
  LET lay == decodeLayout(raw, p.old) IN lay.ok /\ skeleton(p.old, lay).ok

(* skeletonFrom, then stage 1a.                                            *)
FromLayout(p, raw) ==
  LET lay == decodeLayout(raw, p.old)
      sk == skeleton(p.old, lay)
  IN [lay |-> lay, m |-> sk.m, bp |-> <<>>,
      skel |-> FillTables(sk.bin, Stage1a, ConcatTables(p.new, Stage1a))]

(* newMapper.                                                              *)
DecoderMapper(p, d) == [src |-> p.old, dst |-> d.skel, m |-> d.m, dmaps |-> d.lay.dmaps,
                        shifts |-> d.lay.shifts, ov |-> OverrideMap(d.lay.ov)]

(* predictBlobs, then stage 1b.                                            *)
WithTables(p, d) ==
  [d EXCEPT !.bp = predictBlobs(p.old, d.skel, d.m, DecoderMapper(p, d)),
            !.skel = FillTables(@, Stage1b, ConcatTables(p.new, Stage1b))]

(* The prediction as the text workers find it.                             *)
BaseOf(p, d) == predictSections(p.old, d.skel, d.lay, d.m, DecoderMapper(p, d), d.bp)

(* A worker's function: the old one's bytes, relocated.                    *)
PredictedFunc(p, d, j) ==
  LET f == p.old.funcs[d.m.n2o[j]]  g == d.skel.funcs[j]
  IN Relocate(FuncBytes(p.old, f), Size(g), f.entry, g.entry,
              LAMBDA t : LookupTarget(DecoderMapper(p, d), t, d.m.n2o[j]))

TextAt(d, j) == LET t == Sect(d.skel, ".text") IN t.off + d.skel.funcs[j].entry - t.addr

(***************************************************************************)
(* What the workers rest on beyond the checks of the skeleton: the layout  *)
(* an encoder writes reads back as numbers and bytes, .text is a part of   *)
(* the file, and the prediction is as long as the layout says.             *)
(***************************************************************************)
Written(p) ==
  LET e == WithVotes(p, WithVotes(p, WithMaps(p, WithMatch(p)))) IN EncodeLayout(TheLayout(p, e), p.old)

ReadsBack(p, d, base) ==
  LET text == Sect(d.skel, ".text")
  IN /\ skeleton(p.old, d.lay) = Skeleton(p.old, d.lay)
     /\ d.lay.funcs \in Seq(Nat) /\ d.lay.nfunc \in Nat /\ d.lay.firstEntry \in Int
     /\ d.lay.newLen \in Nat
     /\ \A i \in 1..Len(p.old.funcs) : Size(p.old.funcs[i]) \in Int
     /\ text.off \in Nat /\ text.addr \in Int /\ text.size \in Int
     /\ text.off + text.size <= d.lay.newLen
     /\ base = [k \in 1..d.lay.newLen |-> base[k]]

\* A quantifier over a singleton names a value TLC computes once.
ASSUME PredictAssumption ==
  /\ PredictWorkers \in Nat \ {0}
  /\ \A p \in {p \in Pairs : Parse(p.old) /\ Parse(p.new)} : \A raw \in {Written(p)} :
       Readable(p, raw) =>
         \A d \in {FromLayout(p, raw)} : \A e \in {WithTables(p, d)} : \A base \in {BaseOf(p, e)} :
           ReadsBack(p, d, base)

(***************************************************************************)
(* The state.                                                              *)
(***************************************************************************)
VARIABLES
  pjob,     \* the pair, or NoPair
  side,     \* "enc" or "dec"
  pstage,   \* the next step of the side
  enc,      \* what the encoder knows: m, dmaps, shifts, votes, maj, round
  layRaw,   \* the layout stream
  dec,      \* what the side decoded from it: lay, skel, m, bp
  taken,    \* the shared counter of the text workers
  cur,      \* per text worker: its function, 0 before it takes one, -1 after the last
  pred,     \* the prediction being built
  encPred   \* the encoder's, which its correction is measured against

pvars == <<pjob, side, pstage, enc, layRaw, dec, taken, cur, pred, encPred>>

NoPair == <<>>
PW == 1..PredictWorkers

PredictStart ==
  /\ side = "enc" /\ layRaw = <<>> /\ dec = <<>> /\ taken = 0 /\ pred = <<>> /\ encPred = <<>>
  /\ enc = Nothing
  /\ cur = [w \in PW |-> 0]

PredictInit == pjob \in Pairs /\ pstage = "parse" /\ PredictStart
PredictIdle == pjob = NoPair /\ pstage = "idle" /\ PredictStart

(* gobin.Parse of both, or the plain codec; then matchFuncs.               *)
MatchOrFallBack ==
  /\ pstage = "parse"
  /\ IF Parse(pjob.old) /\ Parse(pjob.new)
     THEN pstage' = "maps" /\ enc' = WithMatch(pjob)
     ELSE pstage' = "plain" /\ UNCHANGED enc
  /\ UNCHANGED <<pjob, side, layRaw, dec, taken, cur, pred, encPred>>

MapData ==
  /\ pstage = "maps" /\ pstage' = "vote"
  /\ enc' = WithMaps(pjob, enc)
  /\ UNCHANGED <<pjob, side, layRaw, dec, taken, cur, pred, encPred>>

VoteRound ==
  /\ pstage = "vote" /\ enc.round < OvRounds
  /\ enc' = WithVotes(pjob, enc)
  /\ UNCHANGED <<pjob, side, pstage, layRaw, dec, taken, cur, pred, encPred>>

WriteLayout ==
  /\ pstage = "vote" /\ enc.round = OvRounds
  /\ layRaw' = EncodeLayout(TheLayout(pjob, enc), pjob.old)
  /\ pstage' = "skeleton"
  /\ UNCHANGED <<pjob, side, enc, dec, taken, cur, pred, encPred>>

ReadLayout ==
  /\ pstage = "skeleton"
  /\ IF Readable(pjob, layRaw) THEN pstage' = "blobs" /\ dec' = FromLayout(pjob, layRaw)
     ELSE pstage' = "failed" /\ UNCHANGED dec
  /\ UNCHANGED <<pjob, side, enc, layRaw, taken, cur, pred, encPred>>

PredictTables ==
  /\ pstage = "blobs" /\ pstage' = "whole"
  /\ dec' = WithTables(pjob, dec)
  /\ UNCHANGED <<pjob, side, enc, layRaw, taken, cur, pred, encPred>>

PredictWhole ==
  /\ pstage = "whole" /\ pstage' = "text"
  /\ pred' = BaseOf(pjob, dec)
  /\ taken' = 0 /\ cur' = [w \in PW |-> 0]
  /\ UNCHANGED <<pjob, side, enc, layRaw, dec, encPred>>

(* predictText: a worker takes the next function, if any, ...              *)
TakeFunc(w) ==
  /\ pstage = "text" /\ cur[w] = 0
  /\ taken' = taken + 1
  /\ cur' = [cur EXCEPT ![w] = IF taken >= Len(dec.skel.funcs) THEN -1
                               ELSE IF dec.m.n2o[taken + 1] = 0 THEN 0 ELSE taken + 1]
  /\ UNCHANGED <<pjob, side, pstage, enc, layRaw, dec, pred, encPred>>

\* Mutant: a worker also fills the byte after its function.
RelocateFuncPadded(w) ==
  /\ pstage = "text" /\ cur[w] > 0
  /\ pred' = Splice(pred, TextAt(dec, cur[w]), Append(PredictedFunc(pjob, dec, cur[w]), INT3))
  /\ cur' = [cur EXCEPT ![w] = 0]
  /\ UNCHANGED <<pjob, side, pstage, enc, layRaw, dec, taken, encPred>>

(* ... and writes it into its own part of the prediction.                  *)
RelocateFunc(w) ==
  /\ pstage = "text" /\ cur[w] > 0
  /\ pred' = Splice(pred, TextAt(dec, cur[w]), PredictedFunc(pjob, dec, cur[w]))
  /\ cur' = [cur EXCEPT ![w] = 0]
  /\ UNCHANGED <<pjob, side, pstage, enc, layRaw, dec, taken, encPred>>

(* wg.Wait.  The encoder's prediction is what the correction corrects; the *)
(* patch then goes to a decoder, which starts from the layout.             *)
PredictionDone ==
  /\ pstage = "text" /\ \A w \in PW : cur[w] = -1
  /\ IF side = "enc"
     THEN /\ side' = "dec" /\ pstage' = "skeleton" /\ encPred' = pred
          /\ dec' = <<>> /\ pred' = <<>> /\ taken' = 0 /\ cur' = [w \in PW |-> 0]
     ELSE pstage' = "done" /\ UNCHANGED <<side, encPred, dec, pred, taken, cur>>
  /\ UNCHANGED <<pjob, enc, layRaw>>

PredictNext ==
  \/ MatchOrFallBack \/ MapData \/ VoteRound \/ WriteLayout \/ ReadLayout
  \/ PredictTables \/ PredictWhole \/ PredictionDone
  \/ \E w \in PW : TakeFunc(w) \/ RelocateFunc(w)

PredictSpec == (PredictInit \/ PredictIdle) /\ [][PredictNext]_pvars

(***************************************************************************)
(* Properties.                                                             *)
(***************************************************************************)
(* What a layout can describe: a file and new names the reader takes.      *)
Sendable(p, m) ==
  /\ Len(p.new.file) <= MaxPatchSize
  /\ \A j \in 1..Len(p.new.funcs) : m.n2o[j] = 0 => Len(p.new.funcs[j].name) <= MaxFuncName

(* layout.go: what the decoder reads back is what the encoder meant,       *)
(* though every number in the stream is a difference from the old release  *)
(* and every list is sent against the old one.  The skeleton has the new   *)
(* release's section table, moduledata and functions, the match is the     *)
(* encoder's, and the maps move every offset as the encoder's do.  A       *)
(* release beyond the reader's limits is refused by the encoder, which     *)
(* reads its own layout; nothing else is, and a decoder refuses nothing.   *)
LayoutExact ==
  /\ pstage = "failed" => side = "enc" /\ ~Sendable(pjob, enc.m)
  /\ pstage = "blobs" =>
       /\ dec.lay.newLen = Len(pjob.new.file) /\ dec.m = enc.m
       /\ dec.skel.mod = pjob.new.mod /\ dec.skel.pcln.taboff = pjob.new.pcln.taboff
       /\ \A i \in 1..Len(pjob.new.order) : \A f \in {"name", "addr", "off", "size", "nobits"} :
            dec.skel.order[i][f] = pjob.new.order[i][f]
       /\ [j \in 1..Len(dec.skel.funcs) |-> <<dec.skel.funcs[j].entry, dec.skel.funcs[j].end>>]
            = [j \in 1..Len(pjob.new.funcs) |-> <<pjob.new.funcs[j].entry, pjob.new.funcs[j].end>>]
       /\ \A j \in 1..Len(pjob.new.funcs) :
            IF enc.m.n2o[j] # 0 THEN enc.m.o2n[enc.m.n2o[j]] = j
            ELSE dec.skel.funcs[j].name = pjob.new.funcs[j].name
       /\ DOMAIN dec.lay.dmaps = DOMAIN enc.dmaps
       /\ \A n \in DOMAIN enc.dmaps : \A o \in 0..(Sect(pjob.old, n).size - 1) :
            MapOff(dec.lay.dmaps[n], o) = MapOff(enc.dmaps[n], o)
       /\ dec.lay.shifts = [n \in {n \in DOMAIN enc.shifts : enc.shifts[n] # <<>>} |-> enc.shifts[n]]
       /\ dec.lay.ov = overrides(EncoderMapper(pjob, enc), enc.maj)
       /\ dec.lay.recShapes = RecShapes(pjob.old, pjob.new, enc.m)

(* selfpredict_test.go, the gate of a new Go release: a release predicted  *)
(* from itself is reproduced byte for byte.  So is one in which functions, *)
(* data and types only moved, but for the ELF header, which is the old     *)
(* file's, and .go.module, which points into tables no map covers.         *)
PredictsMoves ==
  (pstage = "done" /\ pjob.moved) =>
    \/ pred = pjob.new.file
    \/ /\ pjob.old # pjob.new
       /\ LET hdr == Min({s.off : s \in {s \in Range(pjob.new.order) : ~s.nobits /\ s.size # 0}})
              mod == Sect(pjob.new, ".go.module")
              Outside(f) == Cut(f, hdr, mod.off) \o Cut(f, mod.off + mod.size, Len(f))
          IN Outside(pred) = Outside(pjob.new.file)

(* go127.go: "an encoder and a decoder that disagree say so": they never   *)
(* have to.  However the text workers of the two runs interleave, the      *)
(* decoder's prediction is the one the correction was measured against.    *)
SidesAgree == pstage = "done" => pred = encPred

(* predict.go, majorities: "one entry per old target".                     *)
OneEntryPerTarget ==
  \A i \in 1..Len(enc.votes) : Cardinality({k \in 1..Len(enc.maj) : enc.maj[k].o = enc.votes[i].o}) = 1
=============================================================================
