----------------------------- MODULE Container -----------------------------
(***************************************************************************)
(* The patch container and the two transforms in it: src/delta/delta.go,   *)
(* container.go, go127.go, and the frame compression of internal/cz.       *)
(*                                                                         *)
(* A digest is an injective tag of the bytes it is of.  The prologue is a  *)
(* record; its encoding is the varints of Buf and adds nothing to it.      *)
(***************************************************************************)
EXTENDS Buf

CONSTANTS
  FrameSize,             \* uncompressed bytes of a frame
  BrotliMax,             \* the largest stream tried at the best quality
  MaxPlainSize,          \* the largest old file the plain codec takes
  MaxTransform,          \* the newest transform this build knows
  Supported(_),          \* gobin.Parse accepts the binary
  LayoutOf(_, _),        \* the layout stream of a pair of binaries
  Tables1a(_), Tables1b(_),   \* the tables of a binary sent as plain deltas
  LayoutOk(_, _, _, _),  \* skeletonFrom takes old and layout, and both tables have its lengths
  predictTables(_, _),   \* predictBlobs: old, layout
  predictWhole(_, _, _, _),   \* old, layout and both tables; length-exact
  \* The plain codec and the correction: an instance binds them to the
  \* operators of Plain and Correction.
  plainDiff(_, _), plainPatch(_, _, _),
  encodeCorrection(_, _), applyCorrection(_, _),
  \* The compressors, of libraries; the second argument is the quality.
  zstdEncode(_), zstdDecode(_), brotliEncode(_, _), brotliDecode(_)

TransformPlain == 0
TransformGoAMD64 == 1
HashOf(b) == <<b>>
SumBytes(b) == <<200>> \o b   \* the digest as it is written into a stream

(***************************************************************************)
(* cz.                                                                     *)
(***************************************************************************)
Raw == 0  Zstd == 1  Brotli == 2

Quality(b) == IF Len(b) > BrotliMax THEN 10 ELSE 11

(* Compress: the smallest candidate, raw when neither wins.                *)
Compress(b) ==
  LET z == zstdEncode(b)  r == brotliEncode(b, Quality(b))
      first == IF Len(z) < Len(b) THEN [codec |-> Zstd, z |-> z] ELSE [codec |-> Raw, z |-> b]
  IN IF Len(r) < Len(first.z) THEN [codec |-> Brotli, z |-> r] ELSE first

(* Decompress: exactly n bytes, or an error.                               *)
Decompress(codec, z, n) ==
  LET d == CASE codec = Raw    -> Ok(z)
             [] codec = Zstd   -> zstdDecode(z)
             [] codec = Brotli -> brotliDecode(z)
             [] OTHER          -> Error
  IN IF d.ok /\ Len(d.out) = n THEN d ELSE Error

(***************************************************************************)
(* Frames.                                                                 *)
(***************************************************************************)
Total(s) ==
  LET t[i \in 0..Len(s)] == IF i = 0 THEN 0 ELSE t[i - 1] + s[i] IN t[Len(s)]

\* Mutant: a body that ends on a frame boundary gets an empty last frame, and an empty one none.
FrameCountPlain(n) == n \div FrameSize + (IF n % FrameSize = 0 /\ n > 0 THEN 1 ELSE 0)

(* How many frames n bytes need: at least one, an exact multiple no more.  *)
FrameCount(n) == Max({1, (n + FrameSize - 1) \div FrameSize})

Chunk(body, i) == Cut(body, (i - 1) * FrameSize, Min({i * FrameSize, Len(body)}))

FrameBody(body) ==
  [i \in 1..FrameCount(Len(body)) |->
     LET c == Compress(Chunk(body, i))
     IN [off |-> (i - 1) * FrameSize, len |-> Len(Chunk(body, i)), zlen |-> Len(c.z),
         codec |-> c.codec, b3 |-> HashOf(c.z), z |-> c.z]]

(* ParseHeader: frames follow each other and none is longer than a frame.  *)
ParseHeader(p) ==
  /\ p.magic
  /\ \A i \in 1..Len(p.frames) :
       /\ p.frames[i].len <= FrameSize
       /\ p.frames[i].off = Total([j \in 1..(i - 1) |-> p.frames[j].len])

\* Where frame i starts in the stored bytes, and its bytes there.
ZOff(frames, i) == Total([j \in 1..(i - 1) |-> frames[j].zlen])
Stored(bytes, frames, i) ==
  Cut(bytes, ZOff(frames, i), ZOff(frames, i) + frames[i].zlen)

(* readBody: the patch has the described size, every frame its hash.       *)
ReadBody(p) ==
  LET n == Len(p.frames)
      plain == [i \in 1..n |->
                  Decompress(p.frames[i].codec, Stored(p.body, p.frames, i), p.frames[i].len)]
  IN IF Len(p.body) # ZOff(p.frames, n + 1) THEN Error
     ELSE IF \E i \in 1..n : HashOf(Stored(p.body, p.frames, i)) # p.frames[i].b3 \/ ~plain[i].ok
          THEN Error
     ELSE Ok(FlattenSeq([i \in 1..n |-> plain[i].out]))

(***************************************************************************)
(* The Go-aware body: layout, the two table deltas, the digest of the      *)
(* prediction and the correction.                                          *)
(***************************************************************************)
(* encodeGoAMD64 runs the decoder's steps on the decoder's inputs.         *)
EncodeGoAMD64(old, new) ==
  LET lay == LayoutOf(old, new)
      s1a == plainDiff(Tables1a(old), Tables1a(new))
      s1b == plainDiff(predictTables(old, lay), Tables1b(new))
      pred == predictWhole(old, lay, Tables1a(new), Tables1b(new))
  IN Bytes(lay) \o U(Len(Tables1a(new))) \o Bytes(s1a) \o U(Len(Tables1b(new))) \o Bytes(s1b)
       \o Bytes(SumBytes(pred)) \o encodeCorrection(pred, new)

(* applyGoAMD64.  `skew` is what a build with another predictor puts in    *)
(* place of the first bytes of the prediction; empty for the same build.   *)
ApplyGoAMD64(old, body, newSize, skew) ==
  LET lay == ReadBytes(Rbuf(body))
      na == ReadN(lay, newSize)  s1a == ReadBytes(na)
      nb == ReadN(s1a, newSize)  s1b == ReadBytes(nb)
      sum == ReadBytes(s1b)
      t1a == plainPatch(Tables1a(old), s1a.v, na.v)
      t1b == plainPatch(predictTables(old, lay.v), s1b.v, nb.v)
      whole == predictWhole(old, lay.v, t1a.out, t1b.out)
      pred == skew \o Cut(whole, Len(skew), Len(whole))
  IN IF ~Supported(old) \/ ~sum.ok \/ ~LayoutOk(old, lay.v, na.v, nb.v) THEN Error
     ELSE IF ~t1a.ok \/ ~t1b.ok THEN Error
     ELSE IF SumBytes(pred) # sum.v THEN Error
     ELSE applyCorrection(pred, sum.b)

(***************************************************************************)
(* Encode and Apply.                                                       *)
(***************************************************************************)
TransformCap(max) == IF max <= 0 THEN MaxTransform ELSE Min({max, MaxTransform})

(* The Go-aware codec when both files qualify and the deployed decoder can *)
(* read it, the plain codec otherwise.                                     *)
UsesGo(old, new, opts) ==
  /\ ~opts.plainOnly /\ TransformCap(opts.maxTransform) >= TransformGoAMD64
  /\ Supported(old) /\ Supported(new)

Body(old, new, opts) ==
  IF UsesGo(old, new, opts) THEN EncodeGoAMD64(old, new) ELSE plainDiff(old, new)

StoredBytes(frames) == FlattenSeq([i \in 1..Len(frames) |-> frames[i].z])

(* What the Go-aware codec refuses once both files have qualified: its own *)
(* layout read back, tables of other lengths than the layout's, and a      *)
(* prediction of another length than the file.  Encode fails then: it      *)
(* falls back to the plain codec for an unsupported binary only.           *)
GoEncodes(old, new) ==
  LET lay == LayoutOf(old, new)  t1a == Tables1a(new)  t1b == Tables1b(new)
  IN /\ LayoutOk(old, lay, Len(t1a), Len(t1b))
     /\ Len(predictWhole(old, lay, t1a, t1b)) = Len(new)

Encode(old, new, opts) ==
  LET go == UsesGo(old, new, opts)
      frames == FrameBody(Body(old, new, opts))
  IN [ok |-> IF go THEN GoEncodes(old, new) ELSE Len(old) <= MaxPlainSize,
      patch |-> [magic |-> TRUE, transform |-> IF go THEN TransformGoAMD64 ELSE TransformPlain,
                 from |-> HashOf(old), to |-> HashOf(new),
                 oldSize |-> Len(old), newSize |-> Len(new), frames |-> frames,
                 body |-> StoredBytes(frames)]]

(***************************************************************************)
(* What the transforms and the compressors owe: on the bytes an encoder    *)
(* gave them, the decoder gets back what went in.                          *)
(***************************************************************************)
Lossless(c) ==
  LET z == zstdEncode(c)  r == brotliEncode(c, Quality(c)) IN
  /\ z \in Seq(Int) /\ zstdDecode(z) = Ok(c)
  /\ r \in Seq(Int) /\ brotliDecode(r) = Ok(c)
  /\ c # <<>> => z # <<>> /\ r # <<>>

LosslessFrames(b) ==
  b \in Seq(Int) /\ \A i \in 1..FrameCount(Len(b)) : Lossless(Chunk(b, i))

PlainInverts(old, new) ==
  /\ plainDiff(old, new) \in Seq(Int)
  /\ plainPatch(old, plainDiff(old, new), Len(new)) = Ok(new)

\* A length that is written fits a varint, and a table is part of its file.
GoInverts(old, new) ==
  LET lay == LayoutOf(old, new)
      t1a == Tables1a(new)  t1b == Tables1b(new)
      pred == predictWhole(old, lay, t1a, t1b)
      corr == encodeCorrection(pred, new)
  IN /\ {lay, t1a, t1b, pred, corr} \subseteq Seq(Int)
     /\ {Len(lay), Len(t1a), Len(plainDiff(Tables1a(old), t1a)), Len(t1b),
         Len(plainDiff(predictTables(old, lay), t1b)), Len(pred) + 1} \subseteq 0..(MaxVarint - 1)
     /\ Len(t1a) <= Len(new) /\ Len(t1b) <= Len(new)
     /\ LayoutOk(old, lay, Len(t1a), Len(t1b))
     /\ PlainInverts(Tables1a(old), t1a) /\ PlainInverts(predictTables(old, lay), t1b)
     /\ applyCorrection(pred, corr) = Ok(new)

Inverts(old, new, opts) ==
  /\ IF UsesGo(old, new, opts) THEN GoInverts(old, new) ELSE PlainInverts(old, new)
  /\ LosslessFrames(Body(old, new, opts))

\* Mutant: the output is not compared with the digest the patch promises.
ApplyUnverified(old, p, known, skew) ==
  LET body == ReadBody(p)
      out == IF p.transform = TransformPlain THEN plainPatch(old, body.out, p.newSize)
             ELSE ApplyGoAMD64(old, body.out, p.newSize, skew)
  IN IF ~ParseHeader(p) \/ Len(old) # p.oldSize \/ HashOf(old) # p.from \/ ~body.ok
     THEN [kind |-> "error", out |-> <<>>]
     ELSE IF p.transform > known THEN [kind |-> "unsupported", out |-> <<>>]
     ELSE IF ~out.ok THEN [kind |-> "error", out |-> <<>>]
     ELSE [kind |-> "ok", out |-> out.out]

\* Mutant: an unknown transform is one more corrupt patch.
ApplyUnknownIsError(old, p, known, skew) ==
  IF p.transform > known THEN [kind |-> "error", out |-> <<>>]
  ELSE ApplyUnverified(old, p, known, skew)

(* Apply, by a build that knows the transforms up to `known`.              *)
Apply(old, p, known, skew) ==
  LET body == ReadBody(p)
      out == IF p.transform = TransformPlain THEN plainPatch(old, body.out, p.newSize)
             ELSE ApplyGoAMD64(old, body.out, p.newSize, skew)
  IN IF ~ParseHeader(p) \/ Len(old) # p.oldSize \/ HashOf(old) # p.from \/ ~body.ok
     THEN [kind |-> "error", out |-> <<>>]
     ELSE IF p.transform > known THEN [kind |-> "unsupported", out |-> <<>>]
     ELSE IF ~out.ok \/ Len(out.out) # p.newSize \/ HashOf(out.out) # p.to
          THEN [kind |-> "error", out |-> <<>>]
     ELSE [kind |-> "ok", out |-> out.out]
=============================================================================
