----------------------------- MODULE BlobObject -----------------------------
(***************************************************************************)
(* The blob of a release, src/release/blob.go, and the ranged reads it is  *)
(* fetched with from each kind of store.                                   *)
(***************************************************************************)
EXTENDS Container

(* encodeBlob: independent frames, at their offset in the object.          *)
EncodeBlob(data) ==
  LET frames == FrameBody(data)
      object == StoredBytes(frames)
  IN [object |-> object, size |-> Len(object), hash |-> HashOf(data),
      frames |-> [i \in 1..Len(frames) |->
                    [off |-> frames[i].off, len |-> frames[i].len, zoff |-> ZOff(frames, i),
                     zlen |-> frames[i].zlen, codec |-> frames[i].codec, b3 |-> frames[i].b3]]]

PlainSize(blob) == Total([i \in 1..Len(blob.frames) |-> blob.frames[i].len])

(* Blob.Check: one contiguous file in one contiguous object.               *)
BlobCheck(blob) ==
  /\ \A i \in 1..Len(blob.frames) :
       /\ blob.frames[i].len \in 0..FrameSize /\ blob.frames[i].zlen >= 0
       /\ blob.frames[i].off = Total([j \in 1..(i - 1) |-> blob.frames[j].len])
       /\ blob.frames[i].zoff = ZOff(blob.frames, i)
  /\ ZOff(blob.frames, Len(blob.frames) + 1) = blob.size

(* DecodeFrame: the fetched bytes are the frame's, by length and by hash.  *)
DecodeFrame(f, z) ==
  IF Len(z) # f.zlen \/ HashOf(z) # f.b3 THEN Error ELSE Decompress(f.codec, z, f.len)

(***************************************************************************)
(* Get with an offset and a length, both 0 for the whole object.           *)
(***************************************************************************)
Whole(off, len) == off = 0 /\ len = 0

(* fileStore.Get and sshStore.Get: a window cut to the object.             *)
FileRange(object, off, len) ==
  LET at == Min({off, Len(object)})
      end == IF len > 0 THEN Min({at + len, Len(object)}) ELSE Len(object)
  IN Ok(Cut(object, at, end))

(* httpStore.Get of a server that honours Range: 416 past the end.         *)
HttpRange(object, off, len) ==
  IF ~Whole(off, len) /\ off >= Len(object) THEN Error ELSE FileRange(object, off, len)

(* httpStore.Get of a server that ignores Range: the client skips to the   *)
(* offset, which fails past the end, and reads no more than the length.    *)
HttpWhole(object, off, len) ==
  IF off > Len(object) THEN Error ELSE FileRange(object, off, len)

(* s3store.Get: no Range without a length, so the offset is then ignored.  *)
S3Range(object, off, len) ==
  IF len = 0 THEN Ok(object) ELSE HttpRange(object, off, len)

Backends == {"file", "ssh", "https", "httpsNoRange", "s3"}

Get(backend, object, off, len) ==
  CASE backend \in {"file", "ssh"} -> FileRange(object, off, len)
    [] backend = "https"           -> HttpRange(object, off, len)
    [] backend = "httpsNoRange"    -> HttpWhole(object, off, len)
    [] backend = "s3"              -> S3Range(object, off, len)

(* fetchFrame: at most one byte more than the frame is read.               *)
FetchFrame(backend, object, f) ==
  LET g == Get(backend, object, f.zoff, f.zlen) IN
  IF g.ok THEN DecodeFrame(f, Cut(g.out, 0, Min({f.zlen + 1, Len(g.out)}))) ELSE Error
=============================================================================
