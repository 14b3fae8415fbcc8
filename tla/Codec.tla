------------------------------- MODULE Codec -------------------------------
(***************************************************************************)
(* The codec at work.  A patch is encoded on one machine, stored, and      *)
(* applied on another: its bytes may have changed on the way, the other    *)
(* machine may hold another file, run a build that knows fewer transforms, *)
(* or one whose predictor differs.  A blob is encoded, stored, and fetched *)
(* frame by frame by the parallel workers of cmd/go-binsync/blob.go.       *)
(***************************************************************************)
EXTENDS BlobObject

CONSTANTS
  PatchJobs,    \* [old, new, opts]: the pairs of files to encode
  BlobJobs,     \* [data, backend]: the files to store and from where
  Others,       \* files a target may hold instead of the patch's old one
  BlobParallel, \* blobParallel: requests in flight
  MaxFaults     \* bound: requests that fail

ASSUME CodecAssumption ==
  /\ FrameSize \in Nat \ {0} /\ MaxVarint \in Nat /\ MaxTransform \in Nat
  /\ BlobParallel \in Nat \ {0} /\ MaxFaults \in Nat
  /\ \A j \in PatchJobs : /\ j.old \in Seq(Int) /\ j.new \in Seq(Int)
                          /\ j.opts.maxTransform \in Int
  /\ \A j \in BlobJobs : j.backend \in Backends

\* The transforms and the compressors do their part on these jobs.
ASSUME CodecInverts ==
  /\ \A j \in PatchJobs :
       Encode(j.old, j.new, j.opts).ok => Inverts(j.old, j.new, j.opts)
  /\ \A j \in BlobJobs : LosslessFrames(j.data)

Workers == 1..BlobParallel
None == "none"

VARIABLES
  job,       \* the job, with its kind
  stage,     \* "start", then "stored" and "applied", "fetching" and "fetched", or "refused"
  patch,     \* the stored patch, or None
  blob,      \* the stored blob and its frame table, or None
  damaged,   \* the stored bytes are not the encoder's
  target,    \* what applied the patch: base, known transforms, skew
  result,    \* "ok" with the output, "unsupported" or "error"
  worker,    \* the frame each worker of fetchBlob has: 0 idle, -1 returned
  next,      \* the next frame the feeder hands out
  out,       \* the buffer the frames are copied into
  cancelled, \* fetchBlob's context is done
  errs,      \* errors in the channel
  faults     \* failing requests left

vars == <<job, stage, patch, blob, damaged, target, result,
          worker, next, out, cancelled, errs, faults>>
fetch == <<worker, next, out, cancelled, errs, faults>>

CodecInit ==
  /\ \/ \E j \in PatchJobs : job = [kind |-> "patch", old |-> j.old, new |-> j.new, opts |-> j.opts]
     \/ \E j \in BlobJobs : job = [kind |-> "blob", data |-> j.data, backend |-> j.backend]
  /\ stage = "start" /\ patch = None /\ blob = None /\ damaged = FALSE
  /\ target = None /\ result = None
  /\ worker = [w \in Workers |-> 0] /\ next = 1 /\ out = <<>>
  /\ cancelled = FALSE /\ errs = 0 /\ faults = MaxFaults

(***************************************************************************)
(* Patches.                                                                *)
(***************************************************************************)
EncodePatch ==
  /\ stage = "start" /\ job.kind = "patch"
  /\ LET e == Encode(job.old, job.new, job.opts)
     IN /\ stage' = IF e.ok THEN "stored" ELSE "refused"
        /\ patch' = IF e.ok THEN e.patch ELSE None
  /\ UNCHANGED <<job, blob, damaged, target, result, fetch>>

Flip(v) == IF v = 0 THEN 1 ELSE v - 1

\* The frame table of a body that was changed along with its hashes.
Rehashed(p, body) ==
  [p EXCEPT !.body = body,
            !.frames = [i \in 1..Len(p.frames) |->
               [p.frames[i] EXCEPT !.b3 = HashOf(Stored(body, p.frames, i))]]]

\* What may be in the store in place of a patch: one field or byte is another.
Damages(p) ==
  LET flips == {[p.body EXCEPT ![i] = Flip(@)] : i \in 1..Len(p.body)}
  IN {[p EXCEPT !.body = b] : b \in flips \cup {Cut(p.body, 0, Len(p.body) - 1)}}
       \cup {Rehashed(p, b) : b \in flips}
       \cup {[p EXCEPT !.transform = t] : t \in (0..2) \ {p.transform}}
       \cup {[p EXCEPT !.newSize = Flip(@)], [p EXCEPT !.to = HashOf(job.old)],
             [p EXCEPT !.magic = FALSE], [p EXCEPT !.frames[1].codec = (@ + 1) % 4],
             [p EXCEPT !.frames[1].len = Flip(@)]}

DamagePatch ==
  /\ stage = "stored" /\ ~damaged
  /\ \E p \in Damages(patch) : p # patch /\ patch' = p
  /\ damaged' = TRUE
  /\ UNCHANGED <<job, stage, blob, target, result, fetch>>

(* delta.Apply in the agent's applyChain, or by `go-binsync patch`, which  *)
(* writes its file only when there is no error.                            *)
ApplyPatch ==
  /\ stage = "stored"
  /\ \E base \in {job.old} \cup Others, known \in 0..MaxTransform, skew \in {<<>>, <<7>>} :
       /\ skew # <<>> => patch.transform = TransformGoAMD64 /\ known = MaxTransform /\ patch.newSize > 0
       /\ base # job.old \/ damaged => known = MaxTransform /\ skew = <<>>
       /\ target' = [base |-> base, known |-> known, skew |-> skew]
       /\ result' = Apply(base, patch, known, skew)
  /\ stage' = "applied"
  /\ UNCHANGED <<job, patch, blob, damaged, fetch>>

(***************************************************************************)
(* Blobs.                                                                  *)
(***************************************************************************)
StoreBlob ==
  /\ stage = "start" /\ job.kind = "blob"
  /\ blob' = EncodeBlob(job.data)
  /\ stage' = IF BlobCheck(blob') THEN "fetching" ELSE "refused"
  /\ out' = Zeros(PlainSize(blob'))
  /\ UNCHANGED <<job, patch, damaged, target, result, worker, next, cancelled, errs, faults>>

DamageBlob ==
  /\ stage = "fetching" /\ ~damaged /\ next = 1 /\ blob.object # <<>>
  /\ \E o \in {[blob.object EXCEPT ![i] = Flip(@)] : i \in 1..blob.size}
              \cup {Cut(blob.object, 0, blob.size - 1)} :
       blob' = [blob EXCEPT !.object = o]
  /\ damaged' = TRUE
  /\ UNCHANGED <<job, stage, patch, target, result, fetch>>

Fetching == stage = "fetching"
Rest == <<job, stage, patch, blob, damaged, target, result>>

\* The feeder hands a frame to a waiting worker; min(blobParallel, frames) of them run.
Feed(w) ==
  /\ Fetching /\ next <= Len(blob.frames) /\ w <= Len(blob.frames) /\ worker[w] = 0
  /\ worker' = [worker EXCEPT ![w] = next]
  /\ next' = next + 1
  /\ UNCHANGED <<Rest, out, cancelled, errs, faults>>

\* The feeder's other case: once the context is done a frame may be dropped.
SkipFrame ==
  /\ Fetching /\ cancelled /\ next <= Len(blob.frames)
  /\ next' = next + 1
  /\ UNCHANGED <<Rest, worker, out, cancelled, errs, faults>>

FrameArrives(w) ==
  LET f == blob.frames[worker[w]]
      d == FetchFrame(job.backend, blob.object, f)
  IN /\ Fetching /\ worker[w] > 0 /\ d.ok
     /\ out' = Splice(out, f.off, d.out)
     /\ worker' = [worker EXCEPT ![w] = 0]
     /\ UNCHANGED <<Rest, next, cancelled, errs, faults>>

\* A bad frame, a failing store, or a request cut off by the cancelled context.
FrameFails(w) ==
  /\ Fetching /\ worker[w] > 0
  /\ \/ /\ cancelled \/ ~FetchFrame(job.backend, blob.object, blob.frames[worker[w]]).ok
        /\ UNCHANGED faults
     \/ faults > 0 /\ faults' = faults - 1
  /\ errs' = errs + 1 /\ cancelled' = TRUE
  /\ worker' = [worker EXCEPT ![w] = -1]
  /\ UNCHANGED <<Rest, next, out>>

\* The publisher's own context ends (SIGINT).
Interrupt ==
  /\ Fetching /\ ~cancelled /\ faults > 0
  /\ cancelled' = TRUE /\ faults' = 0
  /\ UNCHANGED <<Rest, worker, next, out, errs>>

\* Mutant: no error in the channel is taken for success.
ReturnUnverified ==
  IF errs > 0 THEN [kind |-> "error", out |-> <<>>] ELSE [kind |-> "ok", out |-> out]

\* fetchBlob's result once every worker has returned.
Returned ==
  IF errs > 0 \/ HashOf(out) # blob.hash
  THEN [kind |-> "error", out |-> <<>>] ELSE [kind |-> "ok", out |-> out]

FetchReturns ==
  /\ Fetching /\ next > Len(blob.frames) /\ \A w \in Workers : worker[w] <= 0
  /\ result' = Returned
  /\ stage' = "fetched"
  /\ UNCHANGED <<job, patch, blob, damaged, target, fetch>>

FetchNext ==
  \/ \E w \in Workers : Feed(w) \/ FrameArrives(w) \/ FrameFails(w)
  \/ SkipFrame \/ Interrupt \/ FetchReturns

CodecNext == EncodePatch \/ DamagePatch \/ ApplyPatch \/ StoreBlob \/ DamageBlob \/ FetchNext

CodecSpec == CodecInit /\ [][CodecNext]_vars

-----------------------------------------------------------------------------
(***************************************************************************)
(* delta.Encode: "The returned patch always reproduces new exactly".  An   *)
(* unchanged patch, applied to the file it was made from by a build that   *)
(* implements its transform and predicts alike, gives the new file, for    *)
(* both codecs, empty files and bodies that end on a frame boundary.       *)
(***************************************************************************)
RoundTrip ==
  stage = "applied" /\ ~damaged /\ target.base = job.old /\ target.skew = <<>>
    /\ target.known >= patch.transform
    => result = [kind |-> "ok", out |-> job.new]

(***************************************************************************)
(* delta.Apply: "the output is compared with the release hash before a     *)
(* byte reaches w".  Whatever is in the store and at the target, what is   *)
(* delivered is the new release or nothing.                                *)
(***************************************************************************)
NeverWrong == stage = "applied" /\ result.kind = "ok" => result.out = job.new

(***************************************************************************)
(* ErrUnsupportedTransform: "The caller should fetch the blob instead".  A *)
(* target whose build is too old for a sound patch gets that error, the    *)
(* one the agent answers with the blob, and gets it in no other case, so   *)
(* that a damaged patch is never taken for a newer format unless its       *)
(* transform byte is what changed.                                         *)
(***************************************************************************)
OldBuildTakesBlob ==
  stage = "applied" =>
    /\ ~damaged /\ target.base = job.old /\ target.known < patch.transform
         => result.kind = "unsupported"
    /\ result.kind = "unsupported" => target.known < patch.transform

(***************************************************************************)
(* fetchBlob: a blob it returns is the release, although its workers stop  *)
(* at the first error and the feeder drops frames once the context is      *)
(* done; and an undisturbed fetch of sound bytes succeeds, from each kind  *)
(* of store and whatever the number of frames.                             *)
(***************************************************************************)
FetchedWhole ==
  stage = "fetched" =>
    /\ result.kind = "ok" => result.out = job.data
    /\ ~damaged /\ faults = MaxFaults => result.kind = "ok"

(***************************************************************************)
(* go127.go, applyGoAMD64: "encoder and decoder disagree, fetch the blob", *)
(* and README guarantee 3: a target that cannot read a patch takes the     *)
(* blob.  The error of a build whose predictor differs is the one the      *)
(* agent answers with the blob.                                            *)
(***************************************************************************)
DisagreementTakesBlob ==
  stage = "applied" /\ ~damaged /\ target.base = job.old /\ target.skew # <<>>
    => result.kind = "unsupported"
=============================================================================
