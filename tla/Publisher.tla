------------------------------ MODULE Publisher ------------------------------
(***************************************************************************)
(* `go-binsync publish` (cmd/go-binsync/publish.go, cache.go): publishers  *)
(* on several machines, each with its own cache of releases, sharing one   *)
(* store.  The store holds the patches, the blobs and one mutable object,  *)
(* the pointer, replaced by compare-and-swap.  A publisher may die, or     *)
(* give up on a store error, before any of its steps.                      *)
(*                                                                         *)
(* Patch and blob bytes depend on the releases and on the version of the   *)
(* encoder that made them; an object is represented by that version, and   *)
(* so is the hash by which a pointer names it.                             *)
(***************************************************************************)
EXTENDS Naturals, Sequences

CONSTANTS
    Releases,       \* the releases, named by their hash
    None,           \* no object, no pointer, no edge
    Publishers,     \* machines that publish
    Versions,       \* encoder versions
    Encoder,        \* the version each machine runs
    BigPatches,     \* pairs <<from, to>> whose patch is not smaller than to's blob
    MaxChain,       \* release.MaxChain: edges a pointer lists
    CasAttempts,    \* casAttempts: tries at replacing the pointer
    CacheLimit,     \* cacheLimit: releases a cache keeps
    Clocks,         \* what a publisher's wall clock may say
    MaxRuns         \* bound: publish runs started on each kind of store

ASSUME PublisherAssumption ==
    /\ None \notin Releases /\ None \notin Versions
    /\ Encoder \in [Publishers -> Versions]
    /\ BigPatches \subseteq Releases \X Releases
    /\ MaxChain \in Nat \ {0} /\ CasAttempts \in Nat \ {0} /\ CacheLimit \in Nat \ {0}
    /\ Clocks \subseteq Nat /\ Clocks # {}
    /\ MaxRuns \in [BOOLEAN -> Nat]

Edge    == [from: Releases, to: Releases, ver: Versions]
Pointer == [seq: Nat, head: Releases, blobVer: Versions, chain: Seq(Edge)]

VARIABLES
    atomicCAS,  \* TRUE: a file or S3 store; FALSE: the ssh store
    pointer,    \* latest.json, or None in an empty store; its content is its ETag
    patches,    \* patches/<from>-<to>: the version of the object there, or None
    blobs,      \* blobs/<hash>: the version of the object there, or None
    cache,      \* each machine's cached releases, most recently used first
    pc,         \* where each machine's publish run is
    bin,        \* the release it publishes
    prev,       \* the pointer it read
    edge,       \* the edge it adds to the chain, or None
    attempt,    \* its attempt at the compare-and-swap
    runs,       \* publish runs started so far
    heads       \* history: the heads the pointer has named, newest first

store    == <<atomicCAS, pointer, patches, blobs>>
vars     == <<atomicCAS, pointer, patches, blobs, cache, pc, bin, prev, edge, attempt, runs, heads>>

Pcs == {"idle", "read", "finish", "putOldBlob", "patch", "pointer", "putPointer",
        "putBlob", "cache", "done"}

\* Every object, pointer and local variable has its type, and no cache exceeds its limit.
TypeOK ==
    /\ atomicCAS \in BOOLEAN
    /\ pointer \in Pointer \cup {None}
    /\ patches \in [Releases \X Releases -> Versions \cup {None}]
    /\ blobs \in [Releases -> Versions \cup {None}]
    /\ cache \in [Publishers -> Seq(Releases)]
    /\ pc \in [Publishers -> Pcs]
    /\ bin \in [Publishers -> Releases \cup {None}]
    /\ prev \in [Publishers -> Pointer \cup {None}]
    /\ edge \in [Publishers -> Edge \cup {None}]
    /\ attempt \in [Publishers -> Nat]
    /\ runs \in Nat
    /\ heads \in Seq(Releases)
    /\ \A p \in Publishers : Len(cache[p]) <= CacheLimit

Init ==
    /\ atomicCAS \in BOOLEAN
    /\ pointer = None
    /\ patches = [e \in Releases \X Releases |-> None]
    /\ blobs = [r \in Releases |-> None]
    /\ cache = [p \in Publishers |-> <<>>]
    /\ pc = [p \in Publishers |-> "idle"]
    /\ bin = [p \in Publishers |-> None]
    /\ prev = [p \in Publishers |-> None]
    /\ edge = [p \in Publishers |-> None]
    /\ attempt = [p \in Publishers |-> 0]
    /\ runs = 0
    /\ heads = <<>>

-----------------------------------------------------------------------------
(***************************************************************************)
(* The release cache: an LRU list of verified binaries.                    *)
(***************************************************************************)
Truncate(s, n) == SubSeq(s, 1, IF Len(s) < n THEN Len(s) ELSE n)

Cached(p, r) == \E i \in 1..Len(cache[p]) : cache[p][i] = r

\* The list without r, which is in it at most once.
Without(s, r) ==
    IF \A i \in 1..Len(s) : s[i] # r THEN s
    ELSE LET i == CHOOSE i \in 1..Len(s) : s[i] = r
         IN  SubSeq(s, 1, i - 1) \o SubSeq(s, i + 1, Len(s))

\* releaseCache.put (and the touch of a get that hits): r becomes the most
\* recent entry, evict drops the oldest beyond the limit.
CachePut(p, r) ==
    cache' = [cache EXCEPT ![p] = Truncate(<<r>> \o Without(cache[p], r), CacheLimit)]

CacheGet(p, r) == IF Cached(p, r) THEN CachePut(p, r) ELSE UNCHANGED cache

Goto(p, from, to) == pc[p] = from /\ pc' = [pc EXCEPT ![p] = to]

-----------------------------------------------------------------------------
(***************************************************************************)
(* publisher.run.  The ssh store's compare-and-swap is not atomic and its  *)
(* documentation (store/ssh.go, Put) leaves it to the user to publish from *)
(* one machine only.                                                       *)
(***************************************************************************)
Publish(p) ==
    /\ runs < MaxRuns[atomicCAS] /\ pc[p] \in {"idle", "done"}
    /\ atomicCAS \/ \A q \in Publishers \ {p} : bin[q] = None
    /\ runs' = runs + 1
    /\ \E r \in Releases : bin' = [bin EXCEPT ![p] = r]
    /\ pc' = [pc EXCEPT ![p] = "read"]
    /\ attempt' = [attempt EXCEPT ![p] = 1]
    /\ prev' = [prev EXCEPT ![p] = None] /\ edge' = [edge EXCEPT ![p] = None]
    /\ UNCHANGED <<store, cache, heads>>

ReadPointer(p) ==
    /\ Goto(p, "read", "finish")
    /\ prev' = [prev EXCEPT ![p] = pointer]
    /\ UNCHANGED <<store, cache, bin, edge, attempt, runs, heads>>

\* Where the run goes once the previous head's blob is dealt with.
AfterFinish(p) == IF prev[p] # None /\ prev[p].head = bin[p] THEN "done" ELSE "patch"

\* Mutant: only the cache is asked for the bytes, not the binary at hand.
CanFinishFromCache(p) ==
    LET head == prev[p].head
    IN  /\ prev[p] # None
        /\ blobs[head] = None
        /\ Cached(p, head)
        /\ Encoder[p] = prev[p].blobVer

\* finishBlob: the blob of the head is missing, this machine has the bytes, and
\* its encoder reproduces the frames the pointer names.
CanFinish(p) ==
    LET head == prev[p].head
    IN  /\ prev[p] # None
        /\ blobs[head] = None
        /\ head = bin[p] \/ Cached(p, head)
        /\ Encoder[p] = prev[p].blobVer

FinishBlob(p) ==
    /\ Goto(p, "finish", IF CanFinish(p) THEN "putOldBlob" ELSE AfterFinish(p))
    /\ IF prev[p] # None /\ prev[p].head # bin[p] /\ blobs[prev[p].head] = None
       THEN CacheGet(p, prev[p].head) ELSE UNCHANGED cache
    /\ UNCHANGED <<store, bin, prev, edge, attempt, runs, heads>>

PutOldBlob(p) ==
    /\ Goto(p, "putOldBlob", AfterFinish(p))
    /\ blobs' = [blobs EXCEPT ![prev[p].head] = Encoder[p]]
    /\ UNCHANGED <<atomicCAS, pointer, patches, cache, bin, prev, edge, attempt, runs, heads>>

\* oldBytes: the previous head's bytes, from the cache or from its blob.  What
\* was fetched is cached, and a cache that cannot be written is only logged.
OldBytes(p) ==
    LET from == prev[p].head
    IN  \/ Cached(p, from) /\ CachePut(p, from)
        \/ /\ ~Cached(p, from) /\ blobs[from] = prev[p].blobVer
           /\ CachePut(p, from) \/ UNCHANGED cache

\* putPatch with a nil edge: no previous head, its bytes out of reach (a fetch
\* of its blob can fail at any time), or a patch no smaller than the blob.
BlobOnly(p) ==
    /\ Goto(p, "patch", "pointer")
    /\ edge' = [edge EXCEPT ![p] = None]
    /\ \/ /\ prev[p] = None \/ ~Cached(p, prev[p].head)
          /\ UNCHANGED cache
       \/ /\ prev[p] # None
          /\ <<prev[p].head, bin[p]>> \in BigPatches
          /\ OldBytes(p)
    /\ UNCHANGED <<store, bin, prev, attempt, runs, heads>>

\* Mutant: the edge is announced without its patch.
PutPatchNoUpload(p) ==
    /\ prev[p] # None /\ Cached(p, prev[p].head)
    /\ edge' = [edge EXCEPT ![p] =
                    [from |-> prev[p].head, to |-> bin[p], ver |-> Encoder[p]]]
    /\ Goto(p, "patch", "pointer")
    /\ UNCHANGED <<store, cache, bin, prev, attempt, runs, heads>>

\* putPatch with an edge.
PutPatch(p) ==
    /\ prev[p] # None
    /\ LET from == prev[p].head
       IN  /\ <<from, bin[p]>> \notin BigPatches
           /\ OldBytes(p)
           /\ patches' = [patches EXCEPT ![<<from, bin[p]>>] = Encoder[p]]
           /\ edge' = [edge EXCEPT ![p] = [from |-> from, to |-> bin[p], ver |-> Encoder[p]]]
    /\ Goto(p, "patch", "pointer")
    /\ UNCHANGED <<atomicCAS, pointer, blobs, bin, prev, attempt, runs, heads>>

-----------------------------------------------------------------------------
(***************************************************************************)
(* putPointer: the new pointer, and its compare-and-swap.                  *)
(***************************************************************************)
\* Mutant: a clock equal to the previous seq is used as it is.
NewSeqNotGreater(p, clock) ==
    IF prev[p] # None /\ clock < prev[p].seq THEN prev[p].seq + 1 ELSE clock

NewSeq(p, clock) ==
    IF prev[p] # None /\ clock <= prev[p].seq THEN prev[p].seq + 1 ELSE clock

NewChain(p) ==
    IF prev[p] = None \/ edge[p] = None THEN <<>>
    ELSE Truncate(<<edge[p]>> \o prev[p].chain, MaxChain)

\* The pointer is replaced; the publisher may or may not learn of it.
ReplacePointer(p) ==
    /\ \E clock \in Clocks :
        pointer' = [seq |-> NewSeq(p, clock), head |-> bin[p],
                    blobVer |-> Encoder[p], chain |-> NewChain(p)]
    /\ heads' = <<bin[p]>> \o heads

WritePointer(p) ==
    /\ ReplacePointer(p)
    /\ pc' = [pc EXCEPT ![p] = "putBlob"]
    /\ UNCHANGED <<atomicCAS, patches, blobs, cache, bin, prev, edge, attempt, runs>>

\* Mutant: the retry reads the new pointer but keeps the edge from the old head.
RetryKeepsEdge(p) ==
    /\ attempt[p] < CasAttempts
    /\ prev' = [prev EXCEPT ![p] = pointer]
    /\ attempt' = [attempt EXCEPT ![p] = @ + 1]
    /\ UNCHANGED <<atomicCAS, patches, blobs, cache, pc, bin, edge, runs>>

\* The store answers ErrPreconditionFailed: read again, or give up.
Retry(p) ==
    /\ \/ /\ attempt[p] < CasAttempts
          /\ pc' = [pc EXCEPT ![p] = "read"]
          /\ attempt' = [attempt EXCEPT ![p] = @ + 1]
       \/ /\ attempt[p] >= CasAttempts
          /\ pc' = [pc EXCEPT ![p] = "idle"]
          /\ UNCHANGED attempt
    /\ UNCHANGED <<atomicCAS, patches, blobs, cache, bin, prev, edge, runs>>

\* The check and the write: one step under the file store's lock or S3's
\* If-Match, a read and a later unconditional rename over ssh.
CompareAndSwap(p) ==
    /\ pc[p] = "pointer"
    /\ \/ pointer # prev[p] /\ Retry(p) /\ UNCHANGED <<pointer, heads>>
       \/ pointer = prev[p] /\ atomicCAS /\ WritePointer(p)
       \/ /\ pointer = prev[p] /\ ~atomicCAS
          /\ pc' = [pc EXCEPT ![p] = "putPointer"]
          /\ UNCHANGED <<store, cache, bin, prev, edge, attempt, runs, heads>>

\* The conditional write took effect but its answer was lost, and the client's
\* retransmission is refused: 412 for a pointer that is this publisher's own.
LostAnswer(p) ==
    /\ pc[p] = "pointer" /\ pointer = prev[p] /\ atomicCAS
    /\ ReplacePointer(p) /\ Retry(p)

SshRename(p) == pc[p] = "putPointer" /\ WritePointer(p)

PutBlob(p) ==
    /\ Goto(p, "putBlob", "cache")
    /\ blobs' = [blobs EXCEPT ![bin[p]] = Encoder[p]]
    /\ UNCHANGED <<atomicCAS, pointer, patches, cache, bin, prev, edge, attempt, runs, heads>>

\* A cache that cannot be written is only logged.
CacheBin(p) ==
    /\ Goto(p, "cache", "done")
    /\ CachePut(p, bin[p]) \/ UNCHANGED cache
    /\ UNCHANGED <<store, bin, prev, edge, attempt, runs, heads>>

\* The process dies, or a store operation fails and run returns the error.
Abort(p) ==
    /\ pc[p] \notin {"idle", "done"}
    /\ pc' = [pc EXCEPT ![p] = "idle"]
    /\ UNCHANGED <<store, cache, bin, prev, edge, attempt, runs, heads>>

Step(p) ==
    \/ ReadPointer(p) \/ FinishBlob(p) \/ PutOldBlob(p) \/ BlobOnly(p) \/ PutPatch(p)
    \/ CompareAndSwap(p) \/ LostAnswer(p) \/ SshRename(p) \/ PutBlob(p) \/ CacheBin(p)

Next == \E p \in Publishers : Publish(p) \/ Step(p) \/ Abort(p)

Spec == Init /\ [][Next]_vars

-----------------------------------------------------------------------------
(***************************************************************************)
(* A target ignores a pointer whose seq did not grow, so every replacement *)
(* of the pointer raises seq, whatever the publishers' clocks say          *)
(* (putPointer).                                                           *)
(***************************************************************************)
SeqGrows ==
    [][pointer' # pointer /\ pointer # None => pointer'.seq > pointer.seq]_vars

(***************************************************************************)
(* DESIGN 4.2, comment on putPointer: "two publishers cannot fork the      *)
(* chain".  The chain is the recent history of the pointer: its k-th edge  *)
(* leads to the head of k pointers ago from the one before it, and it      *)
(* never lists more than MaxChain edges, so ParsePointer accepts it.       *)
(***************************************************************************)
ChainIsHistory ==
    pointer # None =>
        /\ Len(pointer.chain) <= MaxChain
        /\ Len(pointer.chain) < Len(heads)
        /\ pointer.head = heads[1]
        /\ \A k \in 1..Len(pointer.chain) :
              /\ pointer.chain[k].to = heads[k]
              /\ pointer.chain[k].from = heads[k + 1]

(***************************************************************************)
(* Comment in MakePlan: "only one edge can match, because the chain is a   *)
(* linked list of distinct releases".                                      *)
(***************************************************************************)
OneEdgeMatches ==
    pointer # None =>
        \A i, j \in 1..Len(pointer.chain) :
            pointer.chain[i].from = pointer.chain[j].from => i = j

(***************************************************************************)
(* README guarantee 3, "a pointer always names an existing patch", and     *)
(* DESIGN 4.3, patches are immutable: the object under an edge's key is    *)
(* the one whose hash the pointer carries.                                 *)
(***************************************************************************)
EdgesFetchable ==
    pointer # None =>
        \A k \in 1..Len(pointer.chain) :
            LET e == pointer.chain[k] IN patches[<<e.from, e.to>>] = e.ver

(***************************************************************************)
(* A publish that reported success has left the blob of its release in the *)
(* store, also when it found the release published by another publisher    *)
(* that died before its own upload (finishBlob).                           *)
(***************************************************************************)
ReturnedHasBlob ==
    \A p \in Publishers : pc[p] = "done" => blobs[bin[p]] # None

(***************************************************************************)
(* DESIGN 4.4: "Patch-only publishes are never left permanently blob-less: *)
(* publish treats a missing blob for the current head as work to finish    *)
(* first on its next run".  A run that is past finishBlob has left a blob  *)
(* for the head it read.                                                   *)
(***************************************************************************)
NeverBlobless ==
    \A p \in Publishers :
        pc[p] \in {"patch", "pointer", "putPointer", "putBlob"} /\ prev[p] # None
            => blobs[prev[p].head] # None
=============================================================================
