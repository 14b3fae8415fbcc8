----------------------------- MODULE FileStore -----------------------------
(***************************************************************************)
(* The directory behind a file:// store, and behind the ssh:// store that  *)
(* publishes into it: src/store/file.go and src/store/ssh.go.              *)
(*                                                                         *)
(* A file is an inode: the version its bytes are of, how many of its Size  *)
(* chunks it holds, its modification time and whether its bytes are synced.*)
(* A key names inodes: `entry[k]` is the durable directory entry followed  *)
(* by the entries renamed over it since the directory was last synced, so  *)
(* its last element is what open() finds.  Every version has the same      *)
(* size (the worst case for an ETag), and time is a coarse clock.          *)
(*                                                                         *)
(* Actors are processes: all of them Get, the writers also Put.  A file:// *)
(* writer swaps the pointer under the lock; the blob is written without    *)
(* one, by ssh:// writers too.                                             *)
(***************************************************************************)
EXTENDS Naturals, Sequences, FiniteSets

CONSTANTS
  Writers,     \* publishers through file://
  SshWriters,  \* publishers through ssh://
  BlobWriters, \* the publishers that put the blob
  Casts,       \* the sets of processes a behaviour starts from (bound)
  Pollers,     \* targets polling through file://
  Inodes,      \* how many files the directory can hold (bound)
  Size,        \* chunks of an object
  MaxClock,    \* ticks of the coarse clock (bound)
  MaxPuts,     \* pointers a writer puts (bound)
  MaxBlobs,    \* blobs put (bound)
  MaxLosses,   \* power losses (bound)
  InodeReuse,  \* a freed inode is given again within one tick
  NoFile, None

Actors == Writers \cup SshWriters \cup Pollers
Keys == {"ptr", "blob"}
Blob == "blob"                          \* the one content of the blob's key
Versions == (Writers \X (1..MaxPuts)) \cup {Blob}

ASSUME StoreAssumption ==
  /\ Inodes \subseteq Nat
  /\ Casts \subseteq SUBSET Actors
  /\ BlobWriters \subseteq Writers \cup SshWriters
  /\ Size \in Nat \ {0}
  /\ MaxClock \in Nat /\ MaxPuts \in Nat /\ MaxBlobs \in Nat /\ MaxLosses \in Nat
  /\ InodeReuse \in BOOLEAN
  /\ NoFile \notin Inodes
  /\ None \notin Writers \cup Versions \cup (Nat \X Inodes)

(* A process uses the store through one URL, for one purpose.              *)
ASSUME RolesDisjoint ==
  /\ Writers \cap SshWriters = {}
  /\ Pollers \cap (Writers \cup SshWriters) = {}

VARIABLES
  cast,     \* the processes of this behaviour
  files,    \* [Inodes -> file record]
  entry,    \* [Keys -> sequence of directory entries], durable one first
  lock,     \* the holder of the flock on .go-binsync.lock
  clock,
  proc,     \* [Actors -> the state of a Get or a Put]
  puts,     \* pointers put so far by each writer
  blobs,    \* blobs put so far
  acked,    \* pointers whose Put returned nil
  losses

vars == <<cast, files, entry, lock, clock, proc, puts, blobs, acked, losses>>

Free == [ver |-> None, len |-> 0, mtime |-> 0, synced |-> FALSE, torn |-> FALSE]

Idle == [pc |-> "idle", key |-> "ptr", fd |-> NoFile, ver |-> None,
         got |-> <<>>, tag |-> None, base |-> None, tmp |-> NoFile, new |-> None]

Current(k) == entry[k][Len(entry[k])]
VersionOf(i) == IF i = NoFile THEN None ELSE files[i].ver

StoreInit ==
  /\ cast \in Casts
  /\ files = [i \in Inodes |-> Free]
  /\ entry = [k \in Keys |-> <<NoFile>>]
  /\ lock = None
  /\ clock = 0
  /\ proc = [a \in Actors |-> Idle]
  /\ puts = [w \in Writers |-> 0]
  /\ blobs = 0
  /\ acked = {}
  /\ losses = 0

Set(a, r) == proc' = [proc EXCEPT ![a] = r]
Goto(a, pc) == Set(a, [proc[a] EXCEPT !.pc = pc])

(* fileETag: size, mtime and inode; the size is the same for all.          *)
\* Mutant: without the inode, as on a platform whose stat has none.
FileETagNoInode(i) == <<files[i].mtime>>
FileETag(i) == <<files[i].mtime, i>>

(***************************************************************************)
(* Get: open, fstat, compare IfNoneMatch, read.                            *)
(***************************************************************************)
Open(a) ==
  /\ proc[a].pc = "idle"
  /\ Current("ptr") # NoFile
  /\ Set(a, [proc[a] EXCEPT !.pc = "opened", !.fd = Current("ptr"),
                            !.base = VersionOf(Current("ptr"))])
  /\ UNCHANGED <<files, entry, lock, clock, puts, acked, losses, blobs>>

(* ErrNotFound: a publisher goes on with the empty tag, "must not exist".  *)
NotFound(w) ==
  /\ proc[w].pc = "idle"
  /\ Current("ptr") = NoFile
  /\ Set(w, [Idle EXCEPT !.pc = "read"])
  /\ UNCHANGED <<files, entry, lock, clock, puts, acked, losses, blobs>>

(* GetAll: a publisher reads the pointer unconditionally and to its end.   *)
GetAll(w) ==
  LET f == files[proc[w].fd] IN
  /\ proc[w].pc = "opened"
  /\ Set(w, [proc[w] EXCEPT !.pc = "read", !.tag = FileETag(proc[w].fd), !.ver = f.ver,
                            !.got = [n \in 1..f.len |-> f.ver]])
  /\ UNCHANGED <<files, entry, lock, clock, puts, acked, losses, blobs>>

(* Pollers pass the tag of the version they hold as IfNoneMatch.           *)
NotModified(a) ==
  /\ proc[a].pc = "opened"
  /\ proc[a].tag = FileETag(proc[a].fd)
  /\ Set(a, [proc[a] EXCEPT !.pc = "notmodified"])
  /\ UNCHANGED <<files, entry, lock, clock, puts, acked, losses, blobs>>

Stat(a) ==
  /\ proc[a].pc = "opened"
  /\ proc[a].tag # FileETag(proc[a].fd)
  /\ Set(a, [proc[a] EXCEPT !.pc = "reading", !.tag = FileETag(proc[a].fd)])
  /\ UNCHANGED <<files, entry, lock, clock, puts, acked, losses, blobs>>

ReadChunk(a) ==
  LET f == files[proc[a].fd] IN
  /\ proc[a].pc = "reading"
  /\ IF Len(proc[a].got) < f.len
     THEN Set(a, [proc[a] EXCEPT !.got = Append(@, f.ver)])
     ELSE Set(a, [proc[a] EXCEPT !.pc = "read", !.ver = f.ver])
  /\ UNCHANGED <<files, entry, lock, clock, puts, acked, losses, blobs>>

(* The body is closed; a poller keeps the tag and the version it read.     *)
CloseObject(a) ==
  /\ proc[a].pc \in {"read", "notmodified"}
  /\ Set(a, [proc[a] EXCEPT !.pc = "idle", !.fd = NoFile, !.got = <<>>, !.base = None])
  /\ UNCHANGED <<files, entry, lock, clock, puts, acked, losses, blobs>>

(***************************************************************************)
(* Put.                                                                    *)
(***************************************************************************)
\* Mutant: the lock is not exclusive.
FlockShared(w) ==
  /\ proc[w].pc = "read"
  /\ lock' = w
  /\ Set(w, [proc[w] EXCEPT !.pc = "locked", !.fd = NoFile, !.got = <<>>])
  /\ UNCHANGED <<files, entry, clock, puts, acked, losses, blobs>>

(* lock: LOCK_EX|LOCK_NB, retried until it is free.                        *)
Flock(w) ==
  /\ proc[w].pc = "read"
  /\ lock = None
  /\ lock' = w
  /\ Set(w, [proc[w] EXCEPT !.pc = "locked", !.fd = NoFile, !.got = <<>>])
  /\ UNCHANGED <<files, entry, clock, puts, acked, losses, blobs>>

(* The context ends while the lock is contended.                           *)
LockCancelled(w) ==
  /\ proc[w].pc = "read"
  /\ lock # None
  /\ Set(w, Idle)
  /\ UNCHANGED <<files, entry, lock, clock, puts, acked, losses, blobs>>

CurrentTag == IF Current("ptr") = NoFile THEN None ELSE FileETag(Current("ptr"))

PreconditionFailed(w) ==
  /\ proc[w].pc = "locked"
  /\ CurrentTag # proc[w].tag
  /\ lock' = None
  /\ Set(w, Idle)
  /\ UNCHANGED <<files, entry, clock, puts, acked, losses, blobs>>

Matched(w) ==
  /\ proc[w].pc = "locked"
  /\ CurrentTag = proc[w].tag
  /\ puts[w] < MaxPuts
  /\ Set(w, [proc[w] EXCEPT !.pc = "create", !.new = <<w, puts[w] + 1>>])
  /\ UNCHANGED <<files, entry, lock, clock, puts, acked, losses, blobs>>

(* An object that is not the pointer is put unconditionally, unlocked.     *)
PutBlob(w) ==
  /\ proc[w].pc = "idle"
  /\ blobs < MaxBlobs
  /\ blobs' = blobs + 1
  /\ Set(w, [Idle EXCEPT !.pc = "create", !.key = "blob", !.new = Blob])
  /\ UNCHANGED <<files, entry, lock, clock, puts, acked, losses>>

InUse(i) ==
  \/ \E k \in Keys : \E n \in 1..Len(entry[k]) : entry[k][n] = i
  \/ \E a \in Actors : proc[a].fd = i \/ proc[a].tmp = i

(* A file nobody names or has open is freed and its inode can be given     *)
(* again; a file system gives the lowest free one.                         *)
Gone(i) == ~InUse(i) /\ (InodeReuse \/ files[i].mtime < clock \/ files[i].ver = None)

\* Mutant: writing the object under its final name.
CreateInPlace(w) ==
  /\ proc[w].pc = "create"
  /\ \E i \in Inodes :
       /\ IF Current(proc[w].key) = NoFile THEN Gone(i) ELSE i = Current(proc[w].key)
       /\ files' = [files EXCEPT ![i] = [Free EXCEPT !.ver = proc[w].new, !.mtime = clock]]
       /\ entry' = [entry EXCEPT ![proc[w].key] = <<i>>]
       /\ Set(w, [proc[w] EXCEPT !.pc = "copy", !.tmp = i])
  /\ UNCHANGED <<lock, clock, puts, acked, losses, blobs>>

(* writeTemp: os.CreateTemp beside the destination.                        *)
CreateTemp(w) ==
  /\ proc[w].pc = "create"
  /\ \E i \in Inodes :
       /\ Gone(i) /\ \A j \in Inodes : Gone(j) => i <= j
       /\ files' = [files EXCEPT ![i] = [Free EXCEPT !.ver = proc[w].new, !.mtime = clock]]
       /\ Set(w, [proc[w] EXCEPT !.pc = "copy", !.tmp = i])
  /\ UNCHANGED <<entry, lock, clock, puts, acked, losses, blobs>>

WriteChunk(w) ==
  LET i == proc[w].tmp IN
  /\ proc[w].pc = "copy"
  /\ files[i].len < Size
  /\ files' = [files EXCEPT ![i].len = @ + 1, ![i].mtime = clock]
  /\ UNCHANGED <<entry, lock, clock, proc, puts, acked, losses, blobs>>

(* f.Sync and f.Close.                                                     *)
SyncTemp(w) ==
  /\ proc[w].pc = "copy"
  /\ files[proc[w].tmp].len = Size
  /\ files' = [files EXCEPT ![proc[w].tmp].synced = TRUE]
  /\ Goto(w, "rename")
  /\ UNCHANGED <<entry, lock, clock, puts, acked, losses, blobs>>

Removed(i) == IF i = NoFile THEN files
              ELSE [files EXCEPT ![i] = Free]

Unlocked(w) == IF lock = w THEN None ELSE lock

\* Mutant: the error path returns without the deferred unlock.
WriteFailsLocked(w) ==
  /\ proc[w].pc \in {"create", "copy", "rename"}
  /\ Set(w, Idle)
  /\ files' = Removed(proc[w].tmp)
  /\ UNCHANGED <<entry, lock, clock, puts, acked, losses, blobs>>

(* The copy, chmod, sync or close fails, or the rename does: the temporary *)
(* file is removed and Put returns the error.                              *)
WriteFails(w) ==
  /\ proc[w].pc \in {"create", "copy", "rename"}
  /\ lock' = Unlocked(w)
  /\ Set(w, Idle)
  /\ files' = Removed(proc[w].tmp)
  /\ UNCHANGED <<entry, clock, puts, acked, losses, blobs>>

Rename(w) ==
  LET k == proc[w].key IN
  /\ proc[w].pc = "rename"
  /\ entry' = [entry EXCEPT ![k] = Append(@, proc[w].tmp)]
  /\ Set(w, [proc[w] EXCEPT !.pc = "fsync", !.tmp = NoFile])
  /\ puts' = IF k = "ptr" THEN [puts EXCEPT ![w] = @ + 1] ELSE puts
  /\ UNCHANGED <<files, lock, clock, acked, losses, blobs>>

(* fsyncDir: every rename in the object's own directory so far is durable; *)
(* the pointer is in the root and the blobs in a directory of theirs.      *)
FsyncDir(w) ==
  LET k == proc[w].key IN
  /\ proc[w].pc = "fsync"
  /\ entry' = [entry EXCEPT ![k] = <<Current(k)>>]
  /\ Goto(w, "return")
  /\ UNCHANGED <<files, lock, clock, puts, acked, losses, blobs>>

(* The rename happened, the sync failed: Put returns an error.             *)
FsyncFails(w) ==
  /\ proc[w].pc = "fsync"
  /\ lock' = Unlocked(w)
  /\ Set(w, Idle)
  /\ UNCHANGED <<files, entry, clock, puts, acked, losses, blobs>>

(* Put returns nil and the deferred unlock runs.                           *)
PutReturns(w) ==
  /\ proc[w].pc = "return"
  /\ acked' = IF proc[w].key = "ptr" THEN acked \cup {proc[w].new} ELSE acked
  /\ lock' = Unlocked(w)
  /\ Set(w, Idle)
  /\ UNCHANGED <<files, entry, clock, puts, losses, blobs>>

(***************************************************************************)
(* Put over ssh: one remote command, `cat > tmp && [ size ] && mv || rm`.  *)
(***************************************************************************)
(* `cat` copies until it sees the end of its input: the object's, or an    *)
(* earlier one when the channel is cut.  Nothing is synced.                *)
SshCat(w) ==
  /\ proc[w].pc = "create"
  /\ \E i \in Inodes, n \in 0..Size :
       /\ Gone(i) /\ \A j \in Inodes : Gone(j) => i <= j
       /\ files' = [files EXCEPT ![i] = [Free EXCEPT !.ver = Blob, !.len = n, !.mtime = clock]]
       /\ Set(w, [proc[w] EXCEPT !.pc = "rename", !.tmp = i])
  /\ UNCHANGED <<entry, lock, clock, puts, acked, losses, blobs>>

(* The temporary file is measured: a whole one is renamed, a short one     *)
(* removed.                                                                *)
SshMove(w) ==
  /\ proc[w].pc = "rename"
  /\ IF files[proc[w].tmp].len = Size
     THEN entry' = [entry EXCEPT !["blob"] = Append(@, proc[w].tmp)] /\ UNCHANGED files
     ELSE files' = Removed(proc[w].tmp) /\ UNCHANGED entry
  /\ Set(w, Idle)
  /\ UNCHANGED <<lock, clock, puts, acked, losses, blobs>>

(***************************************************************************)
(* The environment.                                                        *)
(***************************************************************************)
(* A process dies, or the ssh session is closed under the remote shell:    *)
(* the kernel drops its lock.  Its temporary file stays behind until an    *)
(* operator removes it; nobody opens it, so its inode counts as free.      *)
ProcessDies(a) ==
  /\ proc[a].pc # "idle"
  /\ lock' = Unlocked(a)
  /\ Set(a, Idle)
  /\ files' = Removed(proc[a].tmp)
  /\ UNCHANGED <<entry, clock, puts, acked, losses, blobs>>

(* Unsynced renames may be undone, latest first; unsynced bytes are cut.   *)
PowerLoss ==
  /\ losses < MaxLosses
  /\ losses' = losses + 1
  /\ \E p \in 1..Len(entry["ptr"]), b \in 1..Len(entry["blob"]) :
       entry' = [entry EXCEPT !["ptr"] = <<@[p]>>, !["blob"] = <<@[b]>>]
  /\ \E cut \in {0, Size} :
       files' = [i \in Inodes |-> IF files[i].synced \/ files[i].len <= cut THEN files[i]
                                  ELSE [files[i] EXCEPT !.len = cut, !.torn = TRUE]]
  /\ lock' = None
  /\ proc' = [a \in Actors |-> Idle]
  /\ UNCHANGED <<clock, puts, acked, blobs>>

Tick ==
  /\ clock < MaxClock
  /\ clock' = clock + 1
  /\ UNCHANGED <<files, entry, lock, proc, puts, acked, losses, blobs>>

Step ==
  \/ \E a \in cast \cap Pollers : \/ Open(a) \/ NotModified(a) \/ Stat(a) \/ ReadChunk(a) \/ CloseObject(a)
  \/ \E w \in cast \cap Writers : \/ Open(w) \/ GetAll(w) \/ NotFound(w) \/ Flock(w) \/ LockCancelled(w) \/ PreconditionFailed(w)
                              \/ Matched(w) \/ CreateTemp(w) \/ WriteChunk(w)
                              \/ SyncTemp(w) \/ WriteFails(w) \/ Rename(w)
                              \/ FsyncDir(w) \/ FsyncFails(w) \/ PutReturns(w)
  \/ \E w \in cast \cap BlobWriters : PutBlob(w)
  \/ \E w \in cast \cap SshWriters : SshCat(w) \/ SshMove(w)
  \/ \E w \in cast \ Pollers : ProcessDies(w)
  \/ PowerLoss
  \/ Tick

StoreNext == Step /\ UNCHANGED cast

StoreSpec == StoreInit /\ [][StoreNext]_vars

-----------------------------------------------------------------------------
Pcs == {"idle", "opened", "notmodified", "reading", "read", "locked", "create",
        "copy", "rename", "fsync", "return"}

File == [ver: Versions \cup {None}, len: 0..Size, mtime: Nat, synced: BOOLEAN, torn: BOOLEAN]
Names == Inodes \cup {NoFile}
Proc == [pc: Pcs, key: Keys, fd: Names, ver: Versions \cup {None},
         got: Seq(Versions \cup {None}), tag: (Nat \X Inodes) \cup {None},
         base: Versions \cup {None}, tmp: Names, new: Versions \cup {None}]

(* Type invariant: no file ever holds more than the object or comes from   *)
(* the future, a key always has an entry, and the lock is held by a        *)
(* file:// writer or by nobody.                                            *)
StoreTypeOK ==
  /\ cast \subseteq Actors
  /\ files \in [Inodes -> File]
  /\ \A i \in Inodes : files[i].mtime <= clock
  /\ entry \in [Keys -> Seq(Names)] /\ \A k \in Keys : Len(entry[k]) > 0
  /\ lock \in Writers \cup {None}
  /\ clock \in Nat
  /\ proc \in [Actors -> Proc]
  /\ puts \in [Writers -> Nat]
  /\ blobs \in Nat /\ losses \in Nat
  /\ acked \subseteq Versions

(* The lock is held exactly while a writer is between its compare and the  *)
(* return of its Put: an early return, a failed write or a dying process   *)
(* never leaves the store locked, and no swap runs without it.             *)
LockOwned ==
  \A w \in Writers :
    lock = w <=> /\ proc[w].key = "ptr"
                 /\ proc[w].pc \in {"locked", "create", "copy", "rename", "fsync", "return"}

(* Store.Put: "a reader sees either the whole previous object or the whole *)
(* new one".  What open() finds is whole, and a read that ended has every  *)
(* chunk, of one version.  The exception is real: over ssh nothing syncs   *)
(* the temporary file, so a power loss of the remote host can cut a blob   *)
(* that was already renamed.                                               *)
WholeObject ==
  /\ \A a \in Actors : proc[a].pc = "read" /\ proc[a].fd # NoFile =>
       proc[a].got = [n \in 1..Size |-> proc[a].ver]
  /\ Current("blob") # NoFile =>
       files[Current("blob")].len = Size \/ files[Current("blob")].torn

(* fileETag "identifies a version of a file": a poller told 304 holds the  *)
(* very version that is at the key.                                        *)
NotModifiedIsTrue ==
  \A a \in Pollers : proc[a].pc = "notmodified" =>
    proc[a].ver = VersionOf(proc[a].fd)

(* The directory implements CasStore: a swap happens exactly at the rename *)
(* of a writer whose tag still matches, and a Put that returned nil cannot *)
(* be undone by a power loss.                                              *)
InPut(w) == proc[w].key = "ptr" /\ proc[w].pc \in {"fsync", "return"}
PtrLog == [n \in 1..Len(entry["ptr"]) |-> VersionOf(entry["ptr"][n])]
Seen == [w \in Writers |-> IF proc[w].key = "ptr" THEN proc[w].base ELSE None]
Mine == [w \in Writers |-> IF InPut(w) THEN proc[w].new ELSE None]
Used == {v \in Writers \X (1..MaxPuts) : v[2] <= puts[v[1]]}
Cas == INSTANCE CasStore WITH log <- PtrLog, seen <- Seen, mine <- Mine, used <- Used
Refines == Cas!CasSpec
=============================================================================
