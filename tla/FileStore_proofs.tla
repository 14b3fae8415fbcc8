-------------------------- MODULE FileStore_proofs --------------------------
(***************************************************************************)
(* Proofs about the directory of a file:// or ssh:// store, for any number *)
(* of writers, pollers, inodes, chunks, ticks, puts and power losses.      *)
(***************************************************************************)
EXTENDS FileStore, SequenceTheorems, TLAPS

PutPcs == {"create", "copy", "rename", "fsync", "return"}

(***************************************************************************)
(* Where a process of each kind can be, and what it holds there.           *)
(***************************************************************************)
RoleOK(a) ==
  /\ a \in Pollers => proc[a].pc \in {"idle", "opened", "notmodified", "reading", "read"}
  /\ a \in Writers => proc[a].pc \in {"idle", "opened", "read", "locked"} \cup PutPcs
  /\ a \in SshWriters => proc[a].pc \in {"idle", "create", "rename"}
  /\ proc[a].key = "blob" => proc[a].pc \in PutPcs
  /\ a \in SshWriters /\ proc[a].pc # "idle" => proc[a].key = "blob"

HoldsOK(a) ==
  /\ proc[a].fd # NoFile => proc[a].pc \in {"opened", "reading", "read", "notmodified"}
  /\ proc[a].pc \in {"opened", "reading", "notmodified"} => proc[a].fd # NoFile
  /\ proc[a].tmp # NoFile <=> proc[a].pc \in {"copy", "rename"}
  /\ proc[a].pc \in {"idle", "opened"} => proc[a].got = <<>>
  /\ proc[a].pc \in PutPcs => proc[a].new # None
  /\ proc[a].pc \in PutPcs /\ proc[a].key = "blob" => proc[a].new = Blob

(***************************************************************************)
(* The file a Put is writing is its own: no key names it, nobody has it    *)
(* open, no other Put writes it.  It is whole and synced before a file://  *)
(* writer renames it.                                                      *)
(***************************************************************************)
Named(i) == \E k \in Keys : \E n \in 1..Len(entry[k]) : entry[k][n] = i

TempOK(a) ==
  proc[a].tmp # NoFile =>
    /\ ~Named(proc[a].tmp)
    /\ \A b \in Actors : /\ proc[b].fd # proc[a].tmp
                         /\ b # a => proc[b].tmp # proc[a].tmp
    /\ files[proc[a].tmp].ver = proc[a].new
    /\ a \in Writers /\ proc[a].pc = "rename" =>
         files[proc[a].tmp].len = Size /\ files[proc[a].tmp].synced

(* What a pointer's entry names, and what a reader has open, is whole.     *)
Whole(i) == files[i].len = Size /\ files[i].synced /\ files[i].ver # None

EntriesOK ==
  /\ \A n \in 1..Len(entry["ptr"]) : entry["ptr"][n] # NoFile => Whole(entry["ptr"][n])
  /\ \A n \in 1..Len(entry["blob"]) : entry["blob"][n] # NoFile =>
        files[entry["blob"][n]].len = Size \/ files[entry["blob"][n]].torn

ReadOK(a) ==
  /\ proc[a].fd # NoFile => Whole(proc[a].fd)
  /\ proc[a].pc = "reading" =>
       /\ Len(proc[a].got) <= Size
       /\ \A n \in 1..Len(proc[a].got) : proc[a].got[n] = files[proc[a].fd].ver
  /\ proc[a].pc = "read" /\ proc[a].fd # NoFile =>
       proc[a].got = [n \in 1..Size |-> proc[a].ver]

StoreInv ==
  /\ StoreTypeOK
  /\ \A a \in Actors : RoleOK(a) /\ HoldsOK(a) /\ TempOK(a) /\ ReadOK(a)
  /\ EntriesOK
  /\ LockOwned

-----------------------------------------------------------------------------
ActorOK(a) == RoleOK(a) /\ HoldsOK(a) /\ TempOK(a) /\ ReadOK(a)

(* Nobody but a can reach file i, and a only as its temporary file.        *)
Private(i, a) ==
  /\ ~Named(i)
  /\ \A b \in Actors : proc[b].fd # i /\ (b # a => proc[b].tmp # i)

\* The process that does nothing and the inode that is free have their types.
LEMMA IdleTyped == Idle \in Proc /\ Free \in File
BY StoreAssumption DEF Idle, Proc, Free, File, Pcs, Keys, Names

\* A free inode, and the file a Put is writing, are private.
LEMMA PrivateFiles ==
  ASSUME StoreInv, NEW a \in Actors
  PROVE  /\ \A i \in Inodes : Gone(i) => Private(i, a)
         /\ proc[a].tmp # NoFile => proc[a].tmp \in Inodes /\ Private(proc[a].tmp, a)
<1>1. ASSUME NEW i \in Inodes, Gone(i) PROVE Private(i, a)
  BY <1>1 DEF Gone, InUse, Private, Named
<1>2. proc[a].tmp \in Names BY DEF StoreInv, StoreTypeOK, Proc
<1>3. proc[a].tmp # NoFile => Private(proc[a].tmp, a)
  BY DEF StoreInv, TempOK, Private
<1>4. QED BY <1>1, <1>2, <1>3 DEF Names

\* A process that does not move and whose open file does not change.
LEMMA SameReader ==
  ASSUME StoreInv, NEW b \in Actors, proc'[b] = proc[b],
         proc[b].fd # NoFile => files'[proc[b].fd] = files[proc[b].fd]
  PROVE  RoleOK(b)' /\ HoldsOK(b)' /\ ReadOK(b)'
<1>1. RoleOK(b) /\ HoldsOK(b) /\ ReadOK(b) BY DEF StoreInv
<1>2. RoleOK(b)' /\ HoldsOK(b)' BY <1>1 DEF RoleOK, HoldsOK
<1>3. ReadOK(b)' BY <1>1 DEF ReadOK, HoldsOK, Whole
<1>4. QED BY <1>2, <1>3

\* A process that changes only private files disturbs no other process and
\* nothing a key names.
LEMMA PrivateChange ==
  ASSUME StoreInv, NEW a \in Actors, NEW r \in Proc,
         proc' = [proc EXCEPT ![a] = r], entry' = entry,
         \/ files' = files
         \/ \E i \in Inodes, f \in File : Private(i, a) /\ files' = [files EXCEPT ![i] = f],
         r.fd \in {NoFile, proc[a].fd} \/ Named(r.fd),
         r.tmp = NoFile \/ Private(r.tmp, a)
  PROVE  /\ \A b \in Actors \ {a} : ActorOK(b)'
         /\ EntriesOK'
<1>0. /\ files \in [Inodes -> File] /\ proc \in [Actors -> Proc]
      /\ entry \in [Keys -> Seq(Names)]
  BY DEF StoreInv, StoreTypeOK
<1>1. ASSUME NEW j \in Inodes, ~Private(j, a) PROVE files'[j] = files[j]
  BY <1>0, <1>1
<1>2. ASSUME NEW b \in Actors \ {a} PROVE ActorOK(b)'
  <2>1. proc'[b] = proc[b] /\ proc[b] \in Proc /\ proc'[a] = r BY <1>0
  <2>2. ActorOK(b) BY DEF StoreInv, ActorOK
  <2>4. proc[b].fd # NoFile => files'[proc[b].fd] = files[proc[b].fd]
    BY <2>1, <1>1 DEF Private, Proc, Names
  <2>5. RoleOK(b)' /\ HoldsOK(b)' /\ ReadOK(b)' BY <2>1, <2>4, SameReader
  <2>6. proc[b].tmp # NoFile => files'[proc[b].tmp] = files[proc[b].tmp]
    BY <2>1, <1>1 DEF Private, Proc, Names
  <2>7. TempOK(b)'
    <3> SUFFICES ASSUME proc[b].tmp # NoFile PROVE TempOK(b)'
      BY <2>1 DEF TempOK
    <3>1. TempOK(b) BY <2>2 DEF ActorOK
    <3>2. ~Named(proc[b].tmp)' BY <3>1, <2>1 DEF TempOK, Named
    <3>3. r.fd # proc[b].tmp /\ r.tmp # proc[b].tmp
      BY <3>1 DEF TempOK, Private
    <3>4. \A c \in Actors : /\ proc'[c].fd # proc[b].tmp
                            /\ c # b => proc'[c].tmp # proc[b].tmp
      BY <3>1, <3>3, <1>0 DEF TempOK
    <3>5. QED BY <3>1, <3>2, <3>4, <2>1, <2>6 DEF TempOK
  <2>8. QED BY <2>5, <2>7 DEF ActorOK
<1>3. EntriesOK'
  <2>1. ASSUME NEW k \in Keys, NEW n \in 1..Len(entry[k]), entry[k][n] # NoFile
        PROVE  files'[entry[k][n]] = files[entry[k][n]]
    <3>1. entry[k][n] \in Inodes BY <1>0, <2>1 DEF Names
    <3>2. ~Private(entry[k][n], a) BY DEF Private, Named
    <3>3. QED BY <3>1, <3>2, <1>1
  <2>2. QED BY <2>1 DEF StoreInv, EntriesOK, Whole, Keys
<1>4. QED BY <1>2, <1>3


-----------------------------------------------------------------------------
Holding(r) == r.key = "ptr" /\ r.pc \in {"locked", "create", "copy", "rename", "fsync", "return"}

\* The lock changes hands only with the state of its holder.
LEMMA LockStep ==
  ASSUME StoreInv, NEW a \in Actors, NEW r \in Proc,
         proc' = [proc EXCEPT ![a] = r],
         \/ lock' = lock /\ (a \in Writers => (Holding(r) <=> Holding(proc[a])))
         \/ lock = None /\ lock' = a /\ a \in Writers /\ Holding(r)
         \/ lock' = Unlocked(a) /\ ~Holding(r)
  PROVE  LockOwned' /\ lock' \in Writers \cup {None}
<1>0. /\ proc \in [Actors -> Proc] /\ lock \in Writers \cup {None}
      /\ \A w \in Writers : lock = w <=> Holding(proc[w])
      /\ Writers \subseteq Actors /\ None \notin Writers
  BY StoreAssumption DEF StoreInv, StoreTypeOK, LockOwned, Holding, Actors
<1>1. /\ \A w \in Writers : lock' = w <=> Holding(proc'[w])
      /\ lock' \in Writers \cup {None}
  BY <1>0 DEF Unlocked
<1>2. QED BY <1>1 DEF LockOwned, Holding

\* One private file gets another content.
OwnWrite(a) ==
  \E i \in Inodes, f \in File :
    Private(i, a) /\ f.mtime <= clock /\ files' = [files EXCEPT ![i] = f]

\* A step of process a that changes private files, and leaves a in order and
\* the lock where it belongs, keeps the invariant.
LEMMA LocalStep ==
  ASSUME StoreInv, NEW a \in Actors, NEW r \in Proc,
         proc' = [proc EXCEPT ![a] = r], entry' = entry,
         \/ files' = files
         \/ OwnWrite(a),
         r.fd \in {NoFile, proc[a].fd} \/ Named(r.fd),
         r.tmp = NoFile \/ Private(r.tmp, a),
         \/ lock' = lock /\ (a \in Writers => (Holding(r) <=> Holding(proc[a])))
         \/ lock = None /\ lock' = a /\ a \in Writers /\ Holding(r)
         \/ lock' = Unlocked(a) /\ ~Holding(r),
         ActorOK(a)',
         UNCHANGED <<cast, clock, losses, puts>>,
         blobs' \in Nat, acked' \subseteq Versions
  PROVE  StoreInv'
<1>1. EntriesOK' /\ \A b \in Actors : ActorOK(b)' BY PrivateChange DEF OwnWrite
<1>2. LockOwned' /\ lock' \in Writers \cup {None} BY LockStep
<1>3. StoreTypeOK' BY <1>2 DEF StoreInv, StoreTypeOK, OwnWrite
<1>4. QED BY <1>1, <1>2, <1>3 DEF StoreInv, ActorOK

\* A Put or Get that ends, with an error or not, and a process that dies.
LEMMA ToIdle ==
  ASSUME StoreInv, NEW a \in Actors,
         proc' = [proc EXCEPT ![a] = Idle], entry' = entry,
         files' = files \/ files' = Removed(proc[a].tmp),
         lock' = Unlocked(a),
         UNCHANGED <<cast, clock, losses, puts>>,
         blobs' \in Nat, acked' \subseteq Versions
  PROVE  StoreInv'
<1> USE IdleTyped
<1>1. \/ files' = files
      \/ OwnWrite(a)
  <2>1. Free \in File /\ Free.mtime <= clock BY DEF Free, StoreInv, StoreTypeOK
  <2>2. QED BY <2>1, PrivateFiles DEF Removed, OwnWrite
<1>2. proc'[a] = Idle BY DEF StoreInv, StoreTypeOK
<1>3. ActorOK(a)'
  BY <1>2 DEF ActorOK, RoleOK, HoldsOK, TempOK, ReadOK, Idle, PutPcs
<1>4. ~Holding(Idle) /\ Idle.fd = NoFile /\ Idle.tmp = NoFile BY DEF Holding, Idle
<1>5. QED BY <1>1, <1>3, <1>4, LocalStep

\* A step of a Get: what is open is whole, and what was read is of one version.
LEMMA ReaderStep ==
  ASSUME StoreInv, NEW a \in Pollers \cup Writers, NEW r \in Proc,
         proc' = [proc EXCEPT ![a] = r],
         UNCHANGED <<cast, files, entry, lock, clock, puts, acked, losses, blobs>>,
         proc[a].pc \in {"idle", "opened", "reading", "read", "notmodified"},
         r.key = proc[a].key, r.tmp = proc[a].tmp,
         \/ r.pc \in {"idle", "read"} /\ r.fd = NoFile
         \/ /\ r.pc \in {"opened", "reading", "read", "notmodified"} /\ r.fd # NoFile
            /\ r.fd = proc[a].fd \/ (Named(r.fd) /\ Whole(r.fd)),
         a \in Writers => r.pc \in {"opened", "read"},
         r.pc \in {"idle", "opened"} => r.got = <<>>,
         r.pc = "reading" => /\ Len(r.got) <= Size
                             /\ \A n \in 1..Len(r.got) : r.got[n] = files[r.fd].ver,
         r.pc = "read" /\ r.fd # NoFile => r.got = [n \in 1..Size |-> r.ver]
  PROVE  StoreInv'
<1>0. /\ a \in Actors /\ proc \in [Actors -> Proc] /\ proc[a] \in Proc
      /\ blobs \in Nat /\ acked \subseteq Versions /\ ActorOK(a)
  BY DEF StoreInv, StoreTypeOK, ActorOK, Actors
<1>1. proc'[a] = r BY <1>0
<1>2. r.tmp = NoFile /\ r.key = "ptr" /\ ~Holding(r) /\ ~Holding(proc[a])
  BY <1>0 DEF ActorOK, RoleOK, HoldsOK, Holding, PutPcs, Proc, Keys
<1>3. RoleOK(a)' BY <1>1, <1>2, RolesDisjoint DEF RoleOK
<1>4. HoldsOK(a)' BY <1>1, <1>2 DEF HoldsOK, PutPcs
<1>5. TempOK(a)' BY <1>1, <1>2 DEF TempOK
<1>6. ReadOK(a)' BY <1>0, <1>1 DEF ActorOK, ReadOK, Whole
<1>7. QED BY <1>0, <1>2, <1>3, <1>4, <1>5, <1>6, LocalStep DEF ActorOK

\* Get: every step keeps the invariant.
LEMMA GetStep ==
  ASSUME StoreInv, UNCHANGED cast, NEW a \in Pollers \cup Writers,
         \/ Open(a)
         \/ a \in Pollers /\ (NotModified(a) \/ Stat(a) \/ ReadChunk(a) \/ CloseObject(a))
         \/ a \in Writers /\ (GetAll(a) \/ NotFound(a))
  PROVE  StoreInv'
<1>0. /\ a \in Actors /\ proc[a] \in Proc /\ files \in [Inodes -> File]
      /\ entry \in [Keys -> Seq(Names)] /\ \A k \in Keys : Len(entry[k]) > 0
      /\ HoldsOK(a) /\ ReadOK(a) /\ NoFile \notin Inodes
  BY StoreAssumption DEF StoreInv, StoreTypeOK, Actors
<1>a. a \in Pollers => a \notin Writers BY RolesDisjoint
<1>b. proc[a].fd # NoFile =>
        /\ Whole(proc[a].fd) /\ files[proc[a].fd].ver \in Versions
        /\ FileETag(proc[a].fd) \in (Nat \X Inodes) \cup {None}
  BY <1>0 DEF ReadOK, Whole, FileETag, Proc, Names, File
<1>1. CASE Open(a)
  <2> DEFINE r == [proc[a] EXCEPT !.pc = "opened", !.fd = Current("ptr"),
                                  !.base = VersionOf(Current("ptr"))]
  <2>1. Current("ptr") \in Inodes /\ Named(Current("ptr")) /\ Whole(Current("ptr"))
    BY <1>0, <1>1 DEF Open, Current, Named, Names, Keys, StoreInv, EntriesOK
  <2>2. VersionOf(Current("ptr")) \in Versions \cup {None}
    BY <2>1, <1>0 DEF VersionOf, File
  <2>3. /\ r \in Proc /\ r.pc = "opened" /\ r.fd = Current("ptr")
        /\ r.key = proc[a].key /\ r.tmp = proc[a].tmp /\ r.got = <<>>
    BY <1>0, <1>1, <2>1, <2>2 DEF Proc, Pcs, Names, HoldsOK, Open
  <2>4. /\ proc' = [proc EXCEPT ![a] = r] /\ proc[a].pc = "idle"
        /\ UNCHANGED <<files, entry, lock, clock, puts, acked, losses, blobs>>
    BY <1>1 DEF Open, Set
  <2> HIDE DEF r
  <2>5. QED BY <2>1, <2>3, <2>4, <1>0, ReaderStep
<1>2. CASE a \in Writers /\ NotFound(a)
  <2> DEFINE r == [Idle EXCEPT !.pc = "read"]
  <2>1. /\ r \in Proc /\ r.pc = "read" /\ r.fd = NoFile /\ r.key = "ptr" /\ r.tmp = NoFile
    BY IdleTyped DEF Proc, Pcs, Idle
  <2>2. /\ proc' = [proc EXCEPT ![a] = r] /\ proc[a].pc = "idle"
        /\ UNCHANGED <<files, entry, lock, clock, puts, acked, losses, blobs>>
    BY <1>2 DEF NotFound, Set
  <2>3. proc[a].key = "ptr" /\ proc[a].tmp = NoFile
    BY <1>0, <2>2 DEF StoreInv, RoleOK, HoldsOK, PutPcs, Proc, Keys
  <2> HIDE DEF r
  <2>4. QED BY <1>2, <2>1, <2>2, <2>3, ReaderStep
<1>3. CASE a \in Writers /\ GetAll(a)
  <2> DEFINE f == files[proc[a].fd]
             r == [proc[a] EXCEPT !.pc = "read", !.tag = FileETag(proc[a].fd), !.ver = f.ver,
                                  !.got = [n \in 1..f.len |-> f.ver]]
  <2>0. proc[a].pc = "opened" /\ proc[a].fd # NoFile BY <1>0, <1>3 DEF GetAll, HoldsOK
  <2>1. [n \in 1..f.len |-> f.ver] \in Seq(Versions \cup {None}) /\ f.len = Size
    BY <1>b, <2>0, StoreAssumption DEF Whole
  <2>2. /\ r \in Proc /\ r.pc = "read" /\ r.fd = proc[a].fd /\ r.key = proc[a].key /\ r.tmp = proc[a].tmp
        /\ r.ver = f.ver /\ r.got = [n \in 1..Size |-> f.ver]
    BY <1>0, <1>b, <2>0, <2>1 DEF Proc, Pcs
  <2>3. /\ proc' = [proc EXCEPT ![a] = r]
        /\ UNCHANGED <<files, entry, lock, clock, puts, acked, losses, blobs>>
    BY <1>3 DEF GetAll, Set
  <2> HIDE DEF r
  <2>4. QED BY <1>3, <2>0, <2>2, <2>3, ReaderStep
<1>4. CASE a \in Pollers /\ (NotModified(a) \/ Stat(a))
  <2> DEFINE r == IF NotModified(a) THEN [proc[a] EXCEPT !.pc = "notmodified"]
                  ELSE [proc[a] EXCEPT !.pc = "reading", !.tag = FileETag(proc[a].fd)]
  <2>0. proc[a].pc = "opened" /\ proc[a].fd # NoFile
    BY <1>0, <1>4 DEF NotModified, Stat, HoldsOK
  <2>1. /\ r \in Proc /\ r.pc \in {"notmodified", "reading"} /\ r.fd = proc[a].fd
        /\ r.key = proc[a].key /\ r.tmp = proc[a].tmp /\ r.got = proc[a].got
    BY <1>0, <1>b, <2>0 DEF Proc, Pcs
  <2>2. /\ proc' = [proc EXCEPT ![a] = r]
        /\ UNCHANGED <<files, entry, lock, clock, puts, acked, losses, blobs>>
    BY <1>4 DEF NotModified, Stat, Set
  <2> HIDE DEF r
  <2>3. r.got = <<>> BY <1>0, <2>0, <2>1 DEF HoldsOK
  <2>5. Len(r.got) <= Size /\ 1..Len(r.got) = {} BY <2>3, StoreAssumption
  <2>6. QED BY <1>4, <1>a, <2>0, <2>1, <2>2, <2>5, ReaderStep
<1>5. CASE a \in Pollers /\ ReadChunk(a)
  <2> DEFINE f == files[proc[a].fd]
             r == IF Len(proc[a].got) < f.len THEN [proc[a] EXCEPT !.got = Append(@, f.ver)]
                  ELSE [proc[a] EXCEPT !.pc = "read", !.ver = f.ver]
  <2>0. /\ proc[a].pc = "reading" /\ proc[a].fd # NoFile
        /\ Len(proc[a].got) <= Size /\ \A n \in 1..Len(proc[a].got) : proc[a].got[n] = f.ver
        /\ f.len = Size /\ f.ver \in Versions /\ proc[a].got \in Seq(Versions \cup {None})
    BY <1>0, <1>5, <1>b DEF ReadChunk, HoldsOK, ReadOK, Whole, Proc
  <2>1. /\ proc' = [proc EXCEPT ![a] = r]
        /\ UNCHANGED <<files, entry, lock, clock, puts, acked, losses, blobs>>
    BY <1>5 DEF ReadChunk, Set
  <2>2. CASE Len(proc[a].got) < f.len
    <3>1. /\ Append(proc[a].got, f.ver) \in Seq(Versions \cup {None})
          /\ Len(Append(proc[a].got, f.ver)) <= Size
          /\ \A n \in 1..Len(Append(proc[a].got, f.ver)) : Append(proc[a].got, f.ver)[n] = f.ver
      <4> DEFINE g == proc[a].got
                 v == f.ver
      <4>1. /\ g \in Seq(Versions \cup {None}) /\ v \in Versions \cup {None} /\ Size \in Nat
            /\ Len(g) < Size /\ \A n \in 1..Len(g) : g[n] = v
        BY <2>0, <2>2, StoreAssumption
      <4> HIDE DEF g, v
      <4>2. Append(g, v) \in Seq(Versions \cup {None}) BY <4>1
      <4>3. Len(Append(g, v)) = Len(g) + 1 /\ Len(g) \in Nat BY <4>1
      <4>4. \A n \in 1..(Len(g) + 1) : Append(g, v)[n] = v BY <4>1
      <4>5. QED BY <4>1, <4>2, <4>3, <4>4 DEF g, v
    <3>2. /\ r \in Proc /\ r.pc = "reading" /\ r.fd = proc[a].fd /\ r.key = proc[a].key
          /\ r.tmp = proc[a].tmp /\ r.got = Append(proc[a].got, f.ver)
      BY <1>0, <2>0, <2>2, <3>1 DEF Proc
    <3> HIDE DEF r
    <3>3. QED BY <1>5, <1>a, <2>0, <2>1, <3>1, <3>2, ReaderStep
  <2>3. CASE ~(Len(proc[a].got) < f.len)
    <3>1. proc[a].got = [n \in 1..Size |-> f.ver]
      BY <2>0, <2>3, StoreAssumption
    <3>2. /\ r \in Proc /\ r.pc = "read" /\ r.fd = proc[a].fd /\ r.key = proc[a].key
          /\ r.tmp = proc[a].tmp /\ r.got = proc[a].got /\ r.ver = f.ver
      BY <1>0, <2>0, <2>3 DEF Proc, Pcs
    <3> HIDE DEF r
    <3>3. QED BY <1>5, <1>a, <2>0, <2>1, <3>1, <3>2, ReaderStep
  <2>4. QED BY <2>2, <2>3
<1>6. CASE a \in Pollers /\ CloseObject(a)
  <2> DEFINE r == [proc[a] EXCEPT !.pc = "idle", !.fd = NoFile, !.got = <<>>, !.base = None]
  <2>1. /\ r \in Proc /\ r.pc = "idle" /\ r.fd = NoFile /\ r.got = <<>>
        /\ r.key = proc[a].key /\ r.tmp = proc[a].tmp
    <3>1. <<>> \in Seq(Versions \cup {None}) OBVIOUS
    <3>2. QED BY <1>0, <3>1 DEF Proc, Pcs, Names
  <2>2. /\ proc' = [proc EXCEPT ![a] = r] /\ proc[a].pc \in {"read", "notmodified"}
        /\ UNCHANGED <<files, entry, lock, clock, puts, acked, losses, blobs>>
    BY <1>6 DEF CloseObject, Set
  <2> HIDE DEF r
  <2>3. QED BY <1>6, <1>a, <2>1, <2>2, ReaderStep
<1>7. QED BY <1>1, <1>2, <1>3, <1>4, <1>5, <1>6


-----------------------------------------------------------------------------
\* A step of a Put before its rename: at most the process's own file changes.
LEMMA WriterStep ==
  ASSUME StoreInv, NEW a \in Actors, NEW r \in Proc,
         proc' = [proc EXCEPT ![a] = r], entry' = entry,
         \/ files' = files
         \/ OwnWrite(a),
         UNCHANGED <<cast, clock, losses, puts, acked>>, blobs' \in Nat,
         \/ lock' = lock /\ (a \in Writers => (Holding(r) <=> Holding(proc[a])))
         \/ lock = None /\ lock' = a /\ a \in Writers /\ Holding(r),
         r.fd = NoFile,
         \/ a \in Writers /\ r.pc \in {"create", "copy", "rename"}
         \/ a \in Writers /\ r.pc = "locked" /\ r.key = "ptr"
         \/ a \in SshWriters /\ r.key = "blob" /\ r.pc \in {"create", "rename"},
         r.pc # "locked" => r.new # None /\ (r.key = "blob" => r.new = Blob),
         IF r.pc \in {"copy", "rename"}
         THEN /\ r.tmp \in Inodes /\ Private(r.tmp, a) /\ files'[r.tmp].ver = r.new
              /\ a \in Writers /\ r.pc = "rename" => files'[r.tmp].len = Size /\ files'[r.tmp].synced
         ELSE r.tmp = NoFile
  PROVE  StoreInv'
<1>0. /\ proc \in [Actors -> Proc] /\ entry \in [Keys -> Seq(Names)] /\ acked \subseteq Versions
      /\ NoFile \notin Inodes
  BY StoreAssumption DEF StoreInv, StoreTypeOK
<1>1. proc'[a] = r /\ \A b \in Actors \ {a} : proc'[b] = proc[b] BY <1>0
<1>2. RoleOK(a)' BY <1>1, RolesDisjoint DEF RoleOK, PutPcs
<1>3. HoldsOK(a)' BY <1>0, <1>1 DEF HoldsOK, PutPcs
<1>4. TempOK(a)'
  <2> SUFFICES ASSUME r.pc \in {"copy", "rename"} PROVE TempOK(a)'
    BY <1>1 DEF TempOK
  <2>1. ~Named(r.tmp)' BY DEF Private, Named
  <2>2. \A b \in Actors : proc'[b].fd # r.tmp /\ (b # a => proc'[b].tmp # r.tmp)
    BY <1>0, <1>1 DEF Private
  <2>3. QED BY <1>1, <2>1, <2>2 DEF TempOK
<1>5. ReadOK(a)' BY <1>1 DEF ReadOK
<1>6. ActorOK(a)' BY <1>2, <1>3, <1>4, <1>5 DEF ActorOK
<1>7. acked' \subseteq Versions /\ (r.tmp = NoFile \/ Private(r.tmp, a)) BY <1>0
<1>8. QED BY <1>6, <1>7, LocalStep

\* Put up to the write of its file.
LEMMA PutBegins ==
  ASSUME StoreInv, UNCHANGED cast, NEW a \in Writers \cup SshWriters,
         \/ a \in Writers /\ (Flock(a) \/ LockCancelled(a) \/ PreconditionFailed(a) \/ Matched(a))
         \/ PutBlob(a)
  PROVE  StoreInv'
<1>0. /\ a \in Actors /\ proc[a] \in Proc /\ lock \in Writers \cup {None}
      /\ RoleOK(a) /\ HoldsOK(a) /\ NoFile \notin Inodes /\ None \notin Versions
      /\ acked \subseteq Versions /\ blobs \in Nat /\ puts \in [Writers -> Nat] /\ MaxPuts \in Nat
      /\ a \in Writers => (lock = a <=> Holding(proc[a]))
      /\ None \notin Writers
  BY StoreAssumption DEF StoreInv, StoreTypeOK, Actors, LockOwned, Holding
<1>1. CASE a \in Writers /\ Flock(a)
  <2> DEFINE r == [proc[a] EXCEPT !.pc = "locked", !.fd = NoFile, !.got = <<>>]
  <2>1. /\ r \in Proc /\ r.pc = "locked" /\ r.fd = NoFile /\ r.key = proc[a].key /\ r.tmp = proc[a].tmp
    <3>1. <<>> \in Seq(Versions \cup {None}) OBVIOUS
    <3>2. QED BY <1>0, <3>1 DEF Proc, Pcs, Names
  <2>2. /\ proc' = [proc EXCEPT ![a] = r] /\ proc[a].pc = "read" /\ lock = None /\ lock' = a
        /\ UNCHANGED <<files, entry, clock, puts, acked, losses, blobs>>
    BY <1>1 DEF Flock, Set
  <2>3. r.key = "ptr" /\ r.tmp = NoFile
    BY <1>0, <2>1, <2>2 DEF RoleOK, HoldsOK, PutPcs, Proc, Keys
  <2> HIDE DEF r
  <2>4. QED BY <1>0, <1>1, <2>1, <2>2, <2>3, WriterStep DEF Holding
<1>2. CASE a \in Writers /\ LockCancelled(a)
  <2>1. lock # a BY <1>0, <1>2 DEF LockCancelled, Holding
  <2>2. QED BY <1>0, <1>2, <2>1, ToIdle DEF LockCancelled, Set, Unlocked
<1>3. CASE a \in Writers /\ PreconditionFailed(a)
  <2>1. lock = a BY <1>0, <1>3 DEF PreconditionFailed, Holding, RoleOK, PutPcs, Proc, Keys
  <2>2. QED BY <1>0, <1>3, <2>1, ToIdle DEF PreconditionFailed, Set, Unlocked
<1>4. CASE a \in Writers /\ Matched(a)
  <2> DEFINE r == [proc[a] EXCEPT !.pc = "create", !.new = <<a, puts[a] + 1>>]
  <2>1. <<a, puts[a] + 1>> \in Versions BY <1>0, <1>4 DEF Matched, Versions
  <2>2. /\ r \in Proc /\ r.pc = "create" /\ r.fd = proc[a].fd /\ r.key = proc[a].key
        /\ r.tmp = proc[a].tmp /\ r.new \in Versions
    BY <1>0, <2>1 DEF Proc, Pcs
  <2>3. /\ proc' = [proc EXCEPT ![a] = r] /\ proc[a].pc = "locked"
        /\ UNCHANGED <<files, entry, lock, clock, puts, acked, losses, blobs>>
    BY <1>4 DEF Matched, Set
  <2>4. r.key = "ptr" /\ r.tmp = NoFile /\ r.fd = NoFile
    BY <1>0, <2>2, <2>3 DEF RoleOK, HoldsOK, PutPcs, Proc, Keys
  <2> HIDE DEF r
  <2>5. QED BY <1>0, <1>4, <2>2, <2>3, <2>4, WriterStep DEF Holding
<1>5. CASE PutBlob(a)
  <2> DEFINE r == [Idle EXCEPT !.pc = "create", !.key = "blob", !.new = Blob]
  <2>1. /\ r \in Proc /\ r.pc = "create" /\ r.fd = NoFile /\ r.key = "blob"
        /\ r.tmp = NoFile /\ r.new = Blob /\ Blob # None
    <3>1. Blob \in Versions BY DEF Versions
    <3>2. QED BY <1>0, <3>1, IdleTyped DEF Proc, Pcs, Keys, Idle
  <2>2. /\ proc' = [proc EXCEPT ![a] = r] /\ proc[a].pc = "idle" /\ blobs' \in Nat
        /\ UNCHANGED <<files, entry, lock, clock, puts, acked, losses>>
    BY <1>0, <1>5 DEF PutBlob, Set
  <2> HIDE DEF r
  <2>3. QED BY <1>0, <2>1, <2>2, WriterStep DEF Holding
<1>6. QED BY <1>1, <1>2, <1>3, <1>4, <1>5

\* The temporary file is created, written and synced, or given up.
LEMMA PutWrites ==
  ASSUME StoreInv, UNCHANGED cast, NEW a \in Writers,
         CreateTemp(a) \/ WriteChunk(a) \/ SyncTemp(a) \/ WriteFails(a)
  PROVE  StoreInv'
<1>0. /\ a \in Actors /\ proc \in [Actors -> Proc] /\ proc[a] \in Proc
      /\ files \in [Inodes -> File] /\ clock \in Nat /\ \A i \in Inodes : files[i].mtime <= clock
      /\ HoldsOK(a) /\ TempOK(a) /\ RoleOK(a) /\ NoFile \notin Inodes
      /\ acked \subseteq Versions /\ blobs \in Nat
      /\ Size \in Nat
  BY StoreAssumption DEF StoreInv, StoreTypeOK, Actors
<1>a. proc[a].tmp # NoFile => proc[a].tmp \in Inodes /\ Private(proc[a].tmp, a)
  BY <1>0, PrivateFiles
<1>1. CASE CreateTemp(a)
  <2>1. PICK i \in Inodes :
          /\ Gone(i)
          /\ files' = [files EXCEPT ![i] = [Free EXCEPT !.ver = proc[a].new, !.mtime = clock]]
          /\ proc' = [proc EXCEPT ![a] = [proc[a] EXCEPT !.pc = "copy", !.tmp = i]]
    BY <1>1 DEF CreateTemp, Set
  <2> DEFINE r == [proc[a] EXCEPT !.pc = "copy", !.tmp = i]
             f == [Free EXCEPT !.ver = proc[a].new, !.mtime = clock]
  <2>2. f \in File /\ f.mtime <= clock /\ f.ver = proc[a].new
    <3>1. proc[a].new \in Versions \cup {None} BY <1>0 DEF Proc
    <3>2. f \in File /\ f.mtime = clock /\ f.ver = proc[a].new
      BY <1>0, <3>1, IdleTyped DEF File
    <3>3. QED BY <1>0, <3>2
  <2>3. Private(i, a) BY <1>0, <2>1, PrivateFiles
  <2>4. /\ r \in Proc /\ r.pc = "copy" /\ r.fd = proc[a].fd /\ r.key = proc[a].key
        /\ r.tmp = i /\ r.new = proc[a].new
    BY <1>0 DEF Proc, Pcs, Names
  <2>5. /\ proc[a].pc = "create" /\ UNCHANGED <<entry, lock, clock, puts, acked, losses, blobs>>
        /\ proc' = [proc EXCEPT ![a] = r] /\ files' = [files EXCEPT ![i] = f]
    BY <1>1, <2>1 DEF CreateTemp
  <2>6. r.fd = NoFile /\ r.new # None /\ (r.key = "blob" => r.new = Blob)
    BY <1>0, <2>4, <2>5 DEF HoldsOK, PutPcs
  <2> HIDE DEF r, f
  <2>7. /\ files'[i].ver = r.new /\ (Holding(r) <=> Holding(proc[a])) /\ blobs' \in Nat
    BY <1>0, <2>2, <2>3, <2>4, <2>5 DEF Holding
  <2>8. OwnWrite(a) BY <2>2, <2>3, <2>5 DEF OwnWrite
  <2>9. QED BY <1>0, <2>3, <2>4, <2>5, <2>6, <2>7, <2>8, WriterStep
<1>2. CASE WriteChunk(a)
  <2> DEFINE i == proc[a].tmp
             f == [files[i] EXCEPT !.len = @ + 1, !.mtime = clock]
  <2>1. /\ proc[a].pc = "copy" /\ UNCHANGED <<entry, lock, clock, puts, acked, losses, blobs, proc>>
        /\ files' = [files EXCEPT ![i].len = @ + 1, ![i].mtime = clock] /\ files[i].len < Size
    BY <1>2 DEF WriteChunk
  <2>2. i \in Inodes /\ Private(i, a) BY <1>0, <1>a, <2>1 DEF HoldsOK
  <2>3. f \in File /\ f.mtime <= clock /\ f.ver = files[i].ver
    <3>1. files[i] \in File BY <1>0, <2>2
    <3>2. files[i].len + 1 \in 0..Size BY <1>0, <2>1, <3>1 DEF File
    <3>3. f.ver = files[i].ver /\ f.mtime = clock /\ f \in File
      BY <1>0, <3>1, <3>2 DEF File
    <3>4. QED BY <1>0, <3>3
  <2>4. files' = [files EXCEPT ![i] = f] BY <1>0, <2>1, <2>2 DEF File
  <2>5. proc' = [proc EXCEPT ![a] = proc[a]] BY <1>0, <2>1
  <2>6. proc[a].fd = NoFile /\ proc[a].new # None /\ (proc[a].key = "blob" => proc[a].new = Blob)
        /\ files[i].ver = proc[a].new
    BY <1>0, <2>1, <2>2 DEF HoldsOK, PutPcs, TempOK
  <2> HIDE DEF f
  <2>7. /\ files'[i].ver = proc[a].new /\ blobs' \in Nat
    BY <1>0, <2>1, <2>2, <2>3, <2>4, <2>6
  <2>8. OwnWrite(a) BY <2>2, <2>3, <2>4 DEF OwnWrite
  <2>9. QED BY <1>0, <2>1, <2>2, <2>5, <2>6, <2>7, <2>8, WriterStep
<1>3. CASE SyncTemp(a)
  <2> DEFINE i == proc[a].tmp
             f == [files[i] EXCEPT !.synced = TRUE]
             r == [proc[a] EXCEPT !.pc = "rename"]
  <2>1. /\ proc[a].pc = "copy" /\ UNCHANGED <<entry, lock, clock, puts, acked, losses, blobs>>
        /\ files' = [files EXCEPT ![i].synced = TRUE] /\ files[i].len = Size
        /\ proc' = [proc EXCEPT ![a] = r]
    BY <1>3 DEF SyncTemp, Goto, Set
  <2>2. i \in Inodes /\ Private(i, a) BY <1>0, <1>a, <2>1 DEF HoldsOK
  <2>3. /\ f \in File /\ f.mtime = files[i].mtime /\ f.ver = files[i].ver
        /\ f.len = Size /\ f.synced /\ f.mtime <= clock
    BY <1>0, <2>1, <2>2 DEF File
  <2>4. files' = [files EXCEPT ![i] = f] BY <1>0, <2>1, <2>2 DEF File
  <2>5. /\ r \in Proc /\ r.pc = "rename" /\ r.fd = proc[a].fd /\ r.key = proc[a].key
        /\ r.tmp = i /\ r.new = proc[a].new
    BY <1>0 DEF Proc, Pcs
  <2>6. /\ proc[a].fd = NoFile /\ proc[a].new # None /\ (proc[a].key = "blob" => proc[a].new = Blob)
        /\ files[i].ver = proc[a].new
    BY <1>0, <2>1, <2>2 DEF HoldsOK, PutPcs, TempOK
  <2> HIDE DEF f, r
  <2>7. /\ files'[i] = f /\ (Holding(r) <=> Holding(proc[a])) /\ blobs' \in Nat
    BY <1>0, <2>1, <2>2, <2>3, <2>4, <2>5 DEF Holding
  <2>8. OwnWrite(a) BY <2>2, <2>3, <2>4 DEF OwnWrite
  <2>9. QED BY <1>0, <2>1, <2>2, <2>3, <2>5, <2>6, <2>7, <2>8, WriterStep
<1>4. CASE WriteFails(a)
  BY <1>0, <1>4, ToIdle DEF WriteFails, Set
<1>5. QED BY <1>1, <1>2, <1>3, <1>4


\* Appending to a sequence keeps its elements and adds one.
LEMMA Appended ==
  ASSUME NEW S, NEW s \in Seq(S), NEW x \in S
  PROVE  /\ Append(s, x) \in Seq(S) /\ Len(Append(s, x)) = Len(s) + 1 /\ Len(Append(s, x)) > 0
         /\ Append(s, x)[Len(s) + 1] = x
         /\ \A n \in 1..Len(s) : Append(s, x)[n] = s[n]
         /\ \A n \in 1..Len(Append(s, x)) :
              Append(s, x)[n] = x \/ \E m \in 1..Len(s) : Append(s, x)[n] = s[m]
<1>1. /\ Append(s, x) \in Seq(S) /\ Len(Append(s, x)) = Len(s) + 1 /\ Len(s) \in Nat
      /\ Append(s, x)[Len(s) + 1] = x
      /\ \A n \in 1..Len(s) : Append(s, x)[n] = s[n]
  OBVIOUS
<1>2. \A n \in 1..(Len(s) + 1) : n = Len(s) + 1 \/ n \in 1..Len(s) BY <1>1
<1>3. Len(s) + 1 > 0 BY <1>1
<1>4. QED BY <1>1, <1>2, <1>3

\* The rename of a whole file over a key, by the process that wrote it.
LEMMA RenameStep ==
  ASSUME StoreInv, NEW a \in Actors, NEW r \in Proc, NEW k \in Keys,
         proc[a].tmp # NoFile, files[proc[a].tmp].len = Size,
         k = "ptr" => Whole(proc[a].tmp),
         entry' = [entry EXCEPT ![k] = Append(@, proc[a].tmp)],
         proc' = [proc EXCEPT ![a] = r], files' = files, r.tmp = NoFile, r.fd = NoFile,
         lock' = lock, a \in Writers => (Holding(r) <=> Holding(proc[a])),
         RoleOK(a)', HoldsOK(a)',
         UNCHANGED <<cast, clock, losses, blobs, acked>>, puts' \in [Writers -> Nat]
  PROVE  StoreInv'
<1>0. /\ proc \in [Actors -> Proc] /\ entry \in [Keys -> Seq(Names)] /\ \A l \in Keys : Len(entry[l]) > 0
      /\ proc[a].tmp \in Names /\ TempOK(a)
  BY DEF StoreInv, StoreTypeOK, Proc
<1>1. /\ entry'[k] = Append(entry[k], proc[a].tmp) /\ entry[k] \in Seq(Names)
      /\ \A l \in Keys \ {k} : entry'[l] = entry[l]
  BY <1>0
<1>2. /\ entry' \in [Keys -> Seq(Names)]
      /\ \A l \in Keys : Len(entry'[l]) > 0
      /\ \A l \in Keys : \A n \in 1..Len(entry'[l]) :
           \/ l = k /\ entry'[l][n] = proc[a].tmp
           \/ \E m \in 1..Len(entry[l]) : entry'[l][n] = entry[l][m]
  <2>1. /\ entry'[k] \in Seq(Names) /\ Len(entry'[k]) > 0
        /\ \A n \in 1..Len(entry'[k]) : entry'[k][n] = proc[a].tmp
             \/ \E m \in 1..Len(entry[k]) : entry'[k][n] = entry[k][m]
    BY <1>0, <1>1, Appended
  <2>2. QED BY <1>0, <1>1, <2>1
<1>3. StoreTypeOK'
  <2>1. lock' \in Writers \cup {None} BY DEF StoreInv, StoreTypeOK
  <2>2. QED BY <1>2, <2>1 DEF StoreInv, StoreTypeOK
<1>4. LockOwned' BY LockStep
<1>5. EntriesOK'
  <2>1. \A i : Whole(i)' <=> Whole(i) BY DEF Whole
  <2>2. \A n \in 1..Len(entry'["ptr"]) : entry'["ptr"][n] # NoFile => Whole(entry'["ptr"][n])
    BY <1>2 DEF StoreInv, EntriesOK, Keys
  <2>3. \A n \in 1..Len(entry'["blob"]) : entry'["blob"][n] # NoFile =>
           files[entry'["blob"][n]].len = Size \/ files[entry'["blob"][n]].torn
    BY <1>2 DEF StoreInv, EntriesOK, Keys
  <2>4. QED BY <2>1, <2>2, <2>3 DEF EntriesOK, Whole
<1>6. ASSUME NEW b \in Actors PROVE ActorOK(b)'
  <2>1. CASE b = a
    <3>1. proc'[a] = r BY <1>0
    <3>2. TempOK(a)' /\ ReadOK(a)' BY <3>1 DEF TempOK, ReadOK, HoldsOK
    <3>3. QED BY <2>1, <3>2 DEF ActorOK
  <2>2. CASE b # a
    <3>1. proc'[b] = proc[b] /\ proc'[a] = r BY <1>0, <2>2
    <3>2. RoleOK(b)' /\ HoldsOK(b)' /\ ReadOK(b)' BY <3>1, SameReader
    <3>3. TempOK(b)'
      <4> SUFFICES ASSUME proc[b].tmp # NoFile PROVE TempOK(b)'
        BY <3>1 DEF TempOK
      <4>1. TempOK(b) /\ proc[a].tmp # proc[b].tmp BY <2>2 DEF StoreInv, TempOK
      <4>2. ASSUME NEW l \in Keys, NEW n \in 1..Len(entry'[l]) PROVE entry'[l][n] # proc[b].tmp
        BY <1>2, <4>1 DEF TempOK, Named
      <4>3. \A c \in Actors : /\ proc'[c].fd # proc[b].tmp
                              /\ c # b => proc'[c].tmp # proc[b].tmp
        BY <1>0, <4>1 DEF TempOK
      <4>4. QED BY <3>1, <4>1, <4>2, <4>3 DEF TempOK, Named
    <3>4. QED BY <3>2, <3>3 DEF ActorOK
  <2>3. QED BY <2>1, <2>2
<1>7. QED BY <1>3, <1>4, <1>5, <1>6 DEF StoreInv, ActorOK

\* The end of a Put: rename, fsync of the directory, return.
LEMMA PutEnds ==
  ASSUME StoreInv, UNCHANGED cast, NEW a \in Writers,
         Rename(a) \/ FsyncDir(a) \/ FsyncFails(a) \/ PutReturns(a)
  PROVE  StoreInv'
<1>0. /\ a \in Actors /\ proc \in [Actors -> Proc] /\ proc[a] \in Proc /\ lock \in Writers \cup {None}
      /\ entry \in [Keys -> Seq(Names)] /\ \A l \in Keys : Len(entry[l]) > 0
      /\ HoldsOK(a) /\ TempOK(a) /\ RoleOK(a) /\ NoFile \notin Inodes
      /\ acked \subseteq Versions /\ blobs \in Nat /\ puts \in [Writers -> Nat]
  BY StoreAssumption DEF StoreInv, StoreTypeOK, Actors
<1>1. CASE Rename(a)
  <2> DEFINE k == proc[a].key
             r == [proc[a] EXCEPT !.pc = "fsync", !.tmp = NoFile]
  <2>1. /\ proc[a].pc = "rename" /\ proc' = [proc EXCEPT ![a] = r]
        /\ entry' = [entry EXCEPT ![k] = Append(@, proc[a].tmp)]
        /\ puts' = IF k = "ptr" THEN [puts EXCEPT ![a] = @ + 1] ELSE puts
        /\ UNCHANGED <<files, lock, clock, acked, losses, blobs>>
    BY <1>1 DEF Rename, Set
  <2>2. /\ r \in Proc /\ r.pc = "fsync" /\ r.fd = proc[a].fd /\ r.key = k /\ r.tmp = NoFile
        /\ r.new = proc[a].new /\ k \in Keys
    BY <1>0 DEF Proc, Pcs, Names
  <2>3. /\ proc[a].tmp # NoFile /\ proc[a].fd = NoFile /\ proc[a].new # None
        /\ Whole(proc[a].tmp) /\ files[proc[a].tmp].len = Size
    BY <1>0, <2>1 DEF HoldsOK, TempOK, Whole, PutPcs
  <2>4. puts' \in [Writers -> Nat] BY <1>0, <2>1
  <2> HIDE DEF r
  <2>5. proc'[a] = r BY <1>0, <2>1
  <2>6. RoleOK(a)' BY <1>0, <2>1, <2>2, <2>5, RolesDisjoint DEF RoleOK, PutPcs
  <2>7. HoldsOK(a)' BY <1>0, <2>1, <2>2, <2>3, <2>5 DEF HoldsOK, PutPcs
  <2>8. Holding(r) <=> Holding(proc[a]) BY <2>1, <2>2 DEF Holding
  <2>9. QED BY <1>0, <2>1, <2>2, <2>3, <2>4, <2>6, <2>7, <2>8, RenameStep
<1>2. CASE FsyncDir(a)
  <2> DEFINE r == [proc[a] EXCEPT !.pc = "return"]
  <2>1. /\ proc[a].pc = "fsync" /\ proc' = [proc EXCEPT ![a] = r]
        /\ entry' = [entry EXCEPT ![proc[a].key] = <<Current(proc[a].key)>>]
        /\ UNCHANGED <<files, lock, clock, puts, acked, losses, blobs>>
    BY <1>2 DEF FsyncDir, Goto, Set
  <2>2. /\ r \in Proc /\ r.pc = "return" /\ r.fd = proc[a].fd /\ r.key = proc[a].key
        /\ r.tmp = proc[a].tmp /\ r.new = proc[a].new
    BY <1>0 DEF Proc, Pcs
  <2>3. proc[a].fd = NoFile /\ proc[a].tmp = NoFile BY <1>0, <2>1 DEF HoldsOK
  <2> HIDE DEF r
  <2>4. proc'[a] = r BY <1>0, <2>1
  <2>5. RoleOK(a)' BY <1>0, <2>1, <2>2, <2>4, RolesDisjoint DEF RoleOK, PutPcs
  <2>6. HoldsOK(a)' BY <1>0, <2>1, <2>2, <2>3, <2>4 DEF HoldsOK, PutPcs
  <2>7. LockOwned' BY <1>0, <2>1, <2>2, LockStep DEF Holding
  <2>8. \A k \in Keys : /\ Len(entry[k]) \in 1..Len(entry[k]) /\ Current(k) = entry[k][Len(entry[k])]
                        /\ Current(k) \in Names
    BY <1>0 DEF Current
  <2>e. ASSUME NEW k \in Keys
        PROVE  /\ entry'[k] \in Seq(Names) /\ Len(entry'[k]) > 0
               /\ \A n \in 1..Len(entry'[k]) : \E m \in 1..Len(entry[k]) : entry'[k][n] = entry[k][m]
    <3>1. CASE k # proc[a].key
      <4>1. entry'[k] = entry[k] BY <1>0, <2>1, <3>1
      <4>2. QED BY <1>0, <4>1
    <3>2. CASE k = proc[a].key
      <4>1. entry'[k] = <<Current(k)>> BY <1>0, <2>1, <3>2
      <4>2. Len(<<Current(k)>>) = 1 /\ <<Current(k)>>[1] = Current(k) /\ <<Current(k)>> \in Seq(Names) BY <2>8
      <4>3. QED BY <2>8, <4>1, <4>2
    <3>3. QED BY <3>1, <3>2
  <2>9. StoreTypeOK'
    <3>1. entry' \in [Keys -> Seq(Names)] /\ \A k \in Keys : Len(entry'[k]) > 0 BY <1>0, <2>1, <2>e
    <3>2. lock' \in Writers \cup {None} BY <1>0, <2>1
    <3>3. QED BY <2>1, <2>2, <3>1, <3>2 DEF StoreInv, StoreTypeOK
  <2>10. \A k \in Keys : \A n \in 1..Len(entry'[k]) : \E m \in 1..Len(entry[k]) : entry'[k][n] = entry[k][m]
    BY <2>e
  <2>11. EntriesOK'
    <3> DEFINE PtrOK(i) == i # NoFile => Whole(i)
               BlobOK(i) == i # NoFile => files[i].len = Size \/ files[i].torn
    <3>1. /\ \A n \in 1..Len(entry["ptr"]) : PtrOK(entry["ptr"][n])
          /\ \A n \in 1..Len(entry["blob"]) : BlobOK(entry["blob"][n])
      BY DEF StoreInv, EntriesOK
    <3>2. \A i : PtrOK(i)' = PtrOK(i) /\ BlobOK(i)' = BlobOK(i) BY <2>1 DEF Whole
    <3>3. {"ptr", "blob"} \subseteq Keys BY DEF Keys
    <3> HIDE DEF PtrOK, BlobOK
    <3>4. /\ \A n \in 1..Len(entry'["ptr"]) : PtrOK(entry'["ptr"][n])
          /\ \A n \in 1..Len(entry'["blob"]) : BlobOK(entry'["blob"][n])
      BY <2>10, <3>1, <3>3
    <3>5. QED BY <2>1, <3>4 DEF EntriesOK, Whole, PtrOK, BlobOK
  <2>12. ASSUME NEW b \in Actors PROVE ActorOK(b)'
    <3>1. \A i : Named(i)' => Named(i) BY <2>10 DEF Named
    <3>2. /\ proc'[b].fd = proc[b].fd /\ proc'[b].tmp = proc[b].tmp /\ proc'[b].new = proc[b].new
          /\ b # a => proc'[b] = proc[b]
      BY <1>0, <2>1, <2>2
    <3>3. \A c \in Actors : proc'[c].fd = proc[c].fd /\ proc'[c].tmp = proc[c].tmp
      BY <1>0, <2>1, <2>2
    <3>4. TempOK(b)'
      <4>1. CASE b = a BY <4>1, <2>2, <2>3, <2>4 DEF TempOK
      <4>2. CASE b # a BY <4>2, <2>1, <3>1, <3>2, <3>3 DEF StoreInv, TempOK
      <4>3. QED BY <4>1, <4>2
    <3>5. RoleOK(b)' /\ HoldsOK(b)' /\ ReadOK(b)'
      <4>1. CASE b = a BY <4>1, <2>2, <2>3, <2>4, <2>5, <2>6 DEF ReadOK
      <4>2. CASE b # a BY <4>2, <2>1, <3>2, SameReader
      <4>3. QED BY <4>1, <4>2
    <3>6. QED BY <3>4, <3>5 DEF ActorOK
  <2>13. QED BY <2>7, <2>9, <2>11, <2>12 DEF StoreInv, ActorOK
<1>3. CASE FsyncFails(a) BY <1>0, <1>3, ToIdle DEF FsyncFails, Set
<1>4. CASE PutReturns(a)
  <2>1. acked' \subseteq Versions
    BY <1>0, <1>4 DEF PutReturns, HoldsOK, PutPcs, Proc
  <2>2. QED BY <1>0, <1>4, <2>1, ToIdle DEF PutReturns, Set
<1>5. QED BY <1>1, <1>2, <1>3, <1>4

\* Put over ssh: the remote cat, and the mv or rm that ends the command.
LEMMA SshPut ==
  ASSUME StoreInv, UNCHANGED cast, NEW a \in SshWriters, SshCat(a) \/ SshMove(a)
  PROVE  StoreInv'
<1>0. /\ a \in Actors /\ proc \in [Actors -> Proc] /\ proc[a] \in Proc /\ a \notin Writers
      /\ files \in [Inodes -> File] /\ clock \in Nat /\ lock \in Writers \cup {None}
      /\ HoldsOK(a) /\ RoleOK(a) /\ TempOK(a) /\ NoFile \notin Inodes
      /\ acked \subseteq Versions /\ blobs \in Nat /\ puts \in [Writers -> Nat]
      /\ Size \in Nat
  BY StoreAssumption, RolesDisjoint DEF StoreInv, StoreTypeOK, Actors
<1>1. CASE SshCat(a)
  <2>1. PICK i \in Inodes, n \in 0..Size :
          /\ Gone(i)
          /\ files' = [files EXCEPT ![i] = [Free EXCEPT !.ver = Blob, !.len = n, !.mtime = clock]]
          /\ proc' = [proc EXCEPT ![a] = [proc[a] EXCEPT !.pc = "rename", !.tmp = i]]
    BY <1>1 DEF SshCat, Set
  <2> DEFINE r == [proc[a] EXCEPT !.pc = "rename", !.tmp = i]
             f == [Free EXCEPT !.ver = Blob, !.len = n, !.mtime = clock]
  <2>2. f \in File /\ f.mtime <= clock /\ f.ver = Blob
    <3>1. Blob \in Versions BY DEF Versions
    <3>2. f \in File /\ f.mtime = clock /\ f.ver = Blob BY <1>0, <3>1, IdleTyped DEF File
    <3>3. QED BY <1>0, <3>2
  <2>3. Private(i, a) BY <1>0, <2>1, PrivateFiles
  <2>4. /\ r \in Proc /\ r.pc = "rename" /\ r.fd = proc[a].fd /\ r.key = proc[a].key
        /\ r.tmp = i /\ r.new = proc[a].new
    BY <1>0 DEF Proc, Pcs, Names
  <2>5. /\ proc[a].pc = "create" /\ UNCHANGED <<entry, lock, clock, puts, acked, losses, blobs>>
        /\ proc' = [proc EXCEPT ![a] = r] /\ files' = [files EXCEPT ![i] = f]
    BY <1>1, <2>1 DEF SshCat
  <2>6. r.fd = NoFile /\ r.key = "blob" /\ r.new # None /\ r.new = Blob
    BY <1>0, <2>4, <2>5 DEF HoldsOK, RoleOK, PutPcs
  <2> HIDE DEF r, f
  <2>7. files'[i].ver = r.new BY <1>0, <2>2, <2>5, <2>6
  <2>8. OwnWrite(a) BY <2>2, <2>3, <2>5 DEF OwnWrite
  <2>9. QED BY <1>0, <2>3, <2>4, <2>5, <2>6, <2>7, <2>8, WriterStep
<1>2. CASE SshMove(a)
  <2>1. /\ proc[a].pc = "rename" /\ proc' = [proc EXCEPT ![a] = Idle]
        /\ UNCHANGED <<lock, clock, puts, acked, losses, blobs>>
    BY <1>2 DEF SshMove, Set
  <2>2. proc[a].tmp # NoFile BY <1>0, <2>1 DEF HoldsOK
  <2>3. CASE files[proc[a].tmp].len = Size
    <3>1. entry' = [entry EXCEPT !["blob"] = Append(@, proc[a].tmp)] /\ files' = files
      BY <1>2, <2>3 DEF SshMove
    <3>2. Idle \in Proc /\ Idle.tmp = NoFile /\ Idle.fd = NoFile /\ "blob" \in Keys /\ "blob" # "ptr"
      BY IdleTyped DEF Idle, Keys
    <3>3. proc'[a] = Idle BY <1>0, <2>1
    <3>4. RoleOK(a)' /\ HoldsOK(a)' BY <3>3 DEF RoleOK, HoldsOK, Idle, PutPcs
    <3>5. QED BY <1>0, <2>1, <2>2, <2>3, <3>1, <3>2, <3>4, RenameStep
  <2>4. CASE files[proc[a].tmp].len # Size
    <3>1. files' = Removed(proc[a].tmp) /\ entry' = entry BY <1>2, <2>4 DEF SshMove
    <3>2. lock' = Unlocked(a) BY <1>0, <2>1, StoreAssumption DEF Unlocked, Actors
    <3>3. QED BY <1>0, <2>1, <3>1, <3>2, ToIdle
  <2>5. QED BY <2>3, <2>4
<1>3. QED BY <1>1, <1>2

\* A process dies; the clock ticks.
LEMMA DiesOrTicks ==
  ASSUME StoreInv, UNCHANGED cast,
         Tick \/ \E a \in cast \ Pollers : ProcessDies(a)
  PROVE  StoreInv'
<1>1. CASE Tick
  <2>1. /\ clock' = clock + 1 /\ UNCHANGED <<files, entry, lock, proc, puts, acked, losses, blobs>>
    BY <1>1 DEF Tick
  <2>2. StoreTypeOK' 
    <3>1. clock \in Nat /\ clock' \in Nat BY <2>1 DEF StoreInv, StoreTypeOK
    <3>2. \A i \in Inodes : files[i].mtime \in Nat /\ files[i].mtime <= clock
      BY DEF StoreInv, StoreTypeOK, File
    <3>3. \A i \in Inodes : files'[i].mtime <= clock' BY <2>1, <3>1, <3>2
    <3>4. QED BY <2>1, <3>1, <3>3 DEF StoreInv, StoreTypeOK
  <2>3. LockOwned' /\ EntriesOK' BY <2>1 DEF StoreInv, LockOwned, EntriesOK, Whole
  <2>4. ASSUME NEW b \in Actors PROVE ActorOK(b)'
    <3>1. TempOK(b)' BY <2>1 DEF StoreInv, TempOK, Named
    <3>2. QED BY <2>1, <3>1, SameReader DEF ActorOK
  <2>5. QED BY <2>2, <2>3, <2>4 DEF StoreInv, ActorOK
<1>2. ASSUME NEW a \in cast \ Pollers, ProcessDies(a) PROVE StoreInv'
  <2>1. a \in Actors /\ blobs \in Nat /\ acked \subseteq Versions BY DEF StoreInv, StoreTypeOK
  <2>2. QED BY <1>2, <2>1, ToIdle DEF ProcessDies, Set
<1>3. QED BY <1>1, <1>2

\* A power loss leaves every process dead and every key on a name it had.
LEMMA LosesPower ==
  ASSUME StoreInv, UNCHANGED cast, PowerLoss
  PROVE  StoreInv'
<1>1. PICK p \in 1..Len(entry["ptr"]), b \in 1..Len(entry["blob"]) :
        entry' = [entry EXCEPT !["ptr"] = <<@[p]>>, !["blob"] = <<@[b]>>]
  BY DEF PowerLoss
<1>2. PICK cut \in {0, Size} :
        files' = [i \in Inodes |-> IF files[i].synced \/ files[i].len <= cut THEN files[i]
                                   ELSE [files[i] EXCEPT !.len = cut, !.torn = TRUE]]
  BY DEF PowerLoss
<1>3. /\ losses' = losses + 1 /\ lock' = None /\ proc' = [a \in Actors |-> Idle]
      /\ UNCHANGED <<clock, puts, acked, blobs>>
  BY DEF PowerLoss
<1>4. /\ files \in [Inodes -> File] /\ entry \in [Keys -> Seq(Names)]
      /\ losses \in Nat /\ Size \in Nat /\ cut \in 0..Size
  BY StoreAssumption DEF StoreInv, StoreTypeOK
<1>5. ASSUME NEW i \in Inodes
      PROVE  /\ files'[i] \in File /\ files'[i].mtime = files[i].mtime
             /\ files[i].synced => files'[i] = files[i]
             /\ files'[i] = files[i] \/ files'[i].torn
             /\ files[i].torn => files'[i].torn
  BY <1>2, <1>4 DEF File
<1>6. /\ entry'["ptr"] = <<entry["ptr"][p]>> /\ entry'["blob"] = <<entry["blob"][b]>>
      /\ entry["ptr"][p] \in Names /\ entry["blob"][b] \in Names
      /\ entry' \in [Keys -> Seq(Names)] /\ \A k \in Keys : Len(entry'[k]) > 0
  <2>1. entry["ptr"] \in Seq(Names) /\ entry["blob"] \in Seq(Names) BY <1>4 DEF Keys
  <2>2. entry["ptr"][p] \in Names /\ entry["blob"][b] \in Names BY <2>1
  <2>3. entry'["ptr"] = <<entry["ptr"][p]>> /\ entry'["blob"] = <<entry["blob"][b]>>
    BY <1>1, <1>4 DEF Keys
  <2>4. \A k \in Keys : entry'[k] \in Seq(Names) /\ Len(entry'[k]) > 0
    <3>1. \A x \in Names : <<x>> \in Seq(Names) /\ Len(<<x>>) > 0 OBVIOUS
    <3>2. QED BY <2>2, <2>3, <3>1 DEF Keys
  <2>5. entry' \in [Keys -> Seq(Names)] BY <1>1, <1>4, <2>4
  <2>6. QED BY <2>2, <2>3, <2>4, <2>5
<1>7. StoreTypeOK'
  <2>1. files' \in [Inodes -> File] BY <1>2, <1>5
  <2>2. \A i \in Inodes : files'[i].mtime <= clock' BY <1>3, <1>5 DEF StoreInv, StoreTypeOK
  <2>3. proc' \in [Actors -> Proc] /\ losses' \in Nat /\ lock' \in Writers \cup {None}
    BY <1>3, <1>4, IdleTyped
  <2>4. QED BY <1>3, <1>6, <2>1, <2>2, <2>3 DEF StoreInv, StoreTypeOK
<1>8. LockOwned' BY <1>3, StoreAssumption DEF LockOwned, Idle, Actors
<1>9. EntriesOK'
  <2>1. entry["ptr"][p] # NoFile =>
          entry["ptr"][p] \in Inodes /\ files'[entry["ptr"][p]] = files[entry["ptr"][p]]
    BY <1>5, <1>6 DEF StoreInv, EntriesOK, Whole, Names
  <2>2. entry["ptr"][p] # NoFile => Whole(entry["ptr"][p]) BY DEF StoreInv, EntriesOK
  <2>3. entry["blob"][b] # NoFile =>
          files'[entry["blob"][b]].len = Size \/ files'[entry["blob"][b]].torn
    <3>1. entry["blob"][b] # NoFile =>
            /\ entry["blob"][b] \in Inodes
            /\ files[entry["blob"][b]].len = Size \/ files[entry["blob"][b]].torn
      BY <1>6 DEF StoreInv, EntriesOK, Names
    <3>2. QED BY <1>5, <3>1
  <2>4. \A n \in 1..Len(entry'["ptr"]) : entry'["ptr"][n] = entry["ptr"][p] BY <1>6
  <2>5. \A n \in 1..Len(entry'["blob"]) : entry'["blob"][n] = entry["blob"][b] BY <1>6
  <2>6. QED BY <2>1, <2>2, <2>3, <2>4, <2>5 DEF EntriesOK, Whole
<1>10. ASSUME NEW a \in Actors PROVE ActorOK(a)'
  <2>1. proc'[a] = Idle BY <1>3
  <2>2. QED BY <2>1 DEF ActorOK, RoleOK, HoldsOK, TempOK, ReadOK, Idle, PutPcs
<1>11. QED BY <1>7, <1>8, <1>9, <1>10 DEF StoreInv, ActorOK

\* The empty directory satisfies the invariant.
LEMMA StoreInvInit == StoreInit => StoreInv
<1> SUFFICES ASSUME StoreInit PROVE StoreInv
  OBVIOUS
<1>1. StoreTypeOK
  <2>1. <<NoFile>> \in Seq(Names) /\ Len(<<NoFile>>) > 0 BY DEF Names
  <2>2. Free.mtime = 0 BY DEF Free
  <2>3. cast \subseteq Actors BY StoreAssumption DEF StoreInit
  <2>4. QED BY <2>1, <2>2, <2>3, IdleTyped DEF StoreInit, StoreTypeOK
<1>2. \A n \in 1..Len(<<NoFile>>) : <<NoFile>>[n] = NoFile OBVIOUS
<1>3. EntriesOK BY <1>2 DEF StoreInit, EntriesOK, Keys
<1>4. LockOwned BY StoreAssumption DEF StoreInit, LockOwned, Idle, Actors
<1>5. ASSUME NEW a \in Actors PROVE ActorOK(a)
  BY DEF StoreInit, ActorOK, RoleOK, HoldsOK, TempOK, ReadOK, Idle, PutPcs
<1>6. QED BY <1>1, <1>3, <1>4, <1>5 DEF StoreInv, ActorOK

\* Every step of every process, and of the environment, keeps it.
LEMMA StoreInvStep == StoreInv /\ [StoreNext]_vars => StoreInv'
<1> SUFFICES ASSUME StoreInv, [StoreNext]_vars PROVE StoreInv'
  OBVIOUS
<1>1. CASE UNCHANGED vars
  <2> USE <1>1 DEF vars
  <2>1. StoreTypeOK' BY DEF StoreInv, StoreTypeOK
  <2>2. EntriesOK' /\ LockOwned' BY DEF StoreInv, EntriesOK, LockOwned, Whole
  <2>3. \A a \in Actors : TempOK(a)' BY DEF StoreInv, TempOK, Named
  <2>4. \A a \in Actors : RoleOK(a)' /\ HoldsOK(a)' /\ ReadOK(a)' BY SameReader
  <2>5. QED BY <2>1, <2>2, <2>3, <2>4 DEF StoreInv
<1>2. CASE StoreNext
  <2> USE <1>2 DEF StoreNext
  <2>1. CASE \E a \in cast \cap Pollers : Open(a) \/ NotModified(a) \/ Stat(a) \/ ReadChunk(a) \/ CloseObject(a)
    BY <2>1, GetStep
  <2>2. CASE \E a \in cast \cap Writers : Open(a) \/ GetAll(a) \/ NotFound(a)
    BY <2>2, GetStep
  <2>3. CASE \E a \in cast \cap Writers :
               Flock(a) \/ LockCancelled(a) \/ PreconditionFailed(a) \/ Matched(a)
    BY <2>3, PutBegins
  <2>4. CASE \E a \in cast \cap Writers : CreateTemp(a) \/ WriteChunk(a) \/ SyncTemp(a) \/ WriteFails(a)
    BY <2>4, PutWrites
  <2>5. CASE \E a \in cast \cap Writers : Rename(a) \/ FsyncDir(a) \/ FsyncFails(a) \/ PutReturns(a)
    BY <2>5, PutEnds
  <2>6. CASE \E a \in cast \cap BlobWriters : PutBlob(a)
    BY <2>6, PutBegins, StoreAssumption
  <2>7. CASE \E a \in cast \cap SshWriters : SshCat(a) \/ SshMove(a)
    BY <2>7, SshPut
  <2>8. CASE Tick \/ \E a \in cast \ Pollers : ProcessDies(a)
    BY <2>8, DiesOrTicks
  <2>9. CASE PowerLoss
    BY <2>9, LosesPower
  <2>10. QED BY <2>1, <2>2, <2>3, <2>4, <2>5, <2>6, <2>7, <2>8, <2>9 DEF Step
<1>3. QED BY <1>1, <1>2

(* The inductive invariant holds in every reachable state of the store.    *)
THEOREM StoreInvariant == StoreSpec => []StoreInv
BY StoreInvInit, StoreInvStep, PTL DEF StoreSpec

(* The state of the directory stays typed: no file is longer than the      *)
(* object or newer than the clock, no key loses its last entry.            *)
THEOREM StoreTypeCorrect == StoreSpec => []StoreTypeOK
<1>1. StoreInv => StoreTypeOK BY DEF StoreInv
<1>2. QED BY <1>1, StoreInvariant, PTL

(* file.go's lock: however Puts, failures, dying processes and power       *)
(* losses interleave, the flock is held exactly by the writer that is      *)
(* between its compare and its return.                                     *)
THEOREM LockAlwaysOwned == StoreSpec => []LockOwned
<1>1. StoreInv => LockOwned BY DEF StoreInv
<1>2. QED BY <1>1, StoreInvariant, PTL

(* Store.Put's promise: a Get that read to the end of the pointer has the  *)
(* whole object of one version, and open() finds whole objects.            *)
THEOREM ReadersSeeWhole == StoreSpec => []WholeObject
<1>1. StoreInv => WholeObject
  <2> SUFFICES ASSUME StoreInv PROVE WholeObject
    OBVIOUS
  <2>1. Len(entry["blob"]) \in 1..Len(entry["blob"])
    <3>1. entry["blob"] \in Seq(Names) /\ Len(entry["blob"]) > 0
      BY DEF StoreInv, StoreTypeOK, Keys
    <3>2. QED BY <3>1
  <2>2. QED BY <2>1 DEF StoreInv, ReadOK, EntriesOK, WholeObject, Current
<1>2. QED BY <1>1, StoreInvariant, PTL

-----------------------------------------------------------------------------
(***************************************************************************)
(* A file system that does not give an inode again within one tick of its  *)
(* clock makes fileETag name one version: the directory then implements    *)
(* CasStore, for any number of writers, inodes, puts and power losses.     *)
(***************************************************************************)
(* An ETag is of the version it was taken from for as long as somebody     *)
(* holds it.                                                               *)
TagOK(a) ==
  /\ proc[a].pc \in {"reading", "notmodified"} => proc[a].tag = FileETag(proc[a].fd)
  /\ proc[a].pc # "reading" /\ proc[a].tag # None =>
       LET m == proc[a].tag[1]
           i == proc[a].tag[2]
       IN  /\ m <= clock
           /\ files[i].mtime = m /\ files[i].ver # None => files[i].ver = proc[a].ver
           /\ \/ m < clock
              \/ /\ files[i].mtime = m /\ files[i].ver # None
                 /\ \A b \in Actors : proc[b].tmp # i

(* What a writer knows of the pointer it is about to replace: the version  *)
(* it read and, once it holds the lock and compared, the current one.      *)
BaseOK(w) ==
  /\ proc[w].pc = "idle" => proc[w].base = None
  /\ proc[w].pc = "opened" => proc[w].base = files[proc[w].fd].ver
  /\ proc[w].pc \in {"read", "locked"} =>
       proc[w].base = IF proc[w].tag = None THEN None ELSE proc[w].ver
  /\ proc[w].key = "ptr" /\ proc[w].pc \in {"create", "copy", "rename"} =>
       /\ proc[w].base = VersionOf(Current("ptr"))
       /\ puts[w] < MaxPuts /\ proc[w].new = <<w, puts[w] + 1>>
  /\ proc[w].key = "ptr" /\ proc[w].pc \in {"fsync", "return"} =>
       puts[w] > 0 /\ proc[w].new = <<w, puts[w]>>
  /\ proc[w].key = "ptr" /\ proc[w].pc = "return" => Len(entry["ptr"]) = 1

TagInv ==
  /\ StoreInv
  /\ \A a \in Actors : TagOK(a)
  /\ \A w \in Writers : BaseOK(w)

-----------------------------------------------------------------------------
(* What a step does to the files: it leaves one as it was to fileETag, or  *)
(* it removes or writes one that was free or somebody's temporary file.    *)
Loose(i) == Gone(i) \/ \E b \in Actors : proc[b].tmp = i
Same(i) == files'[i].ver = files[i].ver /\ files'[i].mtime = files[i].mtime
Written(i) == Loose(i) /\ (files'[i].ver = None \/ files'[i].mtime = clock)

FilesStep ==
  /\ \A i \in Inodes : Same(i) \/ Written(i)
  /\ \A b \in Actors : \A i \in Inodes : proc'[b].tmp = i => proc[b].tmp = i \/ Gone(i)
  /\ clock \in Nat /\ clock' \in Nat /\ clock <= clock'

(* One process moves, all others stay.                                     *)
Moves(a, r) == a \in Actors /\ proc' = [proc EXCEPT ![a] = r]

\* A step that writes no file.
LEMMA NoWrite ==
  ASSUME StoreInv, NEW a \in Actors, NEW r, Moves(a, r), r.tmp \in {NoFile, proc[a].tmp},
         files' = files, clock' = clock
  PROVE  FilesStep
<1>1. proc \in [Actors -> Proc] /\ clock \in Nat /\ NoFile \notin Inodes
  BY StoreAssumption DEF StoreInv, StoreTypeOK
<1>2. \A i \in Inodes : Same(i) BY DEF Same
<1>3. \A b \in Actors : proc'[b].tmp \in {NoFile, proc[b].tmp} BY <1>1 DEF Moves
<1>4. clock <= clock' BY <1>1
<1>5. QED BY <1>1, <1>2, <1>3, <1>4 DEF FilesStep

\* A step that writes or removes one loose file.
LEMMA OneWrite ==
  ASSUME StoreInv, NEW a \in Actors, NEW r, Moves(a, r), NEW i \in Inodes, NEW f,
         Loose(i), files' = [files EXCEPT ![i] = f],
         \/ f.ver = None
         \/ f.mtime = clock
         \/ f.ver = files[i].ver /\ f.mtime = files[i].mtime,
         r.tmp \in {NoFile, proc[a].tmp} \/ (r.tmp = i /\ Gone(i)), clock' = clock
  PROVE  FilesStep
<1>1. /\ proc \in [Actors -> Proc] /\ clock \in Nat /\ NoFile \notin Inodes
      /\ files \in [Inodes -> File]
  BY StoreAssumption DEF StoreInv, StoreTypeOK
<1>2. \A j \in Inodes : Same(j) \/ Written(j) BY <1>1 DEF Same, Written
<1>3. \A b \in Actors : \A j \in Inodes : proc'[b].tmp = j => proc[b].tmp = j \/ Gone(j)
  BY <1>1 DEF Moves
<1>4. clock <= clock' BY <1>1
<1>5. QED BY <1>1, <1>2, <1>3, <1>4 DEF FilesStep

\* A file that a key names or a process has open is not loose.
LEMMA OpenIsKept ==
  ASSUME StoreInv, FilesStep, NEW i \in Inodes,
         Named(i) \/ \E a \in Actors : proc[a].fd = i
  PROVE  Same(i)
<1>1. ~Gone(i) BY DEF Gone, InUse, Named
<1>2. \A b \in Actors : proc[b].tmp # i
  BY StoreAssumption DEF StoreInv, TempOK
<1>3. QED BY <1>1, <1>2 DEF FilesStep, Written, Loose

\* Whoever keeps its tag keeps it true.
LEMMA TagKept ==
  ASSUME StoreInv, ~InodeReuse, FilesStep, NEW a \in Actors, TagOK(a), proc'[a] \in Proc,
         proc'[a].tag = proc[a].tag, proc'[a].ver = proc[a].ver,
         \/ proc[a].pc # "reading" /\ proc'[a].pc \notin {"reading", "notmodified"}
         \/ proc'[a].pc = proc[a].pc /\ proc'[a].fd = proc[a].fd
  PROVE  TagOK(a)'
<1>0. /\ proc[a] \in Proc /\ files \in [Inodes -> File] /\ NoFile \notin Inodes
      /\ clock \in Nat /\ clock' \in Nat /\ clock <= clock' /\ HoldsOK(a)
  BY StoreAssumption DEF StoreInv, StoreTypeOK, FilesStep
<1>1. ASSUME proc'[a].pc \in {"reading", "notmodified"}
      PROVE  proc'[a].tag = FileETag(proc[a].fd)'
  <2>1. /\ proc'[a].pc = proc[a].pc /\ proc'[a].fd = proc[a].fd /\ proc[a].fd # NoFile
        /\ proc[a].tag = FileETag(proc[a].fd)
    BY <1>0, <1>1 DEF HoldsOK, TagOK
  <2>2. proc[a].fd \in Inodes BY <1>0, <2>1 DEF Proc, Names
  <2>3. files'[proc[a].fd].mtime = files[proc[a].fd].mtime BY <2>2, OpenIsKept DEF Same
  <2>4. QED BY <2>1, <2>3 DEF FileETag
<1>2. ASSUME proc'[a].pc # "reading", proc[a].tag # None,
             NEW m, NEW i, m = proc[a].tag[1], i = proc[a].tag[2]
      PROVE  /\ m <= clock'
             /\ files'[i].mtime = m /\ files'[i].ver # None => files'[i].ver = proc[a].ver
             /\ \/ m < clock'
                \/ /\ files'[i].mtime = m /\ files'[i].ver # None
                   /\ \A b \in Actors : proc'[b].tmp # i
  <2>0. proc[a].tag \in Nat \X Inodes BY <1>0, <1>2 DEF Proc
  <2>1. m \in Nat /\ i \in Inodes BY <1>2, <2>0
  <2>2. /\ m <= clock
        /\ files[i].mtime = m /\ files[i].ver # None => files[i].ver = proc[a].ver
        /\ \/ m < clock
           \/ /\ files[i].mtime = m /\ files[i].ver # None
              /\ \A b \in Actors : proc[b].tmp # i
    BY <1>2 DEF TagOK
  <2>3. Same(i) \/ Written(i) BY <2>1 DEF FilesStep
  <2>4. CASE m < clock
    <3>1. m < clock' /\ m <= clock' /\ m # clock BY <1>0, <2>1, <2>4
    <3>2. QED BY <2>2, <2>3, <3>1 DEF Same, Written
  <2>5. CASE ~(m < clock)
    <3>1. m = clock BY <1>0, <2>1, <2>2, <2>5
    <3>2. ~Gone(i)
      <4>1. ~(files[i].mtime < clock) BY <1>0, <2>1, <2>2, <2>5, <3>1
      <4>2. QED BY <2>2, <2>5, <4>1 DEF Gone
    <3>3. Same(i) BY <2>2, <2>3, <2>5, <3>2 DEF Written, Loose
    <3>4. \A b \in Actors : proc'[b].tmp # i BY <2>1, <2>2, <2>5, <3>2 DEF FilesStep
    <3>5. m <= clock' BY <1>0, <3>1
    <3>6. QED BY <2>2, <2>5, <3>3, <3>4, <3>5 DEF Same
  <2>6. QED BY <2>4, <2>5
<1>3. QED BY <1>1, <1>2 DEF TagOK, FileETag

\* The pointer that open() finds is the same file with the same version.
LEMMA PtrKept ==
  ASSUME StoreInv, FilesStep, entry'["ptr"] \in {entry["ptr"], <<Current("ptr")>>}
  PROVE  /\ Current("ptr") \in Names
         /\ Current("ptr")' = Current("ptr")
         /\ VersionOf(Current("ptr"))' = VersionOf(Current("ptr"))
<1>1. entry["ptr"] \in Seq(Names) /\ Len(entry["ptr"]) \in 1..Len(entry["ptr"]) /\ NoFile \notin Inodes
  <2>1. entry["ptr"] \in Seq(Names) /\ Len(entry["ptr"]) > 0
    BY DEF StoreInv, StoreTypeOK, Keys
  <2>2. QED BY <2>1, StoreAssumption
<1>2. Current("ptr") \in Names BY <1>1 DEF Current
<1>3. Current("ptr")' = Current("ptr")
  <2>1. \A x : <<x>>[Len(<<x>>)] = x OBVIOUS
  <2>2. CASE entry'["ptr"] = <<Current("ptr")>> BY <2>1, <2>2 DEF Current
  <2>3. CASE entry'["ptr"] = entry["ptr"] BY <2>3 DEF Current
  <2>4. QED BY <2>2, <2>3
<1>4. Current("ptr") # NoFile => Same(Current("ptr"))
  <2>1. Named(Current("ptr")) BY <1>1 DEF Named, Current, Keys
  <2>2. QED BY <1>2, <2>1, OpenIsKept DEF Names
<1>5. QED BY <1>2, <1>3, <1>4 DEF VersionOf, Same

\* A writer that does not move still knows what it knew.
LEMMA BaseKept ==
  ASSUME StoreInv, FilesStep, NEW w \in Writers, BaseOK(w), proc'[w] = proc[w], puts'[w] = puts[w],
         Holding(proc[w]) => entry'["ptr"] \in {entry["ptr"], <<Current("ptr")>>}
  PROVE  BaseOK(w)'
<1>0. w \in Actors /\ proc[w] \in Proc /\ HoldsOK(w) /\ NoFile \notin Inodes
  BY StoreAssumption DEF StoreInv, StoreTypeOK, Actors
<1>1. proc[w].pc = "opened" => files'[proc[w].fd].ver = files[proc[w].fd].ver
  BY <1>0, OpenIsKept DEF Same, HoldsOK, Proc, Names
<1>2. Holding(proc[w]) => VersionOf(Current("ptr"))' = VersionOf(Current("ptr")) BY PtrKept
<1>3. Holding(proc[w]) /\ Len(entry["ptr"]) = 1 => Len(entry'["ptr"]) = 1
  OBVIOUS
<1>4. QED BY <1>1, <1>2, <1>3 DEF BaseOK, Holding

\* One process moves and keeps or drops its tag: TagInv is kept when it is
\* kept for the mover, and only the holder of the lock renames the pointer.
LEMMA OneMoves ==
  ASSUME TagInv, ~InodeReuse, StoreInv', FilesStep, NEW a \in Actors, NEW r \in Proc, Moves(a, r),
         \/ TagOK(a)'
         \/ r.tag = None /\ r.pc \notin {"reading", "notmodified"}
         \/ /\ r.tag = proc[a].tag /\ r.ver = proc[a].ver
            /\ proc[a].pc # "reading" /\ r.pc \notin {"reading", "notmodified"},
         a \in Writers => BaseOK(a)',
         lock = a \/ entry'["ptr"] \in {entry["ptr"], <<Current("ptr")>>},
         \A w \in Writers \ {a} : puts'[w] = puts[w]
  PROVE  TagInv'
<1>0. proc \in [Actors -> Proc] /\ Writers \subseteq Actors /\ StoreInv
  BY DEF TagInv, StoreInv, StoreTypeOK, Actors
<1>1. proc'[a] = r /\ \A b \in Actors \ {a} : proc'[b] = proc[b] BY <1>0 DEF Moves
<1>2. TagOK(a)'
  <2>1. CASE r.tag = None /\ r.pc \notin {"reading", "notmodified"}
    BY <1>1, <2>1 DEF TagOK
  <2>2. CASE r.tag = proc[a].tag /\ r.ver = proc[a].ver
             /\ proc[a].pc # "reading" /\ r.pc \notin {"reading", "notmodified"}
    BY <1>0, <1>1, <2>2, TagKept DEF TagInv
  <2>3. QED BY <2>1, <2>2
<1>3. ASSUME NEW b \in Actors \ {a} PROVE TagOK(b)'
  BY <1>0, <1>1, TagKept DEF TagInv
<1>4. ASSUME NEW w \in Writers \ {a} PROVE BaseOK(w)'
  <2>1. lock = a => ~Holding(proc[w]) BY <1>0 DEF StoreInv, LockOwned, Holding
  <2>2. QED BY <1>0, <1>1, <2>1, BaseKept DEF TagInv
<1>5. QED BY <1>2, <1>3, <1>4 DEF TagInv

\* A process goes idle: its Put or Get ended, or it died.
LEMMA TagIdle ==
  ASSUME TagInv, ~InodeReuse, StoreInv', NEW a \in Actors, proc' = [proc EXCEPT ![a] = Idle],
         files' = files \/ files' = Removed(proc[a].tmp), UNCHANGED <<entry, clock, puts>>
  PROVE  TagInv'
<1>0. /\ proc \in [Actors -> Proc] /\ StoreInv /\ proc[a].tmp \in Names /\ NoFile \notin Inodes
      /\ proc[a].tmp # NoFile => Loose(proc[a].tmp)
  BY StoreAssumption DEF TagInv, StoreInv, StoreTypeOK, Loose, Proc
<1>1. /\ Idle \in Proc /\ Idle.tag = None /\ Idle.pc = "idle" /\ Idle.tmp = NoFile /\ Idle.base = None
      /\ Free.ver = None
  BY IdleTyped DEF Idle, Free
<1>2. proc'[a] = Idle /\ Moves(a, Idle) BY <1>0 DEF Moves
<1>3. FilesStep
  <2>1. CASE files' = files BY <1>0, <1>1, <1>2, <2>1, NoWrite
  <2>2. CASE proc[a].tmp # NoFile /\ files' = [files EXCEPT ![proc[a].tmp] = Free]
    <3>1. proc[a].tmp \in Inodes BY <1>0, <2>2 DEF Names
    <3>2. QED BY <1>0, <1>1, <1>2, <2>2, <3>1, OneWrite
  <2>3. QED BY <2>1, <2>2 DEF Removed
<1>4. BaseOK(a)' BY <1>1, <1>2 DEF BaseOK
<1>5. QED BY <1>0, <1>1, <1>2, <1>3, <1>4, OneMoves

-----------------------------------------------------------------------------
\* A tag is a time and an inode, never the empty tag.
LEMMA TagTyped ==
  ASSUME StoreInv, NEW i \in Inodes
  PROVE  /\ FileETag(i) \in Nat \X Inodes /\ FileETag(i) # None
         /\ FileETag(i)[1] = files[i].mtime /\ FileETag(i)[2] = i
<1>1. files[i].mtime \in Nat BY DEF StoreInv, StoreTypeOK, File
<1>2. FileETag(i) \in Nat \X Inodes BY <1>1 DEF FileETag
<1>3. None \notin Nat \X Inodes BY StoreAssumption
<1>4. FileETag(i) # None BY <1>2, <1>3
<1>5. QED BY <1>2, <1>4 DEF FileETag

\* A file read to its end is tagged with the version that was read.
LEMMA FreshTag ==
  ASSUME StoreInv, StoreInv', NEW a \in Actors, proc[a].fd # NoFile, UNCHANGED <<files, clock>>,
         proc'[a].fd = proc[a].fd, proc'[a].pc = "read",
         proc'[a].tag = FileETag(proc[a].fd), proc'[a].ver = files[proc[a].fd].ver
  PROVE  TagOK(a)' /\ proc'[a].tag # None
<1>0. /\ proc[a].fd \in Inodes /\ files \in [Inodes -> File]
      /\ clock \in Nat /\ files[proc[a].fd].mtime <= clock /\ files[proc[a].fd].mtime \in Nat
  BY DEF StoreInv, StoreTypeOK, Proc, Names, File
<1>1. Whole(proc[a].fd) BY DEF StoreInv, ReadOK
<1>2. \A b \in Actors : proc'[b].tmp # proc[a].fd
  BY DEF StoreInv, TempOK
<1>3. files[proc[a].fd].mtime < clock \/ files[proc[a].fd].mtime = clock BY <1>0
<1>4. /\ FileETag(proc[a].fd) # None
      /\ FileETag(proc[a].fd)[1] = files[proc[a].fd].mtime /\ FileETag(proc[a].fd)[2] = proc[a].fd
  BY <1>0, TagTyped
<1>5. QED BY <1>0, <1>1, <1>2, <1>3, <1>4 DEF TagOK, Whole

\* Get keeps TagInv.
LEMMA TagGet ==
  ASSUME TagInv, ~InodeReuse, StoreInv', NEW a \in Pollers \cup Writers,
         \/ Open(a)
         \/ a \in Pollers /\ (NotModified(a) \/ Stat(a) \/ ReadChunk(a) \/ CloseObject(a))
         \/ a \in Writers /\ (GetAll(a) \/ NotFound(a))
  PROVE  TagInv'
<1>0. /\ a \in Actors /\ proc \in [Actors -> Proc] /\ proc[a] \in Proc /\ proc' \in [Actors -> Proc]
      /\ StoreInv /\ HoldsOK(a) /\ TagOK(a) /\ (a \in Writers => BaseOK(a))
  BY DEF TagInv, StoreInv, StoreTypeOK, Actors
<1>a. a \in Pollers => a \notin Writers BY RolesDisjoint
<1>b. UNCHANGED <<files, entry, lock, clock, puts, acked, losses, blobs>>
  BY DEF Open, NotModified, Stat, ReadChunk, CloseObject, GetAll, NotFound
<1>c. ASSUME NEW r, Set(a, r), r.tmp \in {NoFile, proc[a].tmp}
      PROVE  r \in Proc /\ proc'[a] = r /\ Moves(a, r) /\ FilesStep
  <2>1. proc'[a] = r /\ Moves(a, r) /\ r \in Proc BY <1>0, <1>c DEF Set, Moves
  <2>2. FilesStep BY <1>0, <1>b, <1>c, <2>1, NoWrite
  <2>3. QED BY <2>1, <2>2
<1>1. CASE Open(a)
  <2> DEFINE r == [proc[a] EXCEPT !.pc = "opened", !.fd = Current("ptr"),
                                  !.base = VersionOf(Current("ptr"))]
  <2>1. Set(a, r) /\ proc[a].pc = "idle" /\ Current("ptr") # NoFile BY <1>1 DEF Open
  <2>2. /\ r.pc = "opened" /\ r.fd = Current("ptr") /\ r.base = VersionOf(Current("ptr"))
        /\ r.tmp = proc[a].tmp /\ r.tag = proc[a].tag /\ r.ver = proc[a].ver
    BY <1>0 DEF Proc
  <2> HIDE DEF r
  <2>3. r \in Proc /\ proc'[a] = r /\ Moves(a, r) /\ FilesStep BY <1>c, <2>1, <2>2
  <2>4. BaseOK(a)' BY <1>b, <2>1, <2>2, <2>3 DEF BaseOK, VersionOf
  <2>5. QED BY <1>0, <1>b, <2>1, <2>2, <2>3, <2>4, OneMoves
<1>2. CASE a \in Writers /\ NotFound(a)
  <2> DEFINE r == [Idle EXCEPT !.pc = "read"]
  <2>1. Set(a, r) /\ proc[a].pc = "idle" BY <1>2 DEF NotFound
  <2>2. r.pc = "read" /\ r.base = None /\ r.tmp = NoFile /\ r.tag = None
    BY DEF Idle
  <2> HIDE DEF r
  <2>3. r \in Proc /\ proc'[a] = r /\ Moves(a, r) /\ FilesStep BY <1>c, <2>1, <2>2
  <2>4. BaseOK(a)' BY <2>2, <2>3 DEF BaseOK
  <2>5. QED BY <1>0, <1>b, <2>1, <2>2, <2>3, <2>4, OneMoves
<1>3. CASE a \in Writers /\ GetAll(a)
  <2> DEFINE f == files[proc[a].fd]
             r == [proc[a] EXCEPT !.pc = "read", !.tag = FileETag(proc[a].fd), !.ver = f.ver,
                                  !.got = [n \in 1..f.len |-> f.ver]]
  <2>1. Set(a, r) /\ proc[a].pc = "opened" BY <1>3 DEF GetAll
  <2>2. /\ r.pc = "read" /\ r.fd = proc[a].fd /\ r.base = proc[a].base
        /\ r.tmp = proc[a].tmp /\ r.tag = FileETag(proc[a].fd) /\ r.ver = files[proc[a].fd].ver
    BY <1>0 DEF Proc
  <2> HIDE DEF r
  <2>3. r \in Proc /\ proc'[a] = r /\ Moves(a, r) /\ FilesStep BY <1>c, <2>1, <2>2
  <2>4. proc[a].fd # NoFile BY <1>0, <2>1 DEF HoldsOK
  <2>5. TagOK(a)' /\ r.tag # None BY <1>0, <1>b, <2>2, <2>3, <2>4, FreshTag
  <2>6. BaseOK(a)' BY <1>0, <1>3, <2>1, <2>2, <2>3, <2>5 DEF BaseOK
  <2>7. QED BY <1>0, <1>b, <2>3, <2>5, <2>6, OneMoves
<1>4. CASE a \in Pollers /\ NotModified(a)
  <2> DEFINE r == [proc[a] EXCEPT !.pc = "notmodified"]
  <2>1. Set(a, r) /\ proc[a].pc = "opened" /\ proc[a].tag = FileETag(proc[a].fd)
    BY <1>4 DEF NotModified
  <2>2. /\ r.pc = "notmodified" /\ r.fd = proc[a].fd
        /\ r.tmp = proc[a].tmp /\ r.tag = proc[a].tag /\ r.ver = proc[a].ver
    BY <1>0 DEF Proc
  <2> HIDE DEF r
  <2>3. r \in Proc /\ proc'[a] = r /\ Moves(a, r) /\ FilesStep BY <1>c, <2>1, <2>2
  <2>4. \A b \in Actors : proc'[b].tmp = proc[b].tmp BY <1>0, <2>2, <2>3 DEF Moves
  <2>5. TagOK(a)' BY <1>0, <1>b, <2>1, <2>2, <2>3, <2>4 DEF TagOK, FileETag
  <2>6. QED BY <1>0, <1>a, <1>b, <1>4, <2>3, <2>5, OneMoves
<1>5. CASE a \in Pollers /\ Stat(a)
  <2> DEFINE r == [proc[a] EXCEPT !.pc = "reading", !.tag = FileETag(proc[a].fd)]
  <2>1. Set(a, r) BY <1>5 DEF Stat
  <2>2. /\ r.pc = "reading" /\ r.fd = proc[a].fd
        /\ r.tmp = proc[a].tmp /\ r.tag = FileETag(proc[a].fd)
    BY <1>0 DEF Proc
  <2> HIDE DEF r
  <2>3. r \in Proc /\ proc'[a] = r /\ Moves(a, r) /\ FilesStep BY <1>c, <2>1, <2>2
  <2>4. TagOK(a)' BY <1>b, <2>2, <2>3 DEF TagOK, FileETag
  <2>5. QED BY <1>0, <1>a, <1>b, <1>5, <2>3, <2>4, OneMoves
<1>6. CASE a \in Pollers /\ ReadChunk(a) /\ Len(proc[a].got) < files[proc[a].fd].len
  <2> DEFINE r == [proc[a] EXCEPT !.got = Append(@, files[proc[a].fd].ver)]
  <2>1. Set(a, r) /\ proc[a].pc = "reading" BY <1>6 DEF ReadChunk
  <2>2. /\ r.pc = proc[a].pc /\ r.fd = proc[a].fd
        /\ r.tmp = proc[a].tmp /\ r.tag = proc[a].tag /\ r.ver = proc[a].ver
    BY <1>0 DEF Proc
  <2> HIDE DEF r
  <2>3. r \in Proc /\ proc'[a] = r /\ Moves(a, r) /\ FilesStep BY <1>c, <2>1, <2>2
  <2>4. TagOK(a)' BY <1>0, <2>2, <2>3, TagKept
  <2>5. QED BY <1>0, <1>a, <1>b, <1>6, <2>3, <2>4, OneMoves
<1>7. CASE a \in Pollers /\ ReadChunk(a) /\ ~(Len(proc[a].got) < files[proc[a].fd].len)
  <2> DEFINE r == [proc[a] EXCEPT !.pc = "read", !.ver = files[proc[a].fd].ver]
  <2>1. Set(a, r) /\ proc[a].pc = "reading" BY <1>7 DEF ReadChunk
  <2>2. /\ r.pc = "read" /\ r.fd = proc[a].fd
        /\ r.tmp = proc[a].tmp /\ r.tag = proc[a].tag /\ r.ver = files[proc[a].fd].ver
    BY <1>0 DEF Proc
  <2> HIDE DEF r
  <2>3. r \in Proc /\ proc'[a] = r /\ Moves(a, r) /\ FilesStep BY <1>c, <2>1, <2>2
  <2>4. proc[a].fd # NoFile /\ proc[a].tag = FileETag(proc[a].fd)
    BY <1>0, <2>1 DEF HoldsOK, TagOK
  <2>5. TagOK(a)' BY <1>0, <1>b, <2>2, <2>3, <2>4, FreshTag
  <2>6. QED BY <1>0, <1>a, <1>b, <1>7, <2>3, <2>5, OneMoves
<1>8. CASE a \in Pollers /\ CloseObject(a)
  <2> DEFINE r == [proc[a] EXCEPT !.pc = "idle", !.fd = NoFile, !.got = <<>>, !.base = None]
  <2>1. Set(a, r) /\ proc[a].pc # "reading" BY <1>8 DEF CloseObject
  <2>2. /\ r.pc = "idle" /\ r.tmp = proc[a].tmp /\ r.tag = proc[a].tag /\ r.ver = proc[a].ver
    BY <1>0 DEF Proc
  <2> HIDE DEF r
  <2>3. r \in Proc /\ proc'[a] = r /\ Moves(a, r) /\ FilesStep BY <1>c, <2>1, <2>2
  <2>4. QED BY <1>0, <1>a, <1>b, <1>8, <2>1, <2>2, <2>3, OneMoves
<1>9. QED BY <1>1, <1>2, <1>3, <1>4, <1>5, <1>6, <1>7, <1>8

\* The compare under the lock: a tag that matches is of the current pointer.
LEMMA MatchedIsCurrent ==
  ASSUME StoreInv, NEW w \in Writers, TagOK(w), BaseOK(w), proc[w].pc = "locked", CurrentTag = proc[w].tag
  PROVE  proc[w].base = VersionOf(Current("ptr"))
<1>0. w \in Actors /\ proc[w] \in Proc /\ entry["ptr"] \in Seq(Names) /\ Len(entry["ptr"]) > 0
      /\ files \in [Inodes -> File]
  BY DEF StoreInv, StoreTypeOK, Actors, Keys
<1>1. CASE Current("ptr") = NoFile BY <1>1 DEF CurrentTag, BaseOK, VersionOf
<1>2. CASE Current("ptr") # NoFile
  <2>1. Len(entry["ptr"]) \in 1..Len(entry["ptr"]) BY <1>0
  <2>2. Current("ptr") \in Inodes /\ Whole(Current("ptr"))
    BY <1>0, <1>2, <2>1 DEF Current, StoreInv, EntriesOK, Names
  <2>3. proc[w].tag = <<files[Current("ptr")].mtime, Current("ptr")>> BY <1>2 DEF CurrentTag, FileETag
  <2>4. proc[w].tag # None BY <2>2, <2>3, TagTyped DEF FileETag
  <2>5. files[Current("ptr")].ver = proc[w].ver BY <2>2, <2>3, <2>4 DEF TagOK, Whole
  <2>6. QED BY <1>2, <2>4, <2>5 DEF BaseOK, VersionOf
<1>3. QED BY <1>1, <1>2

\* Put keeps TagInv.
LEMMA TagPut ==
  ASSUME TagInv, ~InodeReuse, StoreInv', NEW a \in Writers,
         \/ Flock(a) \/ LockCancelled(a) \/ PreconditionFailed(a) \/ Matched(a)
         \/ CreateTemp(a) \/ WriteChunk(a) \/ SyncTemp(a) \/ WriteFails(a)
         \/ Rename(a) \/ FsyncDir(a) \/ FsyncFails(a) \/ PutReturns(a)
  PROVE  TagInv'
<1>0. /\ a \in Actors /\ proc \in [Actors -> Proc] /\ proc[a] \in Proc /\ proc' \in [Actors -> Proc]
      /\ StoreInv /\ HoldsOK(a) /\ RoleOK(a) /\ TagOK(a) /\ BaseOK(a)
      /\ files \in [Inodes -> File] /\ puts \in [Writers -> Nat] /\ NoFile \notin Inodes
      /\ (lock = a <=> Holding(proc[a]))
  BY StoreAssumption DEF TagInv, StoreInv, StoreTypeOK, Actors, LockOwned, Holding
<1>a. ASSUME NEW r, Set(a, r)
      PROVE  r \in Proc /\ proc'[a] = r /\ Moves(a, r)
  BY <1>0, <1>a DEF Set, Moves
<1>b. proc[a].pc \in {"copy", "rename"} => proc[a].tmp \in Inodes /\ Loose(proc[a].tmp)
  BY <1>0 DEF HoldsOK, Proc, Names, Loose
<1>1. CASE Flock(a)
  <2> DEFINE r == [proc[a] EXCEPT !.pc = "locked", !.fd = NoFile, !.got = <<>>]
  <2>1. Set(a, r) /\ proc[a].pc = "read" /\ UNCHANGED <<files, entry, clock, puts>> BY <1>1 DEF Flock
  <2>2. /\ r.pc = "locked" /\ r.base = proc[a].base /\ r.tmp = proc[a].tmp
        /\ r.tag = proc[a].tag /\ r.ver = proc[a].ver
    BY <1>0 DEF Proc
  <2> HIDE DEF r
  <2>3. r \in Proc /\ proc'[a] = r /\ Moves(a, r) BY <1>a, <2>1
  <2>4. FilesStep BY <1>0, <2>1, <2>2, <2>3, NoWrite
  <2>5. BaseOK(a)' BY <1>0, <2>1, <2>2, <2>3 DEF BaseOK
  <2>6. QED BY <1>0, <2>1, <2>2, <2>3, <2>4, <2>5, OneMoves
<1>2. CASE LockCancelled(a) \/ PreconditionFailed(a) \/ WriteFails(a) \/ FsyncFails(a) \/ PutReturns(a)
  BY <1>0, <1>2, TagIdle DEF LockCancelled, PreconditionFailed, WriteFails, FsyncFails, PutReturns, Set
<1>3. CASE Matched(a)
  <2> DEFINE r == [proc[a] EXCEPT !.pc = "create", !.new = <<a, puts[a] + 1>>]
  <2>1. /\ Set(a, r) /\ proc[a].pc = "locked" /\ UNCHANGED <<files, entry, clock, puts>>
        /\ CurrentTag = proc[a].tag /\ puts[a] < MaxPuts
    BY <1>3 DEF Matched
  <2>2. /\ r.pc = "create" /\ r.base = proc[a].base /\ r.tmp = proc[a].tmp
        /\ r.tag = proc[a].tag /\ r.ver = proc[a].ver /\ r.new = <<a, puts[a] + 1>>
    BY <1>0 DEF Proc
  <2> HIDE DEF r
  <2>3. r \in Proc /\ proc'[a] = r /\ Moves(a, r) BY <1>a, <2>1
  <2>4. FilesStep BY <1>0, <2>1, <2>2, <2>3, NoWrite
  <2>5. proc[a].base = VersionOf(Current("ptr")) BY <1>0, <2>1, MatchedIsCurrent
  <2>6. VersionOf(Current("ptr"))' = VersionOf(Current("ptr")) BY <2>1 DEF VersionOf, Current
  <2>7. BaseOK(a)' BY <1>0, <2>1, <2>2, <2>3, <2>5, <2>6 DEF BaseOK
  <2>8. QED BY <1>0, <2>1, <2>2, <2>3, <2>4, <2>7, OneMoves
<1>4. CASE CreateTemp(a)
  <2>1. PICK i \in Inodes :
          /\ Gone(i)
          /\ files' = [files EXCEPT ![i] = [Free EXCEPT !.ver = proc[a].new, !.mtime = clock]]
          /\ Set(a, [proc[a] EXCEPT !.pc = "copy", !.tmp = i])
    BY <1>4 DEF CreateTemp
  <2> DEFINE r == [proc[a] EXCEPT !.pc = "copy", !.tmp = i]
             f == [Free EXCEPT !.ver = proc[a].new, !.mtime = clock]
  <2>2. /\ r.pc = "copy" /\ r.base = proc[a].base /\ r.tmp = i /\ r.key = proc[a].key
        /\ r.tag = proc[a].tag /\ r.ver = proc[a].ver /\ r.new = proc[a].new
        /\ f.mtime = clock
    BY <1>0 DEF Proc, Free
  <2>3. /\ Set(a, r) /\ files' = [files EXCEPT ![i] = f]
        /\ proc[a].pc = "create" /\ UNCHANGED <<entry, clock, puts>>
    BY <1>4, <2>1 DEF CreateTemp
  <2> HIDE DEF r, f
  <2>4. r \in Proc /\ proc'[a] = r /\ Moves(a, r) BY <1>a, <2>3
  <2>5. FilesStep
    <3>1. Loose(i) BY <2>1 DEF Loose
    <3>2. QED BY <1>0, <2>1, <2>2, <2>3, <2>4, <3>1, OneWrite
  <2>6. VersionOf(Current("ptr"))' = VersionOf(Current("ptr")) BY <1>0, <2>3, <2>5, PtrKept
  <2>7. BaseOK(a)' BY <1>0, <2>2, <2>3, <2>4, <2>6 DEF BaseOK
  <2>8. QED BY <1>0, <2>2, <2>3, <2>4, <2>5, <2>7, OneMoves
<1>5. CASE WriteChunk(a)
  <2> DEFINE i == proc[a].tmp
             f == [files[i] EXCEPT !.len = @ + 1, !.mtime = clock]
  <2>1. /\ proc[a].pc = "copy" /\ UNCHANGED <<entry, clock, puts, proc>>
        /\ files' = [files EXCEPT ![i].len = @ + 1, ![i].mtime = clock]
    BY <1>5 DEF WriteChunk
  <2>2. i \in Inodes /\ Loose(i) BY <1>b, <2>1
  <2>3. files' = [files EXCEPT ![i] = f] /\ f.mtime = clock BY <1>0, <2>1, <2>2 DEF File
  <2> HIDE DEF f
  <2>4. Moves(a, proc[a]) BY <1>0, <2>1 DEF Moves
  <2>5. FilesStep BY <1>0, <2>1, <2>2, <2>3, <2>4, OneWrite
  <2>6. VersionOf(Current("ptr"))' = VersionOf(Current("ptr")) BY <1>0, <2>1, <2>5, PtrKept
  <2>7. BaseOK(a)' BY <1>0, <2>1, <2>6 DEF BaseOK
  <2>8. QED BY <1>0, <2>1, <2>4, <2>5, <2>7, OneMoves
<1>6. CASE SyncTemp(a)
  <2> DEFINE i == proc[a].tmp
             f == [files[i] EXCEPT !.synced = TRUE]
             r == [proc[a] EXCEPT !.pc = "rename"]
  <2>1. /\ proc[a].pc = "copy" /\ UNCHANGED <<entry, clock, puts>> /\ Set(a, r)
        /\ files' = [files EXCEPT ![i].synced = TRUE]
    BY <1>6 DEF SyncTemp, Goto
  <2>2. i \in Inodes /\ Loose(i) BY <1>b, <2>1
  <2>3. files' = [files EXCEPT ![i] = f] /\ f.mtime = files[i].mtime /\ f.ver = files[i].ver
    BY <1>0, <2>1, <2>2 DEF File
  <2>4. /\ r.pc = "rename" /\ r.base = proc[a].base /\ r.tmp = proc[a].tmp /\ r.key = proc[a].key
        /\ r.tag = proc[a].tag /\ r.ver = proc[a].ver /\ r.new = proc[a].new
    BY <1>0 DEF Proc
  <2> HIDE DEF f, r
  <2>5. r \in Proc /\ proc'[a] = r /\ Moves(a, r) BY <1>a, <2>1
  <2>6. FilesStep
    <3>1. StoreInv /\ a \in Actors /\ clock' = clock /\ r.tmp \in {NoFile, proc[a].tmp} BY <1>0, <2>1, <2>4
    <3>2. QED BY <2>2, <2>3, <2>5, <3>1, OneWrite
  <2>7. VersionOf(Current("ptr"))' = VersionOf(Current("ptr")) BY <1>0, <2>1, <2>6, PtrKept
  <2>8. BaseOK(a)' BY <1>0, <2>1, <2>4, <2>5, <2>7 DEF BaseOK
  <2>9. QED BY <1>0, <2>1, <2>4, <2>5, <2>6, <2>8, OneMoves
<1>7. CASE Rename(a)
  <2> DEFINE k == proc[a].key
             r == [proc[a] EXCEPT !.pc = "fsync", !.tmp = NoFile]
  <2>1. /\ proc[a].pc = "rename" /\ Set(a, r) /\ UNCHANGED <<files, clock>>
        /\ entry' = [entry EXCEPT ![k] = Append(@, proc[a].tmp)]
        /\ puts' = IF k = "ptr" THEN [puts EXCEPT ![a] = @ + 1] ELSE puts
    BY <1>7 DEF Rename
  <2>2. /\ r.pc = "fsync" /\ r.tmp = NoFile /\ r.key = k
        /\ r.tag = proc[a].tag /\ r.ver = proc[a].ver /\ r.new = proc[a].new
    BY <1>0 DEF Proc
  <2> HIDE DEF r
  <2>3. r \in Proc /\ proc'[a] = r /\ Moves(a, r) BY <1>a, <2>1
  <2>4. FilesStep BY <1>0, <2>1, <2>2, <2>3, NoWrite
  <2>5. k = "ptr" => puts'[a] = puts[a] + 1 /\ puts[a] \in Nat /\ proc[a].new = <<a, puts[a] + 1>>
    BY <1>0, <2>1 DEF BaseOK
  <2>6. BaseOK(a)'
    <3>1. k = "ptr" => puts'[a] > 0 /\ proc[a].new = <<a, puts'[a]>> BY <2>5
    <3>2. QED BY <2>2, <2>3, <3>1 DEF BaseOK
  <2>7. lock = a \/ entry'["ptr"] = entry["ptr"]
    <3>1. CASE k = "ptr" BY <1>0, <2>1, <3>1 DEF Holding
    <3>2. CASE k # "ptr"
      BY <2>1, <3>2 DEF StoreInv, TagInv, StoreTypeOK, Keys
    <3>3. QED BY <3>1, <3>2
  <2>8. \A w \in Writers \ {a} : puts'[w] = puts[w] BY <1>0, <2>1
  <2>9. QED BY <1>0, <2>1, <2>2, <2>3, <2>4, <2>6, <2>7, <2>8, OneMoves
<1>8. CASE FsyncDir(a)
  <2> DEFINE r == [proc[a] EXCEPT !.pc = "return"]
  <2>1. /\ proc[a].pc = "fsync" /\ Set(a, r) /\ UNCHANGED <<files, clock, puts>>
        /\ entry' = [entry EXCEPT ![proc[a].key] = <<Current(proc[a].key)>>]
    BY <1>8 DEF FsyncDir, Goto
  <2>2. /\ r.pc = "return" /\ r.tmp = proc[a].tmp /\ r.key = proc[a].key
        /\ r.tag = proc[a].tag /\ r.ver = proc[a].ver /\ r.new = proc[a].new
    BY <1>0 DEF Proc
  <2> HIDE DEF r
  <2>3. r \in Proc /\ proc'[a] = r /\ Moves(a, r) BY <1>a, <2>1
  <2>4. FilesStep BY <1>0, <2>1, <2>2, <2>3, NoWrite
  <2>5. /\ entry'["ptr"] \in {entry["ptr"], <<Current("ptr")>>}
        /\ proc[a].key = "ptr" => Len(entry'["ptr"]) = 1
    BY <1>0, <2>1 DEF Keys, TagInv, StoreInv, StoreTypeOK
  <2>6. BaseOK(a)' BY <1>0, <2>1, <2>2, <2>3, <2>5 DEF BaseOK
  <2>7. QED BY <1>0, <2>1, <2>2, <2>3, <2>4, <2>5, <2>6, OneMoves
<1>9. QED BY <1>1, <1>2, <1>3, <1>4, <1>5, <1>6, <1>7, <1>8

\* A blob put through file:// or ssh:// keeps TagInv.
LEMMA TagBlob ==
  ASSUME TagInv, ~InodeReuse, StoreInv', NEW a \in Writers \cup SshWriters,
         PutBlob(a) \/ (a \in SshWriters /\ (SshCat(a) \/ SshMove(a)))
  PROVE  TagInv'
<1>0. /\ a \in Actors /\ proc \in [Actors -> Proc] /\ proc[a] \in Proc /\ proc' \in [Actors -> Proc]
      /\ StoreInv /\ RoleOK(a) /\ HoldsOK(a) /\ files \in [Inodes -> File] /\ NoFile \notin Inodes
      /\ entry \in [Keys -> Seq(Names)]
      /\ a \in SshWriters => a \notin Writers
  BY StoreAssumption, RolesDisjoint DEF TagInv, StoreInv, StoreTypeOK, Actors
<1>1. CASE PutBlob(a)
  <2> DEFINE r == [Idle EXCEPT !.pc = "create", !.key = "blob", !.new = Blob]
  <2>1. Set(a, r) /\ UNCHANGED <<files, entry, clock, puts>> BY <1>1 DEF PutBlob
  <2>2. r.pc = "create" /\ r.tmp = NoFile /\ r.key = "blob" /\ r.tag = None
    BY DEF Idle
  <2> HIDE DEF r
  <2>3. proc'[a] = r /\ Moves(a, r) /\ r \in Proc BY <1>0, <2>1 DEF Set, Moves
  <2>4. FilesStep BY <1>0, <2>1, <2>2, <2>3, NoWrite
  <2>5. BaseOK(a)' BY <2>2, <2>3 DEF BaseOK
  <2>6. QED BY <1>0, <2>1, <2>2, <2>3, <2>4, <2>5, OneMoves
<1>2. CASE a \in SshWriters /\ SshCat(a)
  <2>1. PICK i \in Inodes, n \in 0..Size :
          /\ Gone(i)
          /\ files' = [files EXCEPT ![i] = [Free EXCEPT !.ver = Blob, !.len = n, !.mtime = clock]]
          /\ Set(a, [proc[a] EXCEPT !.pc = "rename", !.tmp = i])
    BY <1>2 DEF SshCat
  <2> DEFINE r == [proc[a] EXCEPT !.pc = "rename", !.tmp = i]
             f == [Free EXCEPT !.ver = Blob, !.len = n, !.mtime = clock]
  <2>2. /\ r.pc = "rename" /\ r.tmp = i /\ r.tag = proc[a].tag /\ r.ver = proc[a].ver
        /\ f.mtime = clock
    BY <1>0 DEF Proc, Free
  <2>3. /\ Set(a, r) /\ files' = [files EXCEPT ![i] = f]
        /\ proc[a].pc = "create" /\ UNCHANGED <<entry, clock, puts>>
    BY <1>2, <2>1 DEF SshCat
  <2> HIDE DEF r, f
  <2>4. proc'[a] = r /\ Moves(a, r) /\ r \in Proc BY <1>0, <2>3 DEF Set, Moves
  <2>5. FilesStep
    <3>1. Loose(i) BY <2>1 DEF Loose
    <3>2. QED BY <1>0, <2>1, <2>2, <2>3, <2>4, <3>1, OneWrite
  <2>6. QED BY <1>0, <1>2, <2>2, <2>3, <2>4, <2>5, OneMoves
<1>3. CASE a \in SshWriters /\ SshMove(a)
  <2>1. /\ proc[a].pc = "rename" /\ proc' = [proc EXCEPT ![a] = Idle] /\ UNCHANGED <<clock, puts>>
    BY <1>3 DEF SshMove, Set
  <2>2. CASE files[proc[a].tmp].len = Size
    <3>1. files' = files /\ entry'["ptr"] = entry["ptr"]
      BY <1>0, <1>3, <2>2 DEF SshMove, Keys
    <3>2. Idle \in Proc /\ Idle.tag = None /\ Idle.pc = "idle" /\ Idle.tmp = NoFile
      BY IdleTyped DEF Idle
    <3>3. Moves(a, Idle) BY <1>0, <2>1 DEF Moves
    <3>4. FilesStep BY <1>0, <2>1, <3>1, <3>2, <3>3, NoWrite
    <3>5. QED BY <1>0, <1>3, <2>1, <3>1, <3>2, <3>3, <3>4, OneMoves
  <2>3. CASE files[proc[a].tmp].len # Size
    BY <1>0, <1>3, <2>1, <2>3, TagIdle DEF SshMove
  <2>4. QED BY <2>2, <2>3
<1>4. QED BY <1>1, <1>2, <1>3

\* The environment keeps TagInv.
LEMMA TagEnvironment ==
  ASSUME TagInv, ~InodeReuse, StoreInv',
         Tick \/ PowerLoss \/ \E a \in cast \ Pollers : ProcessDies(a)
  PROVE  TagInv'
<1>0. /\ proc \in [Actors -> Proc] /\ proc' \in [Actors -> Proc] /\ StoreInv /\ clock \in Nat
      /\ cast \subseteq Actors /\ Writers \subseteq Actors
  BY DEF TagInv, StoreInv, StoreTypeOK, Actors
<1>1. CASE Tick
  <2>1. clock' = clock + 1 /\ UNCHANGED <<files, entry, proc, puts>> BY <1>1 DEF Tick
  <2>2. FilesStep
    <3>1. clock' \in Nat /\ clock <= clock' BY <1>0, <2>1
    <3>2. \A i \in Inodes : Same(i) BY <2>1 DEF Same
    <3>3. QED BY <1>0, <2>1, <3>1, <3>2 DEF FilesStep
  <2>3. \A a \in Actors : TagOK(a)' BY <1>0, <2>1, <2>2, TagKept DEF TagInv
  <2>4. \A w \in Writers : BaseOK(w)' BY <1>0, <2>1, <2>2, BaseKept DEF TagInv
  <2>5. QED BY <2>3, <2>4 DEF TagInv
<1>2. CASE PowerLoss
  <2>1. \A a \in Actors : proc'[a] = Idle BY <1>2 DEF PowerLoss
  <2>2. \A a \in Actors : TagOK(a)' BY <2>1 DEF TagOK, Idle
  <2>3. \A w \in Writers : BaseOK(w)' BY <1>0, <2>1 DEF BaseOK, Idle
  <2>4. QED BY <2>2, <2>3 DEF TagInv
<1>3. ASSUME NEW a \in cast \ Pollers, ProcessDies(a) PROVE TagInv'
  BY <1>0, <1>3, TagIdle DEF ProcessDies, Set
<1>4. QED BY <1>1, <1>2, <1>3

\* With inodes not reused within a tick, TagInv is inductive.
LEMMA TagInvInit == StoreInit => TagInv
<1> SUFFICES ASSUME StoreInit PROVE TagInv
  OBVIOUS
<1>1. StoreInv BY StoreInvInit
<1>2. \A a \in Actors : proc[a] = Idle BY DEF StoreInit
<1>3. \A a \in Actors : TagOK(a) BY <1>2 DEF TagOK, Idle
<1>4. \A w \in Writers : BaseOK(w) BY <1>2 DEF BaseOK, Idle, Actors
<1>5. QED BY <1>1, <1>3, <1>4 DEF TagInv

\* Every step keeps TagInv.
LEMMA TagInvStep ==
  ASSUME ~InodeReuse, TagInv, [StoreNext]_vars
  PROVE  TagInv'
<1>0. StoreInv' BY StoreInvStep DEF TagInv
<1>1. CASE UNCHANGED vars
  <2> USE <1>1 DEF vars
  <2>1. \A a \in Actors : TagOK(a)' BY DEF TagInv, TagOK, FileETag
  <2>2. \A w \in Writers : BaseOK(w)' BY DEF TagInv, BaseOK, VersionOf, Current
  <2>3. QED BY <1>0, <2>1, <2>2 DEF TagInv
<1>2. CASE StoreNext
  <2> USE <1>0, <1>2 DEF StoreNext
  <2>1. CASE \E a \in cast \cap Pollers : Open(a) \/ NotModified(a) \/ Stat(a) \/ ReadChunk(a) \/ CloseObject(a)
    BY <2>1, TagGet
  <2>2. CASE \E a \in cast \cap Writers : Open(a) \/ GetAll(a) \/ NotFound(a)
    BY <2>2, TagGet
  <2>3. CASE \E a \in cast \cap Writers :
               \/ Flock(a) \/ LockCancelled(a) \/ PreconditionFailed(a) \/ Matched(a)
               \/ CreateTemp(a) \/ WriteChunk(a) \/ SyncTemp(a) \/ WriteFails(a)
               \/ Rename(a) \/ FsyncDir(a) \/ FsyncFails(a) \/ PutReturns(a)
    BY <2>3, TagPut
  <2>4. CASE \E a \in cast \cap BlobWriters : PutBlob(a)
    BY <2>4, TagBlob, StoreAssumption
  <2>5. CASE \E a \in cast \cap SshWriters : SshCat(a) \/ SshMove(a)
    BY <2>5, TagBlob
  <2>6. CASE Tick \/ PowerLoss \/ \E a \in cast \ Pollers : ProcessDies(a)
    BY <2>6, TagEnvironment
  <2>7. QED BY <2>1, <2>2, <2>3, <2>4, <2>5, <2>6 DEF Step
<1>3. QED BY <1>1, <1>2

(* fileETag "identifies a version of a file": a poller answered 304 holds  *)
(* the version at the key, on every file system that does not give an      *)
(* inode again within one tick of its clock.                               *)
THEOREM TagsIdentifyVersions ==
  ASSUME ~InodeReuse PROVE StoreSpec => []NotModifiedIsTrue
<1>1. TagInv => NotModifiedIsTrue
  <2> SUFFICES ASSUME TagInv, NEW a \in Pollers, proc[a].pc = "notmodified"
               PROVE  proc[a].ver = VersionOf(proc[a].fd)
    BY DEF NotModifiedIsTrue
  <2>1. a \in Actors /\ proc[a] \in Proc /\ HoldsOK(a) /\ ReadOK(a) /\ TagOK(a) /\ files \in [Inodes -> File]
    BY DEF TagInv, StoreInv, StoreTypeOK, Actors
  <2>2. proc[a].fd # NoFile /\ proc[a].fd \in Inodes /\ Whole(proc[a].fd)
    BY <2>1 DEF HoldsOK, ReadOK, Proc, Names
  <2>3. /\ proc[a].tag = FileETag(proc[a].fd) /\ proc[a].tag # None
        /\ proc[a].tag[1] = files[proc[a].fd].mtime /\ proc[a].tag[2] = proc[a].fd
    BY <2>1, <2>2, TagTyped DEF TagOK, TagInv
  <2>4. QED BY <2>1, <2>2, <2>3 DEF TagOK, VersionOf, Whole
<1>2. TagInv /\ [StoreNext]_vars => TagInv' BY TagInvStep
<1>3. QED BY <1>1, <1>2, TagInvInit, PTL DEF StoreSpec

-----------------------------------------------------------------------------
(* The refinement: what a step means to CasStore.                          *)
SeenOf(r) == IF r.key = "ptr" THEN r.base ELSE None
MineOf(r) == IF r.key = "ptr" /\ r.pc \in {"fsync", "return"} THEN r.new ELSE None

\* One process moves: CasStore sees at most that writer move.
LEMMA MappedMove ==
  ASSUME StoreInv, NEW a \in Actors, NEW r, Moves(a, r)
  PROVE  /\ a \in Writers => /\ Seen' = [Seen EXCEPT ![a] = SeenOf(r)]
                             /\ Mine' = [Mine EXCEPT ![a] = MineOf(r)]
         /\ a \notin Writers => Seen' = Seen /\ Mine' = Mine
<1>1. proc \in [Actors -> Proc] /\ Writers \subseteq Actors BY DEF StoreInv, StoreTypeOK, Actors
<1>2. \A b \in Actors : proc'[b] = IF b = a THEN r ELSE proc[b] BY <1>1 DEF Moves
<1>3. Seen = [w \in Writers |-> SeenOf(proc[w])] /\ Mine = [w \in Writers |-> MineOf(proc[w])]
  BY DEF Seen, Mine, SeenOf, MineOf, InPut
<1>4. Seen' = [w \in Writers |-> SeenOf(proc'[w])] /\ Mine' = [w \in Writers |-> MineOf(proc'[w])]
  BY DEF Seen, Mine, SeenOf, MineOf, InPut
<1>5. QED BY <1>1, <1>2, <1>3, <1>4

\* Writing a file that no key names leaves the log as it was.
LEMMA LogKept ==
  ASSUME StoreInv, entry'["ptr"] = entry["ptr"],
         \/ files' = files
         \/ \E i \in Inodes : \E f : Loose(i) /\ files' = [files EXCEPT ![i] = f]
  PROVE  PtrLog' = PtrLog
<1>0. entry["ptr"] \in Seq(Names) /\ files \in [Inodes -> File] /\ NoFile \notin Inodes
  BY StoreAssumption DEF StoreInv, StoreTypeOK, Keys
<1>1. ASSUME NEW n \in 1..Len(entry["ptr"]), entry["ptr"][n] # NoFile
      PROVE  files'[entry["ptr"][n]] = files[entry["ptr"][n]]
  <2>1. entry["ptr"][n] \in Inodes BY <1>0, <1>1 DEF Names
  <2>2. Named(entry["ptr"][n]) BY DEF Named, Keys
  <2>3. ~Loose(entry["ptr"][n])
    BY <1>0, <2>1, <2>2 DEF Loose, Gone, InUse, Named, StoreInv, TempOK
  <2>4. QED BY <1>0, <2>1, <2>3
<1>2. \A n \in 1..Len(entry["ptr"]) : VersionOf(entry["ptr"][n])' = VersionOf(entry["ptr"][n])
  BY <1>1 DEF VersionOf
<1>3. QED BY <1>2 DEF PtrLog

\* The log is a sequence as long as the pointer's entries.
LEMMA LogTyped ==
  ASSUME StoreInv
  PROVE  /\ Len(PtrLog) = Len(entry["ptr"]) /\ Len(PtrLog) \in Nat /\ Len(PtrLog) > 0
         /\ PtrLog \in Seq(Versions \cup {None})
         /\ PtrLog[Len(PtrLog)] = VersionOf(Current("ptr"))
<1>1. entry["ptr"] \in Seq(Names) /\ Len(entry["ptr"]) > 0 /\ Len(entry["ptr"]) \in Nat
      /\ files \in [Inodes -> File]
  BY DEF StoreInv, StoreTypeOK, Keys
<1>2. \A n \in 1..Len(entry["ptr"]) : VersionOf(entry["ptr"][n]) \in Versions \cup {None}
  BY <1>1 DEF VersionOf, File, Names
<1>3. PtrLog \in Seq(Versions \cup {None}) /\ Len(PtrLog) = Len(entry["ptr"])
  BY <1>1, <1>2, IsASeq, LenProperties DEF PtrLog
<1>4. QED BY <1>1, <1>3 DEF PtrLog, Current

\* An empty directory is an empty object store.
LEMMA CasMapsInit == StoreInit => Cas!CasInit
<1> SUFFICES ASSUME StoreInit PROVE Cas!CasInit
  OBVIOUS
<1>1. PtrLog = <<None>> BY DEF StoreInit, PtrLog, VersionOf, Keys
<1>2. Seen = [w \in Writers |-> None] /\ Mine = [w \in Writers |-> None]
  BY DEF StoreInit, Seen, Mine, InPut, Idle, Actors
<1>3. Used = {} BY StoreAssumption DEF StoreInit, Used
<1>4. QED BY <1>1, <1>2, <1>3 DEF StoreInit, Cas!CasInit

\* CasStore does not see the step of a process that keeps what it knows.
LEMMA Stutters ==
  ASSUME StoreInv, NEW a \in Actors, NEW r, Moves(a, r), PtrLog' = PtrLog,
         SeenOf(r) = SeenOf(proc[a]), MineOf(r) = MineOf(proc[a]), puts' = puts, acked' = acked
  PROVE  UNCHANGED Cas!casVars
<1>1. Used' = Used BY DEF Used
<1>2. a \in Writers => Seen[a] = SeenOf(proc[a]) /\ Mine[a] = MineOf(proc[a])
  BY DEF Seen, Mine, SeenOf, MineOf, InPut
<1>3. Seen' = Seen /\ Mine' = Mine
  <2>1. CASE a \in Writers
    <3>1. Seen' = [Seen EXCEPT ![a] = Seen[a]] /\ Mine' = [Mine EXCEPT ![a] = Mine[a]]
      BY <1>2, <2>1, MappedMove
    <3>2. QED BY <3>1 DEF Seen, Mine
  <2>2. QED BY <2>1, MappedMove
<1>4. QED BY <1>1, <1>3 DEF Cas!casVars

\* A Put that ends without an acknowledgement, and a process that dies.
LEMMA GivesUp ==
  ASSUME StoreInv, NEW a \in Actors, proc' = [proc EXCEPT ![a] = Idle],
         files' = files \/ files' = Removed(proc[a].tmp), entry'["ptr"] = entry["ptr"],
         puts' = puts, acked' = acked
  PROVE  [Cas!CasNext]_(Cas!casVars)
<1>0. /\ proc[a].tmp \in Names /\ (proc[a].tmp # NoFile => Loose(proc[a].tmp))
      /\ Moves(a, Idle)
  BY DEF StoreInv, StoreTypeOK, Proc, Loose, Moves
<1>1. PtrLog' = PtrLog
  <2>1. \/ files' = files
        \/ \E i \in Inodes : \E f : Loose(i) /\ files' = [files EXCEPT ![i] = f]
    BY <1>0 DEF Removed, Names
  <2>2. QED BY <2>1, LogKept
<1>2. SeenOf(Idle) = None /\ MineOf(Idle) = None BY DEF SeenOf, MineOf, Idle
<1>3. Used' = Used BY DEF Used
<1>4. CASE a \in Writers
  <2>1. Seen' = [Seen EXCEPT ![a] = None] /\ Mine' = [Mine EXCEPT ![a] = None]
    BY <1>0, <1>2, <1>4, MappedMove
  <2>2. Cas!GiveUp(a) BY <1>1, <1>3, <2>1 DEF Cas!GiveUp
  <2>3. QED BY <1>4, <2>2 DEF Cas!CasNext
<1>5. CASE a \notin Writers
  <2>1. Seen' = Seen /\ Mine' = Mine BY <1>0, <1>5, MappedMove
  <2>2. QED BY <1>1, <1>3, <2>1 DEF Cas!casVars
<1>6. QED BY <1>4, <1>5

\* A pointer with one directory entry: its log is the version of that file.
LEMMA OneEntry ==
  ASSUME NEW x, entry'["ptr"] = <<x>>
  PROVE  PtrLog' = <<VersionOf(x)'>> /\ Len(entry'["ptr"]) = 1 /\ entry'["ptr"][1] = x
<1>1. Len(entry'["ptr"]) = 1 /\ entry'["ptr"][1] = x OBVIOUS
<1>2. \A v : [n \in 1..1 |-> v] = <<v>> OBVIOUS
<1>3. PtrLog' = [n \in 1..1 |-> VersionOf(entry["ptr"][n])'] BY <1>1 DEF PtrLog
<1>4. PtrLog' = [n \in 1..1 |-> VersionOf(x)']
  <2>1. \A n \in 1..1 : VersionOf(entry["ptr"][n])' = VersionOf(x)' BY <1>1 DEF VersionOf
  <2>2. QED BY <1>3, <2>1
<1>5. QED BY <1>1, <1>2, <1>4

\* A Get: the open of a publisher is CasStore's Read.
LEMMA GetMaps ==
  ASSUME TagInv, NEW a \in Pollers \cup Writers,
         \/ Open(a)
         \/ a \in Pollers /\ (NotModified(a) \/ Stat(a) \/ ReadChunk(a) \/ CloseObject(a))
         \/ a \in Writers /\ (GetAll(a) \/ NotFound(a))
  PROVE  [Cas!CasNext]_(Cas!casVars)
<1>0. /\ a \in Actors /\ proc \in [Actors -> Proc] /\ proc[a] \in Proc /\ StoreInv
      /\ RoleOK(a) /\ (a \in Writers => BaseOK(a))
  BY DEF TagInv, StoreInv, StoreTypeOK, Actors
<1>a. a \in Pollers => a \notin Writers BY RolesDisjoint
<1>b. UNCHANGED <<files, entry, lock, clock, puts, acked, losses, blobs>>
  BY DEF Open, NotModified, Stat, ReadChunk, CloseObject, GetAll, NotFound
<1>c. PtrLog' = PtrLog /\ Used' = Used BY <1>0, <1>b, LogKept DEF Used
<1>1. CASE a \in Pollers
  <2>1. \E r : Moves(a, r)
    <3>1. \E r : Set(a, r) BY <1>a, <1>1 DEF Open, NotModified, Stat, ReadChunk, CloseObject
    <3>2. QED BY <1>0, <3>1 DEF Set, Moves
  <2>2. Seen' = Seen /\ Mine' = Mine BY <1>0, <1>a, <1>1, <2>1, MappedMove
  <2>3. QED BY <1>b, <1>c, <2>2 DEF Cas!casVars
<1>2. CASE a \in Writers /\ Open(a)
  <2> DEFINE r == [proc[a] EXCEPT !.pc = "opened", !.fd = Current("ptr"),
                                  !.base = VersionOf(Current("ptr"))]
  <2>1. Set(a, r) /\ proc[a].pc = "idle" BY <1>2 DEF Open
  <2>2. proc[a].key = "ptr" BY <1>0, <2>1 DEF RoleOK, PutPcs, Proc, Keys
  <2>3. r.key = "ptr" /\ r.base = VersionOf(Current("ptr")) /\ r.pc = "opened"
    BY <1>0, <2>2 DEF Proc
  <2> HIDE DEF r
  <2>4. Seen' = [Seen EXCEPT ![a] = VersionOf(Current("ptr"))] /\ Mine' = [Mine EXCEPT ![a] = None]
    <3>1. SeenOf(r) = VersionOf(Current("ptr")) /\ MineOf(r) = None BY <2>3 DEF SeenOf, MineOf
    <3>2. Moves(a, r) BY <1>0, <2>1 DEF Set, Moves
    <3>3. QED BY <1>0, <1>2, <3>1, <3>2, MappedMove
  <2>5. Mine' = Mine
    <3>1. Mine[a] = None BY <1>2, <2>1 DEF Mine, InPut
    <3>2. Mine = [Mine EXCEPT ![a] = Mine[a]] BY DEF Mine
    <3>3. QED BY <2>4, <3>1, <3>2
  <2>6. Cas!Read(a) BY <1>0, <1>b, <1>c, <2>4, <2>5, LogTyped DEF Cas!Read
  <2>7. QED BY <1>2, <2>6 DEF Cas!CasNext
<1>3. CASE a \in Writers /\ NotFound(a)
  <2> DEFINE r == [Idle EXCEPT !.pc = "read"]
  <2>1. Set(a, r) /\ proc[a].pc = "idle" BY <1>3 DEF NotFound
  <2>2. SeenOf(r) = None /\ MineOf(r) = None BY DEF SeenOf, MineOf, Idle
  <2>3. SeenOf(proc[a]) = None /\ MineOf(proc[a]) = None
    BY <1>0, <1>3, <2>1 DEF SeenOf, MineOf, BaseOK
  <2>4. Moves(a, r) BY <1>0, <2>1 DEF Set, Moves
  <2> HIDE DEF r
  <2>5. QED BY <1>0, <1>b, <1>c, <2>2, <2>3, <2>4, Stutters
<1>4. CASE a \in Writers /\ GetAll(a)
  <2> DEFINE f == files[proc[a].fd]
             r == [proc[a] EXCEPT !.pc = "read", !.tag = FileETag(proc[a].fd), !.ver = f.ver,
                                  !.got = [n \in 1..f.len |-> f.ver]]
  <2>1. Set(a, r) /\ proc[a].pc = "opened" BY <1>4 DEF GetAll
  <2>2. r.key = proc[a].key /\ r.base = proc[a].base /\ r.pc = "read" BY <1>0 DEF Proc
  <2> HIDE DEF r
  <2>3. SeenOf(r) = SeenOf(proc[a]) /\ MineOf(r) = MineOf(proc[a]) BY <2>1, <2>2 DEF SeenOf, MineOf
  <2>4. Moves(a, r) BY <1>0, <2>1 DEF Set, Moves
  <2>5. QED BY <1>0, <1>b, <1>c, <2>3, <2>4, Stutters
<1>5. QED BY <1>1, <1>2, <1>3, <1>4

\* A Put: its rename is CasStore's Swap, the fsync of the directory Settle,
\* and its return Acknowledge.
LEMMA PutMaps ==
  ASSUME TagInv, NEW a \in Writers,
         \/ Flock(a) \/ LockCancelled(a) \/ PreconditionFailed(a) \/ Matched(a)
         \/ CreateTemp(a) \/ WriteChunk(a) \/ SyncTemp(a) \/ WriteFails(a)
         \/ Rename(a) \/ FsyncDir(a) \/ FsyncFails(a) \/ PutReturns(a)
  PROVE  [Cas!CasNext]_(Cas!casVars)
<1>0. /\ a \in Actors /\ proc \in [Actors -> Proc] /\ proc[a] \in Proc /\ StoreInv
      /\ RoleOK(a) /\ HoldsOK(a) /\ TempOK(a) /\ BaseOK(a) /\ puts \in [Writers -> Nat]
      /\ files \in [Inodes -> File] /\ entry \in [Keys -> Seq(Names)] /\ NoFile \notin Inodes
  BY StoreAssumption DEF TagInv, StoreInv, StoreTypeOK, Actors
<1>a. proc[a].pc \in {"copy", "rename"} => proc[a].tmp \in Inodes /\ Loose(proc[a].tmp)
  BY <1>0 DEF HoldsOK, Proc, Names, Loose
<1>1. CASE Flock(a) \/ Matched(a)
  <2>1. PICK r : Set(a, r) /\ r.key = proc[a].key /\ r.base = proc[a].base
                 /\ r.pc \notin {"fsync", "return"} /\ proc[a].pc \notin {"fsync", "return"}
    <3>1. CASE Flock(a) BY <1>0, <3>1 DEF Flock, Proc
    <3>2. CASE Matched(a) BY <1>0, <3>2 DEF Matched, Proc
    <3>3. QED BY <1>1, <3>1, <3>2
  <2>2. UNCHANGED <<files, entry, puts, acked>> BY <1>1 DEF Flock, Matched
  <2>3. SeenOf(r) = SeenOf(proc[a]) /\ MineOf(r) = MineOf(proc[a]) BY <2>1 DEF SeenOf, MineOf
  <2>4. Moves(a, r) BY <1>0, <2>1 DEF Set, Moves
  <2>5. PtrLog' = PtrLog BY <1>0, <2>2, LogKept
  <2>6. QED BY <1>0, <2>2, <2>3, <2>4, <2>5, Stutters
<1>2. CASE LockCancelled(a) \/ PreconditionFailed(a) \/ WriteFails(a) \/ FsyncFails(a)
  BY <1>0, <1>2, GivesUp DEF LockCancelled, PreconditionFailed, WriteFails, FsyncFails, Set
<1>3. CASE CreateTemp(a) \/ WriteChunk(a) \/ SyncTemp(a)
  <2>1. PICK r : Moves(a, r) /\ r.key = proc[a].key /\ r.base = proc[a].base
                 /\ r.pc \notin {"fsync", "return"} /\ proc[a].pc \notin {"fsync", "return"}
    <3>1. CASE CreateTemp(a) BY <1>0, <3>1 DEF CreateTemp, Proc, Set, Moves
    <3>2. CASE WriteChunk(a)
      <4>1. Moves(a, proc[a]) BY <1>0, <3>2 DEF WriteChunk, Moves
      <4>2. QED BY <4>1, <3>2 DEF WriteChunk
    <3>3. CASE SyncTemp(a) BY <1>0, <3>3 DEF SyncTemp, Proc, Goto, Set, Moves
    <3>4. QED BY <1>3, <3>1, <3>2, <3>3
  <2>2. UNCHANGED <<entry, puts, acked>> BY <1>3 DEF CreateTemp, WriteChunk, SyncTemp
  <2>3. SeenOf(r) = SeenOf(proc[a]) /\ MineOf(r) = MineOf(proc[a]) BY <2>1 DEF SeenOf, MineOf
  <2>4. \E i \in Inodes : \E f : Loose(i) /\ files' = [files EXCEPT ![i] = f]
    <3>1. CASE CreateTemp(a) BY <3>1 DEF CreateTemp, Loose
    <3>2. CASE WriteChunk(a)
      <4>1. files' = [files EXCEPT ![proc[a].tmp] = [files[proc[a].tmp] EXCEPT !.len = @ + 1, !.mtime = clock]]
        BY <1>0, <1>a, <3>2 DEF WriteChunk, File
      <4>2. QED BY <1>a, <3>2, <4>1 DEF WriteChunk
    <3>3. CASE SyncTemp(a)
      <4>1. files' = [files EXCEPT ![proc[a].tmp] = [files[proc[a].tmp] EXCEPT !.synced = TRUE]]
        BY <1>0, <1>a, <3>3 DEF SyncTemp, File
      <4>2. QED BY <1>a, <3>3, <4>1 DEF SyncTemp
    <3>4. QED BY <1>3, <3>1, <3>2, <3>3
  <2>5. PtrLog' = PtrLog BY <1>0, <2>2, <2>4, LogKept
  <2>6. QED BY <1>0, <2>1, <2>2, <2>3, <2>5, Stutters
<1>4. CASE Rename(a)
  <2> DEFINE k == proc[a].key
             r == [proc[a] EXCEPT !.pc = "fsync", !.tmp = NoFile]
             v == proc[a].new
  <2>1. /\ proc[a].pc = "rename" /\ Set(a, r) /\ UNCHANGED <<files, acked>>
        /\ entry' = [entry EXCEPT ![k] = Append(@, proc[a].tmp)]
        /\ puts' = IF k = "ptr" THEN [puts EXCEPT ![a] = @ + 1] ELSE puts
    BY <1>4 DEF Rename
  <2>2. r.pc = "fsync" /\ r.key = k /\ r.base = proc[a].base /\ r.new = v BY <1>0 DEF Proc
  <2> HIDE DEF r
  <2>3. Moves(a, r) BY <1>0, <2>1 DEF Set, Moves
  <2>4. CASE k # "ptr"
    <3>1. SeenOf(r) = SeenOf(proc[a]) /\ MineOf(r) = MineOf(proc[a]) BY <2>2, <2>4 DEF SeenOf, MineOf
    <3>2. entry'["ptr"] = entry["ptr"] BY <1>0, <2>1, <2>4 DEF Keys
    <3>3. PtrLog' = PtrLog BY <1>0, <2>1, <3>2, LogKept
    <3>4. QED BY <1>0, <2>1, <2>3, <2>4, <3>1, <3>3, Stutters
  <2>5. CASE k = "ptr"
    <3>1. /\ proc[a].base = VersionOf(Current("ptr")) /\ v = <<a, puts[a] + 1>> /\ puts[a] < MaxPuts
          /\ puts[a] \in Nat /\ MaxPuts \in Nat
      BY <1>0, <2>1, <2>5, StoreAssumption DEF BaseOK
    <3>2. Seen' = Seen /\ Mine' = [Mine EXCEPT ![a] = v]
      <4>1. SeenOf(r) = SeenOf(proc[a]) /\ MineOf(r) = v BY <2>2, <2>5 DEF SeenOf, MineOf
      <4>2. Seen' = [Seen EXCEPT ![a] = SeenOf(r)] /\ Mine' = [Mine EXCEPT ![a] = v]
        BY <1>0, <2>3, <4>1, MappedMove
      <4>3. Seen = [Seen EXCEPT ![a] = SeenOf(proc[a])] BY DEF Seen, SeenOf
      <4>4. QED BY <4>1, <4>2, <4>3
    <3>3. Seen[a] = PtrLog[Len(PtrLog)] BY <1>0, <2>5, <3>1, LogTyped DEF Seen
    <3>4. Used' = Used \cup {v} /\ v \notin Used
      <4>1. v \in Writers \X (1..MaxPuts) /\ v[1] = a /\ v[2] = puts[a] + 1 BY <3>1
      <4>2. v \notin Used BY <3>1, <4>1 DEF Used
      <4>3. puts' \in [Writers -> Nat] /\ \A w \in Writers : puts'[w] = IF w = a THEN puts[a] + 1 ELSE puts[w]
        BY <1>0, <2>1, <2>5
      <4>4. ASSUME NEW u \in Writers \X (1..MaxPuts)
            PROVE  u[2] <= puts'[u[1]] <=> u[2] <= puts[u[1]] \/ u = v
        <5>1. u[1] \in Writers /\ u[2] \in 1..MaxPuts /\ u = <<u[1], u[2]>> OBVIOUS
        <5>2. CASE u[1] # a BY <5>1, <5>2, <4>1, <4>3
        <5>3. CASE u[1] = a
          <6>1. puts'[u[1]] = puts[a] + 1 BY <4>3, <5>3
          <6>2. u = v <=> u[2] = puts[a] + 1 BY <3>1, <5>1, <5>3
          <6>3. QED BY <3>1, <5>1, <5>3, <6>1, <6>2
        <5>4. QED BY <5>2, <5>3
      <4>5. Used' = {u \in Writers \X (1..MaxPuts) : u[2] <= puts'[u[1]]} BY DEF Used
      <4>6. QED BY <4>1, <4>2, <4>4, <4>5 DEF Used
    <3>5. PtrLog' = Append(PtrLog, v)
      <4>1. proc[a].tmp \in Inodes /\ files[proc[a].tmp].ver = v
        BY <1>0, <1>a, <2>1 DEF TempOK
      <4>2. entry'["ptr"] = Append(entry["ptr"], proc[a].tmp) /\ entry["ptr"] \in Seq(Names)
        BY <1>0, <2>1, <2>5 DEF Keys
      <4>3. /\ Len(entry'["ptr"]) = Len(entry["ptr"]) + 1 /\ Len(entry["ptr"]) \in Nat
            /\ entry'["ptr"][Len(entry["ptr"]) + 1] = proc[a].tmp
            /\ \A n \in 1..Len(entry["ptr"]) : entry'["ptr"][n] = entry["ptr"][n]
        BY <4>1, <4>2, Appended DEF Names
      <4>4. \A i : VersionOf(i)' = VersionOf(i) BY <2>1 DEF VersionOf
      <4>5. VersionOf(proc[a].tmp) = v BY <1>0, <4>1 DEF VersionOf
      <4>6. PtrLog' = [n \in 1..Len(entry["ptr"]) + 1 |-> VersionOf(entry'["ptr"][n])]
        <5> DEFINE names == entry'["ptr"]
        <5>1. PtrLog' = [n \in 1..Len(names) |-> IF names[n] = NoFile THEN None ELSE files'[names[n]].ver]
          BY DEF PtrLog, VersionOf
        <5>2. files' = files /\ Len(names) = Len(entry["ptr"]) + 1 BY <2>1, <4>3
        <5> HIDE DEF names
        <5>3. PtrLog' = [n \in 1..Len(entry["ptr"]) + 1 |-> IF names[n] = NoFile THEN None ELSE files[names[n]].ver]
          BY <5>1, <5>2
        <5>4. QED BY <5>3 DEF names, VersionOf
      <4>7. Append(PtrLog, v) = [n \in 1..Len(entry["ptr"]) + 1 |->
                                   IF n = Len(entry["ptr"]) + 1 THEN v ELSE PtrLog[n]]
        <5>1. PtrLog \in Seq(Versions \cup {None}) /\ Len(PtrLog) = Len(entry["ptr"]) BY <1>0, LogTyped
        <5>2. v \in Versions \cup {None} BY <1>0 DEF Proc
        <5>3. QED BY <5>1, <5>2
      <4>8. ASSUME NEW n \in 1..Len(entry["ptr"]) + 1
            PROVE  VersionOf(entry'["ptr"][n]) = IF n = Len(entry["ptr"]) + 1 THEN v ELSE PtrLog[n]
        <5>1. CASE n = Len(entry["ptr"]) + 1 BY <4>3, <4>5, <5>1
        <5>2. CASE n # Len(entry["ptr"]) + 1
          <6>1. n \in 1..Len(entry["ptr"]) BY <4>3, <5>2
          <6>2. QED BY <4>3, <5>2, <6>1 DEF PtrLog
        <5>3. QED BY <5>1, <5>2
      <4>9. QED BY <4>6, <4>7, <4>8
    <3>6. Cas!Swap(a, v) BY <2>1, <3>2, <3>3, <3>4, <3>5 DEF Cas!Swap
    <3>7. v \in Used' \ Used BY <3>4
    <3>8. QED BY <3>6, <3>7 DEF Cas!CasNext
  <2>6. QED BY <2>4, <2>5
<1>5. CASE FsyncDir(a)
  <2> DEFINE r == [proc[a] EXCEPT !.pc = "return"]
  <2>1. /\ proc[a].pc = "fsync" /\ Set(a, r) /\ UNCHANGED <<files, puts, acked>>
        /\ entry' = [entry EXCEPT ![proc[a].key] = <<Current(proc[a].key)>>]
    BY <1>5 DEF FsyncDir, Goto
  <2>2. r.pc = "return" /\ r.key = proc[a].key /\ r.base = proc[a].base /\ r.new = proc[a].new
    BY <1>0 DEF Proc
  <2> HIDE DEF r
  <2>3. Moves(a, r) BY <1>0, <2>1 DEF Set, Moves
  <2>4. SeenOf(r) = SeenOf(proc[a]) /\ MineOf(r) = MineOf(proc[a]) BY <2>1, <2>2 DEF SeenOf, MineOf
  <2>5. CASE proc[a].key # "ptr"
    <3>1. PtrLog' = PtrLog BY <1>0, <2>1, <2>5, LogKept
    <3>2. QED BY <1>0, <2>1, <2>3, <2>4, <3>1, Stutters
  <2>6. CASE proc[a].key = "ptr"
    <3>1. Seen' = Seen /\ Mine' = Mine
      <4>1. Seen = [Seen EXCEPT ![a] = SeenOf(proc[a])] /\ Mine = [Mine EXCEPT ![a] = MineOf(proc[a])]
        BY DEF Seen, SeenOf, Mine, MineOf, InPut
      <4>2. QED BY <1>0, <2>3, <2>4, <4>1, MappedMove
    <3>2. PtrLog' = <<PtrLog[Len(PtrLog)]>>
      <4>1. entry'["ptr"] = <<Current("ptr")>>
        BY <1>0, <2>1, <2>6 DEF Keys, StoreInv, StoreTypeOK
      <4>2. PtrLog' = <<VersionOf(Current("ptr"))'>>
        <5>1. Current("ptr")' = Current("ptr") BY <4>1, OneEntry DEF Current
        <5>2. QED BY <2>1, <4>1, <5>1, OneEntry DEF VersionOf
      <4>3. VersionOf(Current("ptr"))' = VersionOf(Current("ptr"))
        BY <2>1, <4>1, OneEntry DEF VersionOf, Current
      <4>4. QED BY <1>0, <4>2, <4>3, LogTyped
    <3>3. Used' = Used BY <2>1 DEF Used
    <3>4. QED BY <2>1, <3>1, <3>2, <3>3 DEF Cas!CasNext, Cas!Settle
  <2>7. QED BY <2>5, <2>6
<1>6. CASE PutReturns(a)
  <2>1. /\ proc[a].pc = "return" /\ proc' = [proc EXCEPT ![a] = Idle] /\ UNCHANGED <<files, entry, puts>>
        /\ acked' = IF proc[a].key = "ptr" THEN acked \cup {proc[a].new} ELSE acked
    BY <1>6 DEF PutReturns, Set
  <2>2. CASE proc[a].key # "ptr" BY <1>0, <2>1, <2>2, GivesUp
  <2>3. CASE proc[a].key = "ptr"
    <3>1. PtrLog' = PtrLog /\ Used' = Used BY <1>0, <2>1, LogKept DEF Used
    <3>2. Len(PtrLog) = 1 BY <1>0, <2>1, <2>3, LogTyped DEF BaseOK
    <3>3. Mine[a] = proc[a].new /\ proc[a].new # None
      BY <1>0, <2>1, <2>3 DEF Mine, InPut, HoldsOK, PutPcs
    <3>4. Seen' = [Seen EXCEPT ![a] = None] /\ Mine' = [Mine EXCEPT ![a] = None]
      <4>1. SeenOf(Idle) = None /\ MineOf(Idle) = None BY DEF SeenOf, MineOf, Idle
      <4>2. Moves(a, Idle) BY <1>0, <2>1 DEF Moves
      <4>3. QED BY <1>0, <4>1, <4>2, MappedMove
    <3>5. \A i \in 2..Len(PtrLog) : PtrLog[i] # Mine[a] BY <3>2
    <3>6. Cas!Acknowledge(a) BY <2>1, <2>3, <3>1, <3>3, <3>4, <3>5 DEF Cas!Acknowledge
    <3>7. QED BY <3>6 DEF Cas!CasNext
  <2>4. QED BY <2>2, <2>3
<1>7. QED BY <1>1, <1>2, <1>3, <1>4, <1>5, <1>6

\* Blobs, ticks and dying processes mean nothing, or a GiveUp, to CasStore.
LEMMA OthersMap ==
  ASSUME TagInv,
         \/ \E a \in cast \cap BlobWriters : PutBlob(a)
         \/ \E a \in cast \cap SshWriters : SshCat(a) \/ SshMove(a)
         \/ \E a \in cast \ Pollers : ProcessDies(a)
         \/ Tick
  PROVE  [Cas!CasNext]_(Cas!casVars)
<1>0. /\ proc \in [Actors -> Proc] /\ StoreInv /\ cast \subseteq Actors
      /\ entry \in [Keys -> Seq(Names)]
  BY DEF TagInv, StoreInv, StoreTypeOK
<1>1. ASSUME NEW a \in cast \cap BlobWriters, PutBlob(a) PROVE [Cas!CasNext]_(Cas!casVars)
  <2> DEFINE r == [Idle EXCEPT !.pc = "create", !.key = "blob", !.new = Blob]
  <2>1. Set(a, r) /\ proc[a].pc = "idle" /\ UNCHANGED <<files, entry, puts, acked>> BY <1>1 DEF PutBlob
  <2>2. r.key = "blob" BY DEF Idle
  <2>3. Moves(a, r) BY <1>0, <2>1 DEF Set, Moves
  <2> HIDE DEF r
  <2>4. SeenOf(r) = None /\ MineOf(r) = None BY <2>2 DEF SeenOf, MineOf
  <2>5. PtrLog' = PtrLog BY <1>0, <2>1, LogKept
  <2>6. CASE a \in Writers
    <3>1. SeenOf(proc[a]) = None /\ MineOf(proc[a]) = None
      BY <2>1, <2>6 DEF TagInv, BaseOK, SeenOf, MineOf
    <3>2. QED BY <1>0, <2>1, <2>3, <2>4, <2>5, <3>1, Stutters
  <2>7. CASE a \notin Writers
    <3>1. Seen' = Seen /\ Mine' = Mine BY <1>0, <2>3, <2>7, MappedMove
    <3>2. Used' = Used BY <2>1 DEF Used
    <3>3. QED BY <2>1, <2>5, <3>1, <3>2 DEF Cas!casVars
  <2>8. QED BY <2>6, <2>7
<1>2. ASSUME NEW a \in cast \cap SshWriters, SshCat(a) PROVE [Cas!CasNext]_(Cas!casVars)
  <2>1. UNCHANGED <<entry, puts, acked>> /\ a \notin Writers
    BY <1>2, RolesDisjoint DEF SshCat
  <2>2. \E r : Moves(a, r) BY <1>0, <1>2 DEF SshCat, Set, Moves
  <2>3. \E i \in Inodes : \E f : Loose(i) /\ files' = [files EXCEPT ![i] = f] BY <1>2 DEF SshCat, Loose
  <2>4. PtrLog' = PtrLog /\ Used' = Used BY <1>0, <2>1, <2>3, LogKept DEF Used
  <2>5. Seen' = Seen /\ Mine' = Mine BY <1>0, <2>1, <2>2, MappedMove
  <2>6. QED BY <2>1, <2>4, <2>5 DEF Cas!casVars
<1>3. ASSUME NEW a \in cast \cap SshWriters, SshMove(a) PROVE [Cas!CasNext]_(Cas!casVars)
  <2>1. /\ UNCHANGED <<puts, acked>> /\ proc' = [proc EXCEPT ![a] = Idle]
        /\ files' = files \/ files' = Removed(proc[a].tmp)
    BY <1>3 DEF SshMove, Set
  <2>2. entry'["ptr"] = entry["ptr"] BY <1>0, <1>3 DEF SshMove, Keys
  <2>3. QED BY <1>0, <2>1, <2>2, GivesUp
<1>4. ASSUME NEW a \in cast \ Pollers, ProcessDies(a) PROVE [Cas!CasNext]_(Cas!casVars)
  BY <1>0, <1>4, GivesUp DEF ProcessDies, Set
<1>5. CASE Tick
  <2>1. UNCHANGED <<files, entry, proc, puts, acked>> BY <1>5 DEF Tick
  <2>2. PtrLog' = PtrLog BY <1>0, <2>1, LogKept
  <2>3. UNCHANGED <<Seen, Mine, Used>> BY <2>1 DEF Seen, Mine, InPut, Used
  <2>4. QED BY <2>1, <2>2, <2>3 DEF Cas!casVars
<1>6. QED BY <1>1, <1>2, <1>3, <1>4, <1>5

\* A power loss of the directory is a power loss of CasStore.
LEMMA PowerLossMaps ==
  ASSUME StoreInv, PowerLoss
  PROVE  Cas!PowerLoss
<1>1. PICK p \in 1..Len(entry["ptr"]), b \in 1..Len(entry["blob"]) :
        entry' = [entry EXCEPT !["ptr"] = <<@[p]>>, !["blob"] = <<@[b]>>]
  BY DEF PowerLoss
<1>2. PICK cut \in {0, Size} :
        files' = [i \in Inodes |-> IF files[i].synced \/ files[i].len <= cut THEN files[i]
                                   ELSE [files[i] EXCEPT !.len = cut, !.torn = TRUE]]
  BY DEF PowerLoss
<1>3. /\ entry["ptr"] \in Seq(Names) /\ files \in [Inodes -> File] /\ entry \in [Keys -> Seq(Names)]
      /\ Writers \subseteq Actors
  BY DEF StoreInv, StoreTypeOK, Keys, Actors
<1>4. entry'["ptr"] = <<entry["ptr"][p]>> BY <1>1, <1>3 DEF Keys
<1> DEFINE x == entry["ptr"][p]
<1>6. x \in Names BY <1>3
<1>7. x # NoFile => files'[x] = files[x]
  <2>1. x # NoFile => files[x].synced BY DEF StoreInv, EntriesOK, Whole
  <2>2. QED BY <1>2, <1>6, <2>1 DEF Names
<1>8. PtrLog' = <<PtrLog[p]>>
  <2>1. Len(entry'["ptr"]) = 1 /\ entry'["ptr"][1] = x BY <1>4
  <2>2. PtrLog[p] = VersionOf(x) BY DEF PtrLog
  <2>3. \A v : [n \in 1..1 |-> v] = <<v>> OBVIOUS
  <2>4. PtrLog' = [n \in 1..1 |-> VersionOf(x)]
    <3>1. PtrLog' = [n \in 1..1 |-> VersionOf(entry["ptr"][n])'] BY <2>1 DEF PtrLog
    <3>2. \A n \in 1..1 : VersionOf(entry["ptr"][n])' = VersionOf(x) BY <1>7, <2>1 DEF VersionOf
    <3>3. QED BY <3>1, <3>2
  <2>5. QED BY <2>2, <2>3, <2>4
<1>9. p \in 1..Len(PtrLog) BY LogTyped
<1>10. Seen' = [w \in Writers |-> None] /\ Mine' = [w \in Writers |-> None]
  BY <1>3 DEF PowerLoss, Seen, Mine, InPut, Idle
<1>11. Used' = Used /\ acked' = acked BY DEF PowerLoss, Used
<1>12. QED BY <1>8, <1>9, <1>10, <1>11 DEF Cas!PowerLoss

\* Every step of the directory is a step of CasStore, or none.
LEMMA CasMapsStep ==
  ASSUME TagInv, [StoreNext]_vars
  PROVE  [Cas!CasNext]_(Cas!casVars)
<1>1. CASE UNCHANGED vars
  <2>1. UNCHANGED <<files, entry, proc, puts, acked>> BY <1>1 DEF vars
  <2>2. PtrLog' = PtrLog BY <2>1, LogKept DEF TagInv
  <2>3. UNCHANGED <<Seen, Mine, Used>> BY <2>1 DEF Seen, Mine, InPut, Used
  <2>4. QED BY <2>1, <2>2, <2>3 DEF Cas!casVars
<1>2. CASE StoreNext
  <2> USE <1>2 DEF StoreNext
  <2>1. CASE \E a \in cast \cap Pollers : Open(a) \/ NotModified(a) \/ Stat(a) \/ ReadChunk(a) \/ CloseObject(a)
    BY <2>1, GetMaps
  <2>2. CASE \E a \in cast \cap Writers : Open(a) \/ GetAll(a) \/ NotFound(a)
    BY <2>2, GetMaps
  <2>3. CASE \E a \in cast \cap Writers :
               \/ Flock(a) \/ LockCancelled(a) \/ PreconditionFailed(a) \/ Matched(a)
               \/ CreateTemp(a) \/ WriteChunk(a) \/ SyncTemp(a) \/ WriteFails(a)
               \/ Rename(a) \/ FsyncDir(a) \/ FsyncFails(a) \/ PutReturns(a)
    BY <2>3, PutMaps
  <2>4. CASE \/ \E a \in cast \cap BlobWriters : PutBlob(a)
             \/ \E a \in cast \cap SshWriters : SshCat(a) \/ SshMove(a)
             \/ \E a \in cast \ Pollers : ProcessDies(a)
             \/ Tick
    BY <2>4, OthersMap
  <2>5. CASE PowerLoss
    BY <2>5, PowerLossMaps DEF TagInv, Cas!CasNext
  <2>6. QED BY <2>1, <2>2, <2>3, <2>4, <2>5 DEF Step
<1>3. QED BY <1>1, <1>2

(* store.go's promise to a publisher: on a file system that does not give  *)
(* an inode again within a tick, the flock, the tag compare, the rename    *)
(* and the two fsyncs of file.go implement an atomic, durable              *)
(* compare-and-swap of the pointer.                                        *)
THEOREM DirectoryIsCas ==
  ASSUME ~InodeReuse PROVE StoreSpec => Refines
<1>1. TagInv /\ [StoreNext]_vars => TagInv' BY TagInvStep
<1>2. TagInv /\ [StoreNext]_vars => [Cas!CasNext]_(Cas!casVars) BY CasMapsStep
<1>3. QED BY <1>1, <1>2, TagInvInit, CasMapsInit, PTL DEF StoreSpec, Refines, Cas!CasSpec
=============================================================================
