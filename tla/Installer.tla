------------------------------ MODULE Installer ------------------------------
(***************************************************************************)
(* The files that make up one installed target and the operations of       *)
(* release.Installer on them (release/install.go), one action per system   *)
(* call that changes the directory.  Several processes may use the files   *)
(* at once (an embedded parent and the child it launched), any of them can *)
(* die between two calls, and the host can lose power.                     *)
(*                                                                         *)
(* A file is represented by what it holds: the release whose bytes it is,  *)
(* Corrupt for bytes that are no release, None for a name that does not    *)
(* exist, Torn for a marker file that exists without a usable hash (it was *)
(* truncated and not yet rewritten, or holds the zero hash).               *)
(***************************************************************************)
EXTENDS Naturals, FiniteSets

CONSTANTS
    Releases,   \* the releases, named by their BLAKE3 hash
    None,       \* a name that does not exist in the directory
    Torn,       \* a marker file without a usable hash
    Corrupt,    \* bytes that do not hash to any release
    Procs,      \* the processes that use this Installer's files
    Faults,     \* the steps at which a system call may return an error
    MaxImages   \* bound: images not yet fsynced when CallAny starts a call

Contents == Releases \cup {Corrupt}
Marks    == Releases \cup {None, Torn}

(***************************************************************************)
(* The steps of the four operations, in the order the code runs them.      *)
(***************************************************************************)
InstallSteps      == {"stage", "removeOld", "linkOld", "truncPending", "writePending",
                      "renameNew", "syncInstall", "unmark"}
RevertSteps       == {"renameOld", "removePending", "syncRevert"}
ClearPendingSteps == {"clearPending", "syncClear"}
MarkFailedSteps   == {"truncFailed", "writeFailed"}
ClearFailedSteps  == {"clearFailed"}

Steps == InstallSteps \cup RevertSteps \cup ClearPendingSteps
            \cup MarkFailedSteps \cup ClearFailedSteps

ASSUME ValuesDistinct ==
    /\ None \notin Contents /\ Torn \notin Contents /\ Corrupt \notin Releases
    /\ None # Torn

ASSUME FaultsAreSteps == Faults \subseteq Steps /\ MaxImages \in Nat

VARIABLES
    fs,     \* what the names <path>, .old, .pending and .go-binsync/failed hold
    disk,   \* the images of fs a power loss may leave: all those since the last fsync
    call    \* the Installer operation each process is executing

instVars == <<fs, disk, call>>

(***************************************************************************)
(* linked: .old and <path> are two names of one inode, in which case       *)
(* rename(2) of one to the other succeeds and does nothing.                *)
(***************************************************************************)
Image == [path: Contents \cup {None}, old: Contents \cup {None}, linked: BOOLEAN,
          pending: Marks, failed: Marks]

Call == [step: Steps \cup {"idle", "done"}, data: Contents \cup {None},
         want: Marks, ok: BOOLEAN]

Idle == [step |-> "idle", data |-> None, want |-> None, ok |-> TRUE]

\* The files and the calls in progress have their types; two names of one
\* inode hold the same bytes.
InstTypeOK ==
    /\ fs \in Image
    /\ disk \subseteq Image
    /\ \A image \in disk \cup {fs} : image.linked => image.old = image.path
    /\ call \in [Procs -> Call]

\* A target that has release r installed (None: nothing yet) and no markers.
Fresh(r) == [path |-> r, old |-> None, linked |-> FALSE, pending |-> None, failed |-> None]

InstInit(r) ==
    /\ fs = Fresh(r)
    /\ disk = {fs}
    /\ call = [p \in Procs |-> Idle]

-----------------------------------------------------------------------------
(***************************************************************************)
(* Control of one call.                                                    *)
(***************************************************************************)
At(p, step) == call[p].step = step

\* Process p calls the operation whose first step is step.
Begin(p, step, data, want) ==
    /\ At(p, "idle")
    /\ call' = [call EXCEPT ![p] = [step |-> step, data |-> data, want |-> want, ok |-> TRUE]]

Goto(p, step)  == call' = [call EXCEPT ![p].step = step]
Done(p, ok)    == call' = [call EXCEPT ![p].step = "done", ![p].ok = ok]
\* The caller takes the result of its finished call.
Return(p)      == call' = [call EXCEPT ![p] = Idle]

\* A directory change: visible at once, durable at the next fsync.
Write(image)   == fs' = image /\ disk' = disk \cup {image}
Sync           == disk' = {fs} /\ UNCHANGED fs
NoWrite        == UNCHANGED <<fs, disk>>

-----------------------------------------------------------------------------
(***************************************************************************)
(* Install(data, want): stage; remove .old; link <path> to .old; write     *)
(* .pending; rename the temp file over <path>; fsync the directory.        *)
(***************************************************************************)
\* The temp file is written and fsynced, then hashed; a wrong hash ends the call.
Stage(p) ==
    /\ At(p, "stage")
    /\ NoWrite
    /\ IF call[p].data = call[p].want THEN Goto(p, "removeOld") ELSE Done(p, FALSE)

RemoveOld(p) ==
    /\ At(p, "removeOld")
    /\ Write([fs EXCEPT !.old = None, !.linked = FALSE])
    /\ Goto(p, "linkOld")

\* Mutant: <path> is renamed to .old instead of linked.
LinkOldByRename(p) ==
    /\ At(p, "linkOld")
    /\ Write([fs EXCEPT !.old = fs.path, !.path = None])
    /\ Goto(p, "truncPending")

\* link(2) fails with EEXIST when another process made .old meanwhile; a
\* missing <path> is the first install and not an error.
LinkOld(p) ==
    /\ At(p, "linkOld")
    /\ \/ /\ fs.path = None
          /\ NoWrite
          /\ Goto(p, "truncPending")
       \/ /\ fs.path # None /\ fs.old = None
          /\ Write([fs EXCEPT !.old = fs.path, !.linked = TRUE])
          /\ Goto(p, "truncPending")
       \/ /\ fs.path # None /\ fs.old # None
          /\ NoWrite
          /\ Done(p, FALSE)

\* Mutant: the marker is left out.
NoMarker(p) == At(p, "truncPending") /\ NoWrite /\ Goto(p, "renameNew")

\* writeSync opens with O_TRUNC: the marker exists, empty, before it is written.
TruncPending(p) ==
    /\ At(p, "truncPending")
    /\ Write([fs EXCEPT !.pending = Torn])
    /\ Goto(p, "writePending")

WritePending(p) ==
    /\ At(p, "writePending")
    /\ Write([fs EXCEPT !.pending = call[p].want])
    /\ Goto(p, "renameNew")

RenameNew(p) ==
    /\ At(p, "renameNew")
    /\ Write([fs EXCEPT !.path = call[p].data, !.linked = FALSE])
    /\ Goto(p, "syncInstall")

\* The rename failed: nothing became visible, so the marker is taken back.
Unmark(p) ==
    /\ At(p, "unmark")
    /\ Write([fs EXCEPT !.pending = None])
    /\ Done(p, FALSE)

(***************************************************************************)
(* Revert(): rename .old to <path>, remove .pending, fsync the directory.  *)
(***************************************************************************)
RenameOld(p) ==
    /\ At(p, "renameOld")
    /\ \/ /\ fs.old = None /\ fs.pending = None
          /\ NoWrite
          /\ Done(p, FALSE)
       \/ /\ \/ fs.old = None /\ fs.pending # None
             \/ fs.old # None /\ fs.linked
          /\ NoWrite
          /\ Goto(p, "removePending")
       \/ /\ fs.old # None /\ ~fs.linked
          /\ Write([fs EXCEPT !.path = fs.old, !.old = None])
          /\ Goto(p, "removePending")

RemovePending(p) ==
    /\ \/ At(p, "removePending") /\ Goto(p, "syncRevert")
       \/ At(p, "clearPending") /\ Goto(p, "syncClear")
    /\ Write([fs EXCEPT !.pending = None])

\* syncDir is the last step of Install, Revert and ClearPending.
SyncDir(p) ==
    /\ call[p].step \in {"syncInstall", "syncRevert", "syncClear"}
    /\ Sync
    /\ Done(p, TRUE)

(***************************************************************************)
(* MarkFailed(h) and ClearFailed().  No fsync of the directory follows.    *)
(***************************************************************************)
TruncFailed(p) ==
    /\ At(p, "truncFailed")
    /\ Write([fs EXCEPT !.failed = Torn])
    /\ Goto(p, "writeFailed")

WriteFailed(p) ==
    /\ At(p, "writeFailed")
    /\ Write([fs EXCEPT !.failed = call[p].want])
    /\ Done(p, TRUE)

RemoveFailed(p) ==
    /\ At(p, "clearFailed")
    /\ Write([fs EXCEPT !.failed = None])
    /\ Done(p, TRUE)

(***************************************************************************)
(* A system call returns an error.  Every operation gives up with it,      *)
(* except that a failed rename in Install first takes the marker back.     *)
(***************************************************************************)
SyscallFails(p) ==
    /\ call[p].step \in Faults
    /\ NoWrite
    /\ IF At(p, "renameNew") THEN Goto(p, "unmark") ELSE Done(p, FALSE)

\* writeSync fails in Sync or Close: the hash is in the file all the same.
WriteSyncFails(p) ==
    /\ call[p].step \in Faults \cap {"writePending", "writeFailed"}
    /\ Write(IF At(p, "writePending") THEN [fs EXCEPT !.pending = call[p].want]
                                      ELSE [fs EXCEPT !.failed = call[p].want])
    /\ Done(p, FALSE)

Syscall(p) ==
    \/ Stage(p) \/ RemoveOld(p) \/ LinkOld(p)
    \/ TruncPending(p) \/ WritePending(p) \/ RenameNew(p) \/ Unmark(p)
    \/ RenameOld(p) \/ RemovePending(p) \/ SyncDir(p)
    \/ TruncFailed(p) \/ WriteFailed(p) \/ RemoveFailed(p)
    \/ SyscallFails(p) \/ WriteSyncFails(p)

-----------------------------------------------------------------------------
(***************************************************************************)
(* Death.  A killed process leaves the files as they are; a power loss     *)
(* kills every process and leaves some image of the directory that was     *)
(* current since the last fsync (an ordered metadata journal).             *)
(***************************************************************************)
Dies(p)   == call' = [call EXCEPT ![p] = Idle] /\ NoWrite

PowerFails ==
    /\ \E image \in disk : fs' = image /\ disk' = {image}
    /\ call' = [p \in Procs |-> Idle]

\* What Pending() and Failed() report.
HasPending == fs.pending # None
FailedMark == IF fs.failed = Torn THEN None ELSE fs.failed

-----------------------------------------------------------------------------
(***************************************************************************)
(* The Installer on its own: any process may call any operation at any     *)
(* time, with bytes that need not be what the hash says.                   *)
(***************************************************************************)
CallAny(p) ==
    /\ Cardinality(disk) <= MaxImages
    /\ NoWrite
    /\ \/ \E data \in Contents, want \in Releases : Begin(p, "stage", data, want)
       \/ Begin(p, "renameOld", None, None)
       \/ Begin(p, "clearPending", None, None)
       \/ \E h \in Releases : Begin(p, "truncFailed", None, h)
       \/ Begin(p, "clearFailed", None, None)

TakeResult(p) == At(p, "done") /\ Return(p) /\ NoWrite

Killed(p) == call[p].step \in Steps /\ Dies(p)

InstNext ==
    \/ \E p \in Procs : CallAny(p) \/ Syscall(p) \/ TakeResult(p) \/ Killed(p)
    \/ PowerFails

InstSpec == (\E r \in Releases : InstInit(r)) /\ [][InstNext]_instVars

-----------------------------------------------------------------------------
(***************************************************************************)
(* README guarantees 1 and 5.  Whatever is called, by however many         *)
(* processes, wherever they die and whenever power fails, the name <path>  *)
(* holds a whole release, verified before it became visible: it never      *)
(* vanishes (linkOld links rather than renames) and never holds bytes that *)
(* failed the hash check.                                                  *)
(***************************************************************************)
WholeReleaseAtPath ==
    \A image \in disk \cup {fs} :
        /\ image.path \in Releases
        /\ image.old \in Releases \cup {None}
=============================================================================
