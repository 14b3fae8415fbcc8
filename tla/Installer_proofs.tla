-------------------------- MODULE Installer_proofs --------------------------
(***************************************************************************)
(* Proofs about the Installer's files for any set of processes, any set of *)
(* releases and any set of failing system calls.                           *)
(***************************************************************************)
EXTENDS Installer, TLAPS

(***************************************************************************)
(* What WholeReleaseAtPath needs to be inductive: a call of Install that   *)
(* got past the hash check holds the bytes of a release.                   *)
(***************************************************************************)
CallsVerified ==
    \A p \in Procs :
        /\ call[p].step \in InstallSteps => call[p].want \in Releases
        /\ call[p].step \in InstallSteps \ {"stage"} => call[p].data = call[p].want

InstInv == InstTypeOK /\ WholeReleaseAtPath /\ CallsVerified

\* No step is called "idle" or "done" (the guards of Begin, TakeResult).
LEMMA StepNames ==
    /\ "idle" \notin Steps /\ "done" \notin Steps
    /\ Idle \in Call
BY ValuesDistinct DEF Steps, InstallSteps, RevertSteps, ClearPendingSteps, MarkFailedSteps,
    ClearFailedSteps, Idle, Call, Marks, Contents

\* A system call of any operation keeps the types, and every image it can
\* leave was there before or is the directory as it is now.
LEMMA SyscallType ==
    ASSUME InstTypeOK, NEW p \in Procs, Syscall(p)
    PROVE  InstTypeOK' /\ disk' \subseteq disk \cup {fs, fs'}
<1> USE ValuesDistinct
<1>0. /\ fs \in Image /\ disk \subseteq Image /\ call \in [Procs -> Call] /\ call[p] \in Call
      /\ \A image \in disk \cup {fs} : image.linked => image.old = image.path
  BY DEF InstTypeOK
<1>1. call' \in [Procs -> Call]
  <2>1. ASSUME NEW s \in Steps, Goto(p, s) PROVE call' \in [Procs -> Call]
    BY <1>0, <2>1 DEF Goto, Call
  <2>2. ASSUME NEW ok \in BOOLEAN, Done(p, ok) PROVE call' \in [Procs -> Call]
    BY <1>0, <2>2 DEF Done, Call
  <2>3. QED
    BY <2>1, <2>2 DEF Syscall, Stage, RemoveOld, LinkOld, TruncPending, WritePending, RenameNew, Unmark,
       RenameOld, RemovePending, SyncDir, TruncFailed, WriteFailed, RemoveFailed, SyscallFails, WriteSyncFails,
       Steps, InstallSteps, RevertSteps, ClearPendingSteps, MarkFailedSteps, ClearFailedSteps
<1>2. \/ NoWrite
      \/ Sync
      \/ \E image \in Image : (image.linked => image.old = image.path) /\ Write(image)
  <2>1. CASE Stage(p) BY <2>1 DEF Stage
  <2>2. CASE RemoveOld(p) BY <2>2, <1>0 DEF RemoveOld, Image
  <2>3. CASE LinkOld(p)
    <3>1. CASE NoWrite BY <3>1
    <3>2. CASE Write([fs EXCEPT !.old = fs.path, !.linked = TRUE])
      BY <3>2, <1>0 DEF Image
    <3>3. QED BY <2>3, <3>1, <3>2 DEF LinkOld
  <2>4. CASE TruncPending(p) BY <2>4, <1>0 DEF TruncPending, Image, Marks
  <2>5. CASE WritePending(p) BY <2>5, <1>0 DEF WritePending, Image, Call
  <2>6. CASE RenameNew(p) BY <2>6, <1>0 DEF RenameNew, Image, Call
  <2>7. CASE Unmark(p) BY <2>7, <1>0 DEF Unmark, Image, Marks
  <2>8. CASE RenameOld(p)
    <3>1. CASE NoWrite BY <3>1
    <3>2. CASE ~fs.linked /\ Write([fs EXCEPT !.path = fs.old, !.old = None])
      BY <3>2, <1>0 DEF Image
    <3>3. QED BY <2>8, <3>1, <3>2 DEF RenameOld
  <2>9. CASE RemovePending(p) BY <2>9, <1>0 DEF RemovePending, Image, Marks
  <2>10. CASE SyncDir(p) BY <2>10 DEF SyncDir
  <2>11. CASE TruncFailed(p) BY <2>11, <1>0 DEF TruncFailed, Image, Marks
  <2>12. CASE WriteFailed(p) BY <2>12, <1>0 DEF WriteFailed, Image, Call
  <2>13. CASE RemoveFailed(p) BY <2>13, <1>0 DEF RemoveFailed, Image, Marks
  <2>14. CASE SyscallFails(p) BY <2>14 DEF SyscallFails
  <2>15. CASE WriteSyncFails(p) BY <2>15, <1>0 DEF WriteSyncFails, Image, Call
  <2>16. QED
    BY <2>1, <2>2, <2>3, <2>4, <2>5, <2>6, <2>7, <2>8, <2>9, <2>10, <2>11, <2>12, <2>13, <2>14, <2>15 DEF Syscall
<1>3. /\ fs' \in Image /\ disk' \subseteq Image /\ disk' \subseteq disk \cup {fs, fs'}
      /\ \A image \in disk' \cup {fs'} : image.linked => image.old = image.path
  <2>1. CASE NoWrite BY <2>1, <1>0 DEF NoWrite
  <2>2. CASE Sync BY <2>2, <1>0 DEF Sync
  <2>3. CASE \E image \in Image : (image.linked => image.old = image.path) /\ Write(image)
    BY <2>3, <1>0 DEF Write
  <2>4. QED BY <1>2, <2>1, <2>2, <2>3
<1>4. QED BY <1>1, <1>3 DEF InstTypeOK

\* The steps that are not system calls keep the types too.
LEMMA OtherType ==
    ASSUME InstTypeOK,
           \/ PowerFails
           \/ \E p \in Procs : CallAny(p) \/ TakeResult(p) \/ Killed(p)
    PROVE  InstTypeOK' /\ (fs' = fs \/ fs' \in disk) /\ disk' \subseteq disk
<1> USE ValuesDistinct, StepNames
<1>1. CASE PowerFails
  BY <1>1 DEF PowerFails, InstTypeOK
<1>2. ASSUME NEW p \in Procs, CallAny(p) \/ TakeResult(p) \/ Killed(p)
      PROVE  call' \in [Procs -> Call] /\ NoWrite
  <2>1. call \in [Procs -> Call] BY DEF InstTypeOK
  <2>2. ASSUME NEW s \in Steps, NEW d \in Contents \cup {None}, NEW w \in Marks, Begin(p, s, d, w)
        PROVE  call' \in [Procs -> Call]
    BY <2>1, <2>2 DEF Begin, Call
  <2>3. CASE CallAny(p)
    BY <2>2, <2>3 DEF CallAny, Contents, Marks, Steps,
       InstallSteps, RevertSteps, ClearPendingSteps, MarkFailedSteps, ClearFailedSteps
  <2>4. CASE TakeResult(p) \/ Killed(p)
    BY <2>1, <2>4 DEF TakeResult, Return, Killed, Dies
  <2>5. QED BY <1>2, <2>3, <2>4
<1>3. QED BY <1>1, <1>2 DEF InstTypeOK, NoWrite

\* The hash check comes before anything else Install does.
LEMMA VerifiedStep ==
    ASSUME InstTypeOK, CallsVerified, InstNext
    PROVE  CallsVerified'
<1> USE ValuesDistinct
<1>0. call \in [Procs -> Call] BY DEF InstTypeOK
<1>1. CASE PowerFails BY <1>1, StepNames DEF PowerFails, CallsVerified, Idle, InstallSteps
<1>2. ASSUME NEW p \in Procs, CallAny(p) \/ TakeResult(p) \/ Killed(p)
      PROVE  CallsVerified'
  BY <1>0, <1>2 DEF CallAny, Begin, TakeResult, Return, Killed, Dies, CallsVerified, Idle, InstallSteps, Contents
<1>3. ASSUME NEW p \in Procs, Syscall(p)
      PROVE  CallsVerified'
  <2>1. ASSUME NEW s \in Steps, Goto(p, s),
               s \in InstallSteps =>
                 /\ call[p].step \in InstallSteps
                 /\ call[p].step = "stage" => call[p].data = call[p].want
        PROVE  CallsVerified'
    BY <1>0, <2>1 DEF Goto, CallsVerified
  <2>2. ASSUME NEW ok \in BOOLEAN, Done(p, ok) PROVE CallsVerified'
    BY <1>0, <2>2 DEF Done, CallsVerified, InstallSteps
  <2>3. QED
    BY <1>3, <2>1, <2>2 DEF Syscall, Stage, RemoveOld, LinkOld, TruncPending, WritePending, RenameNew, Unmark,
       RenameOld, RemovePending, SyncDir, TruncFailed, WriteFailed, RemoveFailed, SyscallFails, WriteSyncFails, At,
       Steps, InstallSteps, RevertSteps, ClearPendingSteps, MarkFailedSteps, ClearFailedSteps
<1>4. QED BY <1>1, <1>2, <1>3 DEF InstNext

\* Every image a system call can leave has a release at <path>.
LEMMA WholeSyscall ==
    ASSUME InstInv, NEW p \in Procs, Syscall(p)
    PROVE  WholeReleaseAtPath'
<1> USE ValuesDistinct
<1>0. /\ fs \in Image /\ fs.path \in Releases /\ fs.old \in Releases \cup {None}
      /\ call[p].step \in InstallSteps \ {"stage"} => call[p].data \in Releases
  BY DEF InstInv, InstTypeOK, WholeReleaseAtPath, CallsVerified
<1>1. fs'.path \in Releases /\ fs'.old \in Releases \cup {None}
  <2>1. CASE RemoveOld(p) BY <2>1, <1>0 DEF RemoveOld, Write, Image
  <2>2. CASE LinkOld(p) BY <2>2, <1>0 DEF LinkOld, Write, NoWrite, Image
  <2>3. CASE TruncPending(p) \/ WritePending(p) \/ Unmark(p)
    BY <2>3, <1>0 DEF TruncPending, WritePending, Unmark, Write, Image
  <2>4. CASE RenameNew(p) BY <2>4, <1>0 DEF RenameNew, At, InstallSteps, Write, Image
  <2>5. CASE RenameOld(p) BY <2>5, <1>0 DEF RenameOld, Write, NoWrite, Image
  <2>6. CASE RemovePending(p) \/ TruncFailed(p) \/ WriteFailed(p) \/ RemoveFailed(p) \/ WriteSyncFails(p)
    BY <2>6, <1>0 DEF RemovePending, TruncFailed, WriteFailed, RemoveFailed, WriteSyncFails, Write, Image
  <2>7. CASE Stage(p) \/ SyncDir(p) \/ SyscallFails(p)
    BY <2>7, <1>0 DEF Stage, SyncDir, SyscallFails, NoWrite, Sync
  <2>8. QED BY <2>1, <2>2, <2>3, <2>4, <2>5, <2>6, <2>7 DEF Syscall
<1>2. disk' \subseteq disk \cup {fs, fs'} BY SyscallType DEF InstInv
<1>3. QED BY <1>1, <1>2 DEF InstInv, WholeReleaseAtPath

\* InstInv is inductive.
LEMMA InstInvStep == InstInv /\ [InstNext]_instVars => InstInv'
<1> SUFFICES ASSUME InstInv, [InstNext]_instVars PROVE InstInv'
  OBVIOUS
<1>1. CASE UNCHANGED instVars
  BY <1>1 DEF instVars, InstInv, InstTypeOK, WholeReleaseAtPath, CallsVerified
<1>2. ASSUME NEW p \in Procs, Syscall(p), InstNext PROVE InstInv'
  BY <1>2, SyscallType, WholeSyscall, VerifiedStep DEF InstInv
<1>3. CASE InstNext /\ (PowerFails \/ \E p \in Procs : CallAny(p) \/ TakeResult(p) \/ Killed(p))
  <2>1. InstTypeOK' /\ (fs' = fs \/ fs' \in disk) /\ disk' \subseteq disk
    BY <1>3, OtherType DEF InstInv
  <2>2. WholeReleaseAtPath' BY <2>1 DEF InstInv, WholeReleaseAtPath
  <2>3. QED BY <1>3, <2>1, <2>2, VerifiedStep DEF InstInv
<1>4. QED BY <1>1, <1>2, <1>3 DEF InstNext

\* A fresh target satisfies the invariant.
LEMMA InstInvInit == (\E r \in Releases : InstInit(r)) => InstInv
BY ValuesDistinct, StepNames DEF InstInit, Fresh, InstInv, InstTypeOK, WholeReleaseAtPath, CallsVerified,
   Image, Idle, InstallSteps, Contents, Marks

(***************************************************************************)
(* The files and calls of release.Installer keep their types, and .old and *)
(* <path> hold the same bytes whenever they are one inode.                 *)
(***************************************************************************)
THEOREM InstallerTypeCorrect == InstSpec => []InstTypeOK
<1>1. InstInv => InstTypeOK BY DEF InstInv
<1>2. QED BY InstInvInit, InstInvStep, <1>1, PTL DEF InstSpec

(***************************************************************************)
(* README guarantees 1 and 5 for every number of processes calling Install,*)
(* Revert, ClearPending, MarkFailed and ClearFailed, with any system call  *)
(* failing, any process dying and power lost at any time: <path> is always *)
(* a whole, verified release.                                              *)
(***************************************************************************)
THEOREM InstallerAlwaysWhole == InstSpec => []WholeReleaseAtPath
<1>1. InstInv => WholeReleaseAtPath BY DEF InstInv
<1>2. QED BY InstInvInit, InstInvStep, <1>1, PTL DEF InstSpec
=============================================================================
