------------------------ MODULE ExternalAgent_proofs ------------------------
(***************************************************************************)
(* Proofs about the external agent: its types, and that every image a      *)
(* crash or a power loss can leave is recoverable, provided the two system *)
(* calls that nothing can undo (the rename of Revert, the directory fsync  *)
(* that ends Install) do not fail.                                         *)
(***************************************************************************)
EXTENDS ExternalAgent, Installer_proofs

(***************************************************************************)
(* Which steps of an Installer operation the agent can be at, and in which *)
(* part of a cycle it has a head.                                          *)
(***************************************************************************)
CallMatches ==
    /\ pc = "install"                  => call[Agent].step \in InstallSteps \cup {"done"}
    /\ pc \in {"recClear", "clear"}    => call[Agent].step \in ClearPendingSteps \cup {"done"}
    /\ pc \in {"recMark", "rbMark"}    => call[Agent].step \in MarkFailedSteps \cup {"done"}
    /\ pc \in {"recRevert","rbRevert"} => call[Agent].step \in RevertSteps \cup {"done"}
    /\ pc = "skip"                     => call[Agent].step \in ClearFailedSteps \cup {"idle", "done"}
    /\ pc = "skip" /\ head \in TooBig  => call[Agent].step = "idle"
    /\ pc \in {"off", "recRestart", "recRestarting", "poll", "fetch", "restart", "restarting",
               "check", "rbRestart", "rbRestarting", "exit"} => call[Agent].step = "idle"

CyclePcs == {"skip", "fetch", "install", "restart", "restarting", "check"}

HasHead ==
    /\ pc \in CyclePcs => head \in Releases
    /\ pc = "install" => call[Agent].data = head /\ call[Agent].want = head

\* A previous release is kept only beside a current one.
OldThenPath == \A image \in disk \cup {fs} : image.old # None => image.path # None

TypeInv == TypeOK /\ CallMatches /\ HasHead /\ OldThenPath

(***************************************************************************)
(* What Recoverable needs to be inductive.  Only releases that were        *)
(* observed healthy are ever kept in .old; what the agent knows about the  *)
(* files depends on where it is.                                           *)
(***************************************************************************)
OldConfirmed == origin # None => \A image \in disk \cup {fs} : image.old \in confirmed \cup {None}

\* A release on trial, with the way back: the marker and a good .old.
OnTrial == fs.path = head /\ fs.pending # None /\ fs.old \in confirmed /\ ~fs.linked

Sound == fs.path \in confirmed

InstallProgress ==
    LET step == call[Agent].step IN
    /\ step \in InstallSteps \ {"syncInstall"} => Sound
    /\ step \in {"truncPending", "writePending", "renameNew"} => fs.old \in confirmed
    /\ step \in {"writePending", "renameNew"} => fs.pending # None
    /\ step = "syncInstall" => OnTrial
    /\ step = "done" => IF call[Agent].ok THEN OnTrial ELSE Sound

RevertProgress ==
    IF call[Agent].step = "renameOld" THEN fs.old \in confirmed ELSE Sound

Progress ==
    origin # None =>
        /\ pc \in {"recClear", "recRestart", "recRestarting", "poll", "skip", "fetch", "clear",
                   "rbRestart", "rbRestarting", "exit"} => Sound
        /\ pc = "recMark" => fs.old \in confirmed
        /\ pc \in {"restart", "restarting", "check", "rbMark"} => OnTrial
        /\ pc = "install" => InstallProgress
        /\ pc \in {"recRevert", "rbRevert"} => RevertProgress

RecoverInv == TypeInv /\ OldConfirmed /\ Progress /\ Recoverable

-----------------------------------------------------------------------------
(***************************************************************************)
(* Types and control.                                                      *)
(***************************************************************************)
\* Everything TypeInv says but the types of the files.
Control == call \in [Procs -> Call] /\ AgentTypeOK /\ CallMatches /\ HasHead

\* Every step of the agent and its environment that is not a system call.
Steady ==
    \/ Start \/ RecoverCleared \/ Marked \/ Reverted \/ Poll \/ Skip
    \/ FetchOk \/ Installed \/ StartRestart \/ RestartOk \/ Healthy \/ Cleared
    \/ Exit \/ PollFails \/ FetchFails \/ RestartFailure \/ Unhealthy \/ Publish
    \/ Terminate \/ Crash \/ PowerLoss \/ ServiceRestarts

\* They leave the files as they are, or take one of the images a power loss leaves.
LEMMA SteadyFiles ==
    ASSUME TypeInv, Steady
    PROVE  /\ fs' \in Image /\ disk' \subseteq Image
           /\ disk' \subseteq disk /\ (fs' = fs \/ fs' \in disk)
<1>1. CASE UNCHANGED <<fs, disk>> BY <1>1 DEF TypeInv, TypeOK, InstTypeOK
<1>2. CASE PowerLoss BY <1>2 DEF PowerLoss, PowerFails, TypeInv, TypeOK, InstTypeOK
<1>3. QED
  BY <1>1, <1>2 DEF Steady, Start, RecoverCleared, Marked, Reverted, Poll, Skip, FetchOk, Installed, StartRestart, RestartOk, Healthy, Cleared, Exit, PollFails, FetchFails, RestartFailure, Unhealthy, Publish, Terminate, Crash, ServiceRestarts,
     NoWrite, instVars, Dies

\* What an Installer operation the agent has just called looks like.
LEMMA BeginCall ==
    ASSUME call \in [Procs -> Call], NEW s \in Steps, NEW d \in Contents \cup {None}, NEW w \in Marks,
           call' = [call EXCEPT ![Agent] = [step |-> s, data |-> d, want |-> w, ok |-> TRUE]]
    PROVE  /\ call' \in [Procs -> Call]
           /\ call'[Agent] = [step |-> s, data |-> d, want |-> w, ok |-> TRUE]
<1> DEFINE c == [step |-> s, data |-> d, want |-> w, ok |-> TRUE]
<1>1. c \in Call BY DEF Call
<1>2. call' = [call EXCEPT ![Agent] = c] OBVIOUS
<1> HIDE DEF c
<1>3. call' \in [Procs -> Call] /\ call'[Agent] = c BY <1>1, <1>2, AgentAssumption
<1>4. QED BY <1>3 DEF c

\* What is left of one whose result it took, or in which it died.
LEMMA ReturnCall ==
    ASSUME call \in [Procs -> Call],
           call' = [call EXCEPT ![Agent] = Idle] \/ call' = [p \in Procs |-> Idle]
    PROVE  call' \in [Procs -> Call] /\ call'[Agent] = Idle /\ call'[Agent].step = "idle"
<1>1. call' \in [Procs -> Call] /\ call'[Agent] = Idle BY AgentAssumption, StepNames
<1>2. QED BY <1>1 DEF Idle

\* Of what may still happen, one signal, crash or power loss is used up.
LEMMA Spent ==
    ASSUME budget \in [terms: Nat, crashes: Nat, powerLosses: Nat],
           \/ budget.terms > 0 /\ budget' = [budget EXCEPT !.terms = @ - 1]
           \/ budget.crashes > 0 /\ budget' = [budget EXCEPT !.crashes = @ - 1]
           \/ budget.powerLosses > 0 /\ budget' = [budget EXCEPT !.powerLosses = @ - 1]
    PROVE  budget' \in [terms: Nat, crashes: Nat, powerLosses: Nat]
OBVIOUS

\* They keep the control state well formed.
LEMMA SteadyControl ==
    ASSUME TypeInv, Steady
    PROVE  Control'
<1> USE ValuesDistinct, AgentAssumption, StepNames
<1> USE DEF Control, AgentTypeOK, CallMatches, HasHead, CyclePcs, AgentPcs, At, memory, history, instVars,
       InstallSteps, RevertSteps, ClearPendingSteps, MarkFailedSteps, ClearFailedSteps
<1>0. /\ Control /\ fs \in Image /\ fs' \in Image /\ call[Agent] \in Call
  BY SteadyFiles DEF TypeInv, TypeOK, Control, InstTypeOK
<1>1. CASE Start
  <2>1. fs.pending \in Marks /\ None \in Marks /\ call \in [Procs -> Call] BY <1>0 DEF Image, Marks
  <2>3. CASE ~HasPending BY <1>0, <1>1, <2>3 DEF Start
  <2>4. CASE pc' = "recClear" /\ Begin(Agent, "clearPending", None, None)
    <3>1. call' \in [Procs -> Call] /\ call'[Agent].step = "clearPending"
      BY <2>1, <2>4, BeginCall DEF Begin, Steps
    <3>2. QED BY <1>0, <1>1, <2>4, <3>1 DEF Start
  <2>5. CASE pc' = "recMark" /\ Begin(Agent, "truncFailed", None, fs.pending)
    <3>1. call' \in [Procs -> Call] /\ call'[Agent].step = "truncFailed"
      BY <2>1, <2>5, BeginCall DEF Begin, Steps
    <3>2. QED BY <1>0, <1>1, <2>5, <3>1 DEF Start
  <2>6. QED BY <1>1, <2>3, <2>4, <2>5 DEF Start
<1>2. CASE RecoverCleared
  BY <1>0, <1>2, ReturnCall DEF RecoverCleared, Return
<1>3. CASE Marked
  <2>1. CASE call' = [call EXCEPT ![Agent] = [Idle EXCEPT !.step = "renameOld"]] /\ pc' \in {"recRevert", "rbRevert"}
    <3>1. [Idle EXCEPT !.step = "renameOld"] \in Call /\ [Idle EXCEPT !.step = "renameOld"].step = "renameOld"
      BY DEF Idle, Call, Steps, Marks
    <3>2. call' \in [Procs -> Call] /\ call'[Agent].step = "renameOld"
      BY <1>0, <2>1, <3>1
    <3>3. QED BY <1>0, <1>3, <2>1, <3>2 DEF Marked
  <2>2. CASE pc = "rbMark" /\ pc' = AfterCycle /\ Return(Agent)
    BY <1>0, <1>3, <2>2, ReturnCall DEF Marked, Return, AfterCycle
  <2>3. QED BY <1>3, <2>1, <2>2 DEF Marked
<1>4. CASE Reverted
  BY <1>0, <1>4, ReturnCall DEF Reverted, Return, AfterCycle
<1>5. CASE Poll
  <2>1. PICK i \in 1..Len(ptrs) : IF ptrs[i] = Foreign \/ i < seq THEN Ignore(i) ELSE Accept(i)
    BY <1>0, <1>5 DEF Poll
  <2>2. ptrs[i] \in Releases \cup {Foreign} /\ i \in Nat
    BY <1>0, <2>1
  <2>3. CASE Ignore(i)
    BY <1>0, <1>5, <2>2, <2>3 DEF Poll, Ignore, AfterCycle
  <2>4. CASE Accept(i) /\ ptrs[i] \in Releases
    <3>1. topSeq' \in Nat /\ rejected' \subseteq Contents /\ head' \in Releases
      BY <1>0, <2>2, <2>4 DEF Accept
    <3>2. QED BY <1>0, <1>5, <2>2, <2>4, <3>1 DEF Poll, Accept
  <2>5. QED BY <2>1, <2>2, <2>3, <2>4
<1>6. CASE Skip
  <2>1. CASE UNCHANGED call BY <1>0, <1>6, <2>1 DEF Skip, Planned, AfterCycle, Begin, Return, Idle
  <2>2. CASE pc' = "skip" /\ Begin(Agent, "clearFailed", None, None)
    <3>1. call' \in [Procs -> Call] /\ call'[Agent].step = "clearFailed"
      BY <1>0, <2>2, BeginCall DEF Begin, Steps, Marks
    <3>2. QED BY <1>0, <1>6, <2>2, <3>1 DEF Skip
  <2>3. CASE pc' = Planned /\ Return(Agent)
    BY <1>0, <1>6, <2>3, ReturnCall DEF Skip, Return, Planned, AfterCycle
  <2>4. QED BY <1>6, <2>1, <2>2, <2>3 DEF Skip
<1>7. CASE FetchOk
  <2>1. head \in Releases BY <1>0, <1>7 DEF FetchOk
  <2>2. /\ call' \in [Procs -> Call]
        /\ call'[Agent] = [step |-> "stage", data |-> head, want |-> head, ok |-> TRUE]
    BY <1>0, <1>7, <2>1, BeginCall DEF FetchOk, Begin, Steps, Marks, Contents
  <2>3. QED BY <1>0, <1>7, <2>1, <2>2 DEF FetchOk
<1>8. CASE Installed
  BY <1>0, <1>8, ReturnCall DEF Installed, Return, AfterCycle
<1>9. CASE StartRestart
  <2>1. CASE UNCHANGED call /\ ~ctxDone
    BY <1>0, <1>9, <2>1 DEF StartRestart, RestartPcs, Idle
  <2>2. CASE ctxDone /\ RestartFailed
    <3>1. Control' \/ (pc' = "rbMark" /\ Begin(Agent, "truncFailed", None, head) /\ head \in Releases)
      BY <1>0, <1>9, <2>2 DEF StartRestart, RestartPcs, RestartFailed, AfterCycle
    <3>2. ASSUME pc' = "rbMark", Begin(Agent, "truncFailed", None, head), head \in Releases PROVE Control'
      <4>1. call' \in [Procs -> Call] /\ call'[Agent].step = "truncFailed"
        BY <1>0, <3>2, BeginCall DEF Begin, Steps, Marks
      <4>2. QED BY <1>0, <1>9, <3>2, <4>1 DEF StartRestart
    <3>3. QED BY <3>1, <3>2
  <2>3. QED BY <1>9, <2>1, <2>2 DEF StartRestart
<1>10. CASE RestartOk
  BY <1>0, <1>10 DEF RestartOk, RestartingPcs, AfterCycle, Image
<1>11. CASE Healthy
  <2>1. call' \in [Procs -> Call] /\ call'[Agent].step = "clearPending"
    BY <1>0, <1>11, BeginCall DEF Healthy, Begin, Steps, Marks
  <2>2. QED BY <1>0, <1>11, <2>1 DEF Healthy
<1>12. CASE Cleared
  BY <1>0, <1>12, ReturnCall DEF Cleared, Return, AfterCycle
<1>13. CASE Exit
  BY <1>0, <1>13 DEF Exit
<1>14. CASE PollFails
  BY <1>0, <1>14 DEF PollFails, AfterCycle
<1>15. CASE FetchFails
  BY <1>0, <1>15 DEF FetchFails, AfterCycle
<1>16. CASE RestartFailure
  <2>0. running' \in Contents \cup {None}
    BY <1>0, <1>16 DEF RestartFailure, Image
  <2>1. Control' \/ (pc' = "rbMark" /\ Begin(Agent, "truncFailed", None, head) /\ head \in Releases)
    BY <1>0, <1>16, <2>0 DEF RestartFailure, RestartingPcs, RestartFailed, AfterCycle
  <2>2. ASSUME pc' = "rbMark", Begin(Agent, "truncFailed", None, head), head \in Releases PROVE Control'
    <3>1. call' \in [Procs -> Call] /\ call'[Agent].step = "truncFailed"
      BY <1>0, <2>2, BeginCall DEF Begin, Steps, Marks
    <3>2. QED BY <1>0, <1>16, <2>0, <2>2, <3>1 DEF RestartFailure
  <2>3. QED BY <2>1, <2>2
<1>17. CASE Unhealthy
  <2>1. head \in Releases BY <1>0, <1>17 DEF Unhealthy
  <2>2. call' \in [Procs -> Call] /\ call'[Agent].step = "truncFailed"
    BY <1>0, <1>17, <2>1, BeginCall DEF Unhealthy, Begin, Steps, Marks
  <2>3. QED BY <1>0, <1>17, <2>2 DEF Unhealthy
<1>18. CASE Publish
  BY <1>0, <1>18 DEF Publish
<1>19. CASE Terminate
  <2>1. budget' \in [terms: Nat, crashes: Nat, powerLosses: Nat] BY <1>0, <1>19, Spent DEF Terminate
  <2>2. QED BY <1>0, <1>19, <2>1 DEF Terminate
<1>20. CASE Crash
  <2>1. call' \in [Procs -> Call] /\ call'[Agent].step = "idle"
    BY <1>0, <1>20, ReturnCall DEF Crash, Dies
  <2>2. running' \in Contents \cup {None} BY <1>0, <1>20 DEF Crash, Image
  <2>3. budget' \in [terms: Nat, crashes: Nat, powerLosses: Nat] BY <1>0, <1>20, Spent DEF Crash
  <2>4. QED BY <1>0, <1>20, <2>1, <2>2, <2>3 DEF Crash
<1>21. CASE PowerLoss
  <2>1. call' \in [Procs -> Call] /\ call'[Agent].step = "idle"
    BY <1>0, <1>21, ReturnCall DEF PowerLoss, PowerFails
  <2>2. running' \in Contents \cup {None} BY <1>0, <1>21 DEF PowerLoss, Image
  <2>3. budget' \in [terms: Nat, crashes: Nat, powerLosses: Nat] BY <1>0, <1>21, Spent DEF PowerLoss
  <2>4. QED BY <1>0, <1>21, <2>1, <2>2, <2>3 DEF PowerLoss
<1>22. CASE ServiceRestarts
  BY <1>0, <1>22 DEF ServiceRestarts, Image
<1>23. QED
  BY <1>1, <1>2, <1>3, <1>4, <1>5, <1>6, <1>7, <1>8, <1>9, <1>10, <1>11, <1>12, <1>13, <1>14, <1>15, <1>16, <1>17, <1>18, <1>19, <1>20, <1>21, <1>22 DEF Steady

\* What Goto and Done leave of the agent's call.
LEMMA GotoCall ==
    ASSUME InstTypeOK, NEW s \in Steps, Goto(Agent, s)
    PROVE  /\ call'[Agent].data = call[Agent].data /\ call'[Agent].want = call[Agent].want
           /\ call'[Agent].step = s
<1>1. call \in [Procs -> Call] /\ call[Agent] \in Call /\ Agent \in Procs
  BY AgentAssumption DEF InstTypeOK
<1>2. QED BY <1>1 DEF Goto, Call

\* What Done leaves of the call.
LEMMA DoneCall ==
    ASSUME InstTypeOK, NEW ok \in BOOLEAN, Done(Agent, ok)
    PROVE  /\ call'[Agent].data = call[Agent].data /\ call'[Agent].want = call[Agent].want
           /\ call'[Agent].step = "done" /\ call'[Agent].ok = ok
<1>1. call \in [Procs -> Call] /\ call[Agent] \in Call /\ Agent \in Procs
  BY AgentAssumption DEF InstTypeOK
<1>2. QED BY <1>1 DEF Done, Call

(***************************************************************************)
(* A system call moves the operation on within its own steps, or ends it.  *)
(***************************************************************************)
LEMMA SyscallCall ==
    ASSUME InstTypeOK, Syscall(Agent)
    PROVE  /\ call'[Agent].data = call[Agent].data /\ call'[Agent].want = call[Agent].want
           /\ call[Agent].step \in Steps
           /\ call'[Agent].step = "done" \/
              \E S \in {InstallSteps, RevertSteps, ClearPendingSteps, MarkFailedSteps} :
                  call[Agent].step \in S /\ call'[Agent].step \in S
BY GotoCall, DoneCall, FaultsAreSteps DEF Syscall, Stage, RemoveOld, LinkOld, TruncPending, WritePending, RenameNew, Unmark,
     RenameOld, RemovePending, SyncDir, TruncFailed, WriteFailed, RemoveFailed, SyscallFails, WriteSyncFails, At,
     Steps, InstallSteps, RevertSteps, ClearPendingSteps, MarkFailedSteps, ClearFailedSteps

\* A system call keeps a previous release beside a current one only.
LEMMA SyscallOld ==
    ASSUME TypeInv, Syscall(Agent)
    PROVE  /\ fs'.old # None => fs'.path # None
           /\ fs'.path # fs.path => fs'.path # None
<1> USE ValuesDistinct, AgentAssumption
<1>0. /\ fs \in Image
      /\ call[Agent].step = "renameNew" => call[Agent].data \in Releases
      /\ fs.old # None => fs.path # None
  BY DEF TypeInv, TypeOK, InstTypeOK, OldThenPath, CallMatches, HasHead, CyclePcs, AgentTypeOK, AgentPcs,
     InstallSteps, RevertSteps, ClearPendingSteps, MarkFailedSteps, ClearFailedSteps
<1>1. CASE RenameNew(Agent) BY <1>0, <1>1 DEF RenameNew, At, Write, Image, Contents
<1>2. CASE LinkOld(Agent) BY <1>0, <1>2 DEF LinkOld, Write, NoWrite, Image
<1>3. CASE RenameOld(Agent)
  <2>1. CASE fs' = fs BY <1>0, <2>1
  <2>2. CASE fs.old # None /\ fs' = [fs EXCEPT !.path = fs.old, !.old = None] BY <1>0, <2>2 DEF Image
  <2>3. QED BY <1>3, <2>1, <2>2 DEF RenameOld, Write, NoWrite
<1>4. CASE RemoveOld(Agent) BY <1>0, <1>4 DEF RemoveOld, Write, Image
<1>5. CASE \/ TruncPending(Agent) \/ WritePending(Agent) \/ Unmark(Agent) \/ RemovePending(Agent)
           \/ TruncFailed(Agent) \/ WriteFailed(Agent) \/ RemoveFailed(Agent) \/ WriteSyncFails(Agent)
  BY <1>0, <1>5 DEF TruncPending, WritePending, Unmark, RemovePending, TruncFailed, WriteFailed, RemoveFailed,
     WriteSyncFails, Write, Image
<1>6. CASE Stage(Agent) \/ SyncDir(Agent) \/ SyscallFails(Agent)
  BY <1>0, <1>6 DEF Stage, SyncDir, SyscallFails, NoWrite, Sync
<1>7. QED BY <1>1, <1>2, <1>3, <1>4, <1>5, <1>6 DEF Syscall

\* TypeInv is inductive.
LEMMA TypeInvStep == TypeInv /\ [Next]_vars => TypeInv'
<1> SUFFICES ASSUME TypeInv, [Next]_vars PROVE TypeInv'
  OBVIOUS
<1>1. CASE UNCHANGED vars
  BY <1>1 DEF vars, instVars, agentVars, TypeInv, TypeOK, InstTypeOK, AgentTypeOK, CallMatches, HasHead, OldThenPath
<1>2. CASE Steady
  <2>1. /\ fs' \in Image /\ disk' \subseteq Image /\ disk' \cup {fs'} \subseteq disk \cup {fs}
    BY <1>2, SteadyFiles
  <2>2. Control' BY <1>2, SteadyControl
  <2>3. QED BY <2>1, <2>2 DEF Control, TypeInv, TypeOK, InstTypeOK, OldThenPath
<1>3. CASE AgentSyscall
  <2>1. Syscall(Agent) /\ Agent \in Procs BY <1>3, AgentAssumption DEF AgentSyscall
  <2>2. InstTypeOK' /\ disk' \subseteq disk \cup {fs, fs'} BY <2>1, SyscallType DEF TypeInv, TypeOK
  <2>3. OldThenPath' BY <2>1, <2>2, SyscallOld DEF OldThenPath, TypeInv
  <2>4. /\ call'[Agent].data = call[Agent].data /\ call'[Agent].want = call[Agent].want
        /\ call[Agent].step \in Steps
        /\ call'[Agent].step = "done" \/
           \E S \in {InstallSteps, RevertSteps, ClearPendingSteps, MarkFailedSteps} :
               call[Agent].step \in S /\ call'[Agent].step \in S
    BY <2>1, SyscallCall DEF TypeInv, TypeOK
  <2>5. CallMatches'
    BY <1>3, <2>4 DEF TypeInv, TypeOK, AgentSyscall, memory, CallMatches, Steps,
       InstallSteps, RevertSteps, ClearPendingSteps, MarkFailedSteps, ClearFailedSteps
  <2>6. HasHead' BY <1>3, <2>4 DEF TypeInv, AgentSyscall, memory, HasHead
  <2>7. visible' \subseteq Contents /\ rejected' \subseteq Contents
    <3>1. fs' \in Image /\ fs \in Image BY <2>2 DEF TypeInv, TypeOK, InstTypeOK
    <3>2. visible \subseteq Contents /\ rejected \subseteq Contents BY DEF TypeInv, TypeOK, AgentTypeOK
    <3>3. visible' \subseteq Contents BY <1>3, <3>1, <3>2 DEF AgentSyscall, Image
    <3>4. CASE At(Agent, "renameOld") /\ fs'.path # fs.path
      <4>1. RenameOld(Agent) \/ SyscallFails(Agent)
        BY <2>1, <3>4 DEF Syscall, At, Stage, RemoveOld, LinkOld, TruncPending, WritePending, RenameNew, Unmark,
           RemovePending, SyncDir, TruncFailed, WriteFailed, RemoveFailed, WriteSyncFails
      <4>2. fs.old # None
        BY <3>1, <3>4, <4>1 DEF RenameOld, SyscallFails, NoWrite, Write, Image
      <4>3. fs.path # None BY <4>2 DEF TypeInv, OldThenPath
      <4>4. QED BY <1>3, <3>1, <3>2, <3>3, <4>3 DEF AgentSyscall, Image
    <3>5. CASE ~(At(Agent, "renameOld") /\ fs'.path # fs.path)
      BY <1>3, <3>2, <3>3, <3>5 DEF AgentSyscall
    <3>6. QED BY <3>4, <3>5
  <2>8. AgentTypeOK' BY <1>3, <2>7 DEF AgentSyscall, memory, AgentTypeOK, TypeInv, TypeOK
  <2>9. QED BY <2>2, <2>3, <2>5, <2>6, <2>8 DEF TypeInv, TypeOK
<1>4. QED BY <1>1, <1>2, <1>3 DEF Next, AgentNext, EnvNext, Steady

\* The first release is installed and the agent is idle.
LEMMA TypeInvInit == Init => TypeInv
<1> USE ValuesDistinct, AgentAssumption, StepNames
<1> SUFFICES ASSUME NEW r \in Releases \cup {None}, Init, InstInit(r), origin = r, running = r, confirmed = {r} \ {None},
                    visible = {r} \ {None}
             PROVE  TypeInv
  BY DEF Init
<1>1. fs = Fresh(r) /\ disk = {fs} /\ call = [p \in Procs |-> Idle] BY DEF InstInit
<1>2. fs \in Image /\ fs.old = None /\ fs.linked = FALSE BY <1>1 DEF Fresh, Image, Contents, Marks
<1>3. InstTypeOK /\ OldThenPath BY <1>1, <1>2 DEF InstTypeOK, OldThenPath
<1>4. AgentTypeOK
  <2>1. MaxTerms \in Nat /\ MaxCrashes \in Nat /\ MaxPowerLosses \in Nat BY DEF AgentAssumption
  <2>2. budget \in [terms: Nat, crashes: Nat, powerLosses: Nat] BY <2>1 DEF Init
  <2>3. /\ pc = "off" /\ ctxDone = FALSE /\ ptrs = <<>> /\ etag = 0 /\ seq = 0 /\ head = None
        /\ rejected = {} /\ topSeq = 0
    BY DEF Init
  <2>4. pc \in AgentPcs /\ ptrs \in Seq(Releases \cup {Foreign}) BY <2>3 DEF AgentPcs
  <2>5. running \in Contents \cup {None} /\ confirmed \subseteq Releases /\ visible \subseteq Contents
    BY DEF Contents
  <2>6. QED BY <2>2, <2>3, <2>4, <2>5 DEF AgentTypeOK
<1>5. CallMatches /\ HasHead
  <2>1. pc = "off" BY DEF Init
  <2>2. call[Agent] = Idle BY <1>1
  <2>3. call[Agent].step = "idle" BY <2>2 DEF Idle
  <2>4. QED BY <2>1, <2>3 DEF CallMatches, HasHead, CyclePcs
<1>6. QED BY <1>3, <1>4, <1>5 DEF TypeInv, TypeOK

(***************************************************************************)
(* The state of the whole external target keeps its type, in particular a  *)
(* cycle past agent.pointer always has a release as its head: a pointer in *)
(* a foreign format never gets that far.                                   *)
(***************************************************************************)
THEOREM AgentTypeCorrect == Spec => []TypeOK
<1>1. TypeInv => TypeOK BY DEF TypeInv
<1>2. QED BY TypeInvInit, TypeInvStep, <1>1, PTL DEF Spec

-----------------------------------------------------------------------------
(***************************************************************************)
(* Recoverability.                                                         *)
(***************************************************************************)
\* The system calls whose failure the code has no answer to do not fail.
LastResortsWork == Faults \cap {"renameOld", "syncInstall"} = {}

\* A step that is not a system call puts no new image into the world and
\* takes no release out of the confirmed ones.
LEMMA SteadyImages ==
    ASSUME RecoverInv, Steady
    PROVE  /\ origin' = origin /\ confirmed \subseteq confirmed'
           /\ OldConfirmed' /\ Recoverable'
<1>1. origin' = origin /\ confirmed \subseteq confirmed'
  BY DEF Steady, Start, RecoverCleared, Marked, Reverted, Poll, Skip, FetchOk, Installed, StartRestart, RestartOk, Healthy, Cleared, Exit, PollFails, FetchFails, RestartFailure, Unhealthy, Publish, Terminate, Crash, PowerLoss, ServiceRestarts, history, Accept, Ignore
<1>2. disk' \cup {fs'} \subseteq disk \cup {fs}
  BY SteadyFiles DEF RecoverInv
<1>3. QED BY <1>1, <1>2 DEF RecoverInv, OldConfirmed, Recoverable, RecoverableImage

\* What the agent knows of the files stays true when it moves on.
LEMMA SteadyProgress ==
    ASSUME RecoverInv, Steady
    PROVE  Progress'
<1> USE ValuesDistinct, AgentAssumption DEF Progress, Sound, OnTrial, history, memory
<1>0. /\ origin' = origin /\ confirmed \subseteq confirmed' /\ None \notin confirmed
      /\ TypeInv /\ pc \in AgentPcs /\ call \in [Procs -> Call]
  BY SteadyImages DEF RecoverInv, TypeInv, TypeOK, AgentTypeOK, InstTypeOK, Contents
<1> SUFFICES ASSUME origin # None PROVE Progress'
  BY <1>0
<1>1. /\ fs.old \in confirmed \cup {None}
      /\ fs.path \in confirmed \/ (fs.pending # None /\ fs.old \in confirmed /\ ~fs.linked)
  BY DEF RecoverInv, OldConfirmed, Recoverable, RecoverableImage
<1>2. CASE Start
  BY <1>0, <1>1, <1>2 DEF RecoverInv, Start, NoWrite, HasPending
<1>3. CASE RecoverCleared
  BY <1>0, <1>1, <1>3 DEF RecoverInv, RecoverCleared, NoWrite
<1>4. CASE Marked
  <2>1. CASE pc' \in {"recRevert", "rbRevert"}
    <3>1. [Idle EXCEPT !.step = "renameOld"].step = "renameOld" BY DEF Idle
    <3>2. call'[Agent].step = "renameOld"
      BY <1>0, <1>4, <2>1, <3>1 DEF Marked, AfterCycle
    <3>3. QED BY <1>0, <1>1, <1>4, <2>1, <3>2 DEF RecoverInv, Marked, NoWrite, RevertProgress, AfterCycle
  <2>2. CASE pc = "rbMark" /\ fs.old = None
    BY <1>0, <1>1, <1>4, <2>2 DEF RecoverInv
  <2>3. QED BY <1>4, <2>1, <2>2 DEF Marked
<1>5. CASE Reverted
  BY <1>0, <1>1, <1>5 DEF RecoverInv, Reverted, NoWrite, RevertProgress, At, AfterCycle
<1>6. CASE Poll
  BY <1>0, <1>1, <1>6 DEF RecoverInv, Poll, NoWrite, Accept, Ignore, AfterCycle, instVars
<1>7. CASE Skip
  BY <1>0, <1>1, <1>7 DEF RecoverInv, Skip, NoWrite, Planned, AfterCycle
<1>8. CASE FetchOk
  <2>1. call'[Agent].step = "stage" BY <1>0, <1>8 DEF FetchOk, Begin
  <2>2. QED BY <1>0, <1>8, <2>1 DEF RecoverInv, FetchOk, NoWrite, InstallProgress, InstallSteps
<1>9. CASE Installed
  BY <1>0, <1>1, <1>9 DEF RecoverInv, Installed, NoWrite, InstallProgress, At, AfterCycle
<1>10. CASE StartRestart
  BY <1>0, <1>1, <1>10 DEF RecoverInv, StartRestart, NoWrite, RestartPcs, RestartFailed, AfterCycle
<1>11. CASE RestartOk
  BY <1>0, <1>1, <1>11 DEF RecoverInv, RestartOk, NoWrite, RestartingPcs, AfterCycle, instVars
<1>12. CASE Healthy
  BY <1>0, <1>1, <1>12 DEF RecoverInv, Healthy, NoWrite
<1>13. CASE Cleared
  BY <1>0, <1>1, <1>13 DEF RecoverInv, Cleared, NoWrite, AfterCycle
<1>14. CASE Exit
  BY <1>0, <1>1, <1>14 DEF RecoverInv, Exit, NoWrite, instVars
<1>15. CASE PollFails
  BY <1>0, <1>1, <1>15 DEF RecoverInv, PollFails, NoWrite, AfterCycle, instVars
<1>16. CASE FetchFails
  BY <1>0, <1>1, <1>16 DEF RecoverInv, FetchFails, NoWrite, AfterCycle, instVars
<1>17. CASE RestartFailure
  BY <1>0, <1>1, <1>17 DEF RecoverInv, RestartFailure, NoWrite, RestartingPcs, RestartFailed, AfterCycle
<1>18. CASE Unhealthy
  BY <1>0, <1>1, <1>18 DEF RecoverInv, Unhealthy, NoWrite
<1>19. CASE Publish
  BY <1>0, <1>19 DEF RecoverInv, Publish, instVars, InstallProgress, RevertProgress
<1>20. CASE Terminate
  BY <1>0, <1>20 DEF RecoverInv, Terminate, instVars, InstallProgress, RevertProgress
<1>21. CASE Crash
  BY <1>0, <1>1, <1>21 DEF RecoverInv, Crash, NoWrite
<1>22. CASE PowerLoss
  BY <1>0, <1>1, <1>22 DEF RecoverInv, PowerLoss, NoWrite
<1>23. CASE ServiceRestarts
  BY <1>0, <1>23 DEF RecoverInv, ServiceRestarts, instVars, InstallProgress, RevertProgress
<1>24. QED
  BY <1>2, <1>3, <1>4, <1>5, <1>6, <1>7, <1>8, <1>9, <1>10, <1>11, <1>12, <1>13, <1>14, <1>15, <1>16, <1>17, <1>18, <1>19, <1>20, <1>21, <1>22, <1>23 DEF Steady

\* A system call of Install: it changes <path> only when .old and the marker
\* lead back to a confirmed release.
LEMMA InstallProgressStep ==
    ASSUME RecoverInv, Syscall(Agent), LastResortsWork, pc = "install", origin # None,
           UNCHANGED <<pc, head, origin, confirmed>>
    PROVE  /\ InstallProgress'
           /\ fs'.old \in confirmed \cup {None}
           /\ RecoverableImage(fs')
<1> USE ValuesDistinct DEF InstallProgress, Sound, OnTrial, RecoverableImage, At
<1>0. /\ InstTypeOK /\ fs \in Image /\ call[Agent] \in Call /\ call[Agent].step \in InstallSteps \cup {"done"}
      /\ call[Agent].data = head /\ call[Agent].want = head /\ head \in Releases
      /\ confirmed \subseteq Releases /\ fs.old \in confirmed \cup {None}
      /\ InstallProgress /\ RecoverableImage(fs)
  BY AgentAssumption DEF RecoverInv, TypeInv, TypeOK, InstTypeOK, AgentTypeOK, CallMatches, HasHead, CyclePcs,
     OldConfirmed, Recoverable, Progress
<1>1. CASE Stage(Agent)
  BY <1>0, <1>1, GotoCall, DoneCall DEF Stage, NoWrite, Steps, InstallSteps
<1>2. CASE RemoveOld(Agent)
  <2>1. call'[Agent].step = "linkOld" BY <1>0, <1>2, GotoCall DEF RemoveOld, Steps, InstallSteps
  <2>2. QED BY <1>0, <1>2, <2>1 DEF RemoveOld, Write, Image, InstallSteps
<1>3. CASE LinkOld(Agent)
  <2>0. fs.path \in confirmed /\ fs.path # None
    BY <1>0, <1>3 DEF LinkOld, InstallSteps, Contents
  <2>1. CASE fs.old = None
    <3>1. call'[Agent].step = "truncPending" /\ fs' = [fs EXCEPT !.old = fs.path, !.linked = TRUE]
      BY <1>0, <1>3, <2>0, <2>1, GotoCall DEF LinkOld, Write, Steps, InstallSteps
    <3>2. QED BY <1>0, <2>0, <3>1 DEF Image, InstallSteps
  <2>2. CASE fs.old # None
    <3>1. call'[Agent].step = "done" /\ call'[Agent].ok = FALSE /\ fs' = fs
      BY <1>0, <1>3, <2>0, <2>2, DoneCall DEF LinkOld, NoWrite
    <3>2. QED BY <1>0, <2>0, <3>1 DEF InstallSteps
  <2>3. QED BY <2>1, <2>2
<1>4. CASE TruncPending(Agent)
  <2>1. call'[Agent].step = "writePending" BY <1>0, <1>4, GotoCall DEF TruncPending, Steps, InstallSteps
  <2>2. QED BY <1>0, <1>4, <2>1 DEF TruncPending, Write, Image, InstallSteps
<1>5. CASE WritePending(Agent)
  <2>1. call'[Agent].step = "renameNew" BY <1>0, <1>5, GotoCall DEF WritePending, Steps, InstallSteps
  <2>2. QED BY <1>0, <1>5, <2>1 DEF WritePending, Write, Image, InstallSteps, Contents
<1>6. CASE RenameNew(Agent)
  <2>1. call'[Agent].step = "syncInstall" BY <1>0, <1>6, GotoCall DEF RenameNew, Steps, InstallSteps
  <2>2. QED BY <1>0, <1>6, <2>1 DEF RenameNew, Write, Image, InstallSteps
<1>7. CASE Unmark(Agent)
  <2>1. call'[Agent].step = "done" /\ call'[Agent].ok = FALSE BY <1>0, <1>7, DoneCall DEF Unmark
  <2>2. QED BY <1>0, <1>7, <2>1 DEF Unmark, Write, Image, InstallSteps
<1>8. CASE SyncDir(Agent)
  <2>1. call'[Agent].step = "done" /\ call'[Agent].ok = TRUE BY <1>0, <1>8, DoneCall DEF SyncDir
  <2>2. call[Agent].step = "syncInstall" BY <1>0, <1>8 DEF SyncDir, InstallSteps
  <2>3. QED BY <1>0, <1>8, <2>1, <2>2 DEF SyncDir, Sync, InstallSteps
<1>9. CASE SyscallFails(Agent)
  <2>1. fs.path \in confirmed /\ fs' = fs
    BY <1>0, <1>9, FaultsAreSteps, StepNames DEF SyscallFails, LastResortsWork, NoWrite
  <2>2. call'[Agent].step = "unmark" \/ (call'[Agent].step = "done" /\ call'[Agent].ok = FALSE)
    BY <1>0, <1>9, GotoCall, DoneCall DEF SyscallFails, Steps, InstallSteps
  <2>3. QED BY <1>0, <2>1, <2>2 DEF InstallSteps
<1>10. CASE WriteSyncFails(Agent)
  <2>1. call[Agent].step = "writePending" BY <1>0, <1>10 DEF WriteSyncFails, InstallSteps
  <2>2. fs' = [fs EXCEPT !.pending = call[Agent].want] BY <1>10, <2>1 DEF WriteSyncFails, Write
  <2>3. call'[Agent].step = "done" /\ call'[Agent].ok = FALSE
    BY <1>0, <1>10, DoneCall DEF WriteSyncFails
  <2>4. QED BY <1>0, <2>1, <2>2, <2>3 DEF Image, InstallSteps, Contents
<1>11. QED
  BY <1>0, <1>1, <1>2, <1>3, <1>4, <1>5, <1>6, <1>7, <1>8, <1>9, <1>10 DEF Syscall, InstallSteps,
     RenameOld, RemovePending, TruncFailed, WriteFailed, RemoveFailed

\* A system call of Revert: once .old is back, <path> is confirmed.
LEMMA RevertProgressStep ==
    ASSUME RecoverInv, Syscall(Agent), LastResortsWork, pc \in {"recRevert", "rbRevert"}, origin # None,
           UNCHANGED <<pc, head, origin, confirmed>>
    PROVE  /\ RevertProgress'
           /\ fs'.old \in confirmed \cup {None}
           /\ RecoverableImage(fs')
<1> USE ValuesDistinct DEF RevertProgress, Sound, RecoverableImage, At
<1>0. /\ InstTypeOK /\ fs \in Image /\ call[Agent] \in Call /\ call[Agent].step \in RevertSteps \cup {"done"}
      /\ confirmed \subseteq Releases /\ fs.old \in confirmed \cup {None}
      /\ fs.linked => fs.old = fs.path
      /\ RevertProgress /\ RecoverableImage(fs)
  BY AgentAssumption DEF RecoverInv, TypeInv, TypeOK, InstTypeOK, AgentTypeOK, CallMatches,
     OldConfirmed, Recoverable, Progress
<1>1. CASE RenameOld(Agent)
  <2>0. fs.old \in confirmed /\ fs.old # None BY <1>0, <1>1 DEF RenameOld, Contents
  <2>1. CASE fs.linked
    <3>1. call'[Agent].step = "removePending" /\ fs' = fs
      BY <1>0, <1>1, <2>0, <2>1, GotoCall DEF RenameOld, NoWrite, Steps, RevertSteps
    <3>2. QED BY <1>0, <2>0, <2>1, <3>1
  <2>2. CASE ~fs.linked
    <3>1. call'[Agent].step = "removePending" /\ fs' = [fs EXCEPT !.path = fs.old, !.old = None]
      BY <1>0, <1>1, <2>0, <2>2, GotoCall DEF RenameOld, Write, Steps, RevertSteps
    <3>2. QED BY <1>0, <2>0, <3>1 DEF Image
  <2>3. QED BY <2>1, <2>2
<1>2. CASE RemovePending(Agent)
  <2>1. call'[Agent].step = "syncRevert"
    BY <1>0, <1>2, GotoCall DEF RemovePending, Steps, RevertSteps
  <2>2. fs.path \in confirmed BY <1>0, <1>2 DEF RemovePending
  <2>3. QED BY <1>0, <1>2, <2>1, <2>2 DEF RemovePending, Write, Image
<1>3. CASE SyncDir(Agent)
  <2>1. call'[Agent].step = "done" BY <1>0, <1>3, DoneCall DEF SyncDir
  <2>2. QED BY <1>0, <1>3, <2>1 DEF SyncDir, Sync
<1>4. CASE SyscallFails(Agent)
  <2>1. fs.path \in confirmed /\ fs' = fs
    BY <1>0, <1>4 DEF SyscallFails, LastResortsWork, NoWrite
  <2>2. call'[Agent].step = "done"
    BY <1>0, <1>4, DoneCall DEF SyscallFails, RevertSteps
  <2>3. QED BY <1>0, <2>1, <2>2
<1>5. QED
  BY <1>0, <1>1, <1>2, <1>3, <1>4 DEF Syscall, RevertSteps, Stage, RemoveOld, LinkOld, TruncPending, WritePending,
     RenameNew, Unmark, TruncFailed, WriteFailed, RemoveFailed, WriteSyncFails

\* The other operations touch the markers only; ClearPending is called when
\* <path> is confirmed.
LEMMA MarkerStep ==
    ASSUME RecoverInv, Syscall(Agent), pc \in {"recClear", "clear", "recMark", "rbMark", "skip"}, origin # None,
           UNCHANGED <<pc, head, origin, confirmed>>
    PROVE  /\ fs'.path = fs.path /\ fs'.old = fs.old /\ fs'.linked = fs.linked
           /\ pc \in {"recMark", "rbMark", "skip"} => fs'.pending = fs.pending
<1> USE DEF At
<1>0. /\ fs \in Image
      /\ call[Agent].step \in ClearPendingSteps \cup MarkFailedSteps \cup ClearFailedSteps \cup {"idle", "done"}
      /\ pc \in {"recMark", "rbMark", "skip"} => call[Agent].step \notin ClearPendingSteps
  BY DEF RecoverInv, TypeInv, TypeOK, InstTypeOK, CallMatches, ClearPendingSteps, MarkFailedSteps, ClearFailedSteps
<1>1. CASE RemovePending(Agent)
  BY <1>0, <1>1 DEF RemovePending, Write, Image, ClearPendingSteps, MarkFailedSteps, ClearFailedSteps
<1>2. CASE TruncFailed(Agent) \/ WriteFailed(Agent) \/ RemoveFailed(Agent) \/ WriteSyncFails(Agent)
  BY <1>0, <1>2 DEF TruncFailed, WriteFailed, RemoveFailed, WriteSyncFails, Write, Image,
     ClearPendingSteps, MarkFailedSteps, ClearFailedSteps
<1>3. CASE SyncDir(Agent) \/ SyscallFails(Agent)
  BY <1>0, <1>3 DEF SyncDir, SyscallFails, Sync, NoWrite
<1>4. QED
  BY <1>0, <1>1, <1>2, <1>3 DEF Syscall, ClearPendingSteps, MarkFailedSteps, ClearFailedSteps, Stage, RemoveOld, LinkOld,
     TruncPending, WritePending, RenameNew, Unmark, RenameOld

\* RecoverInv is inductive.
LEMMA RecoverInvStep ==
    ASSUME LastResortsWork
    PROVE  RecoverInv /\ [Next]_vars => RecoverInv'
<1> SUFFICES ASSUME RecoverInv, [Next]_vars PROVE RecoverInv'
  OBVIOUS
<1>0. TypeInv' BY TypeInvStep DEF RecoverInv
<1>1. CASE UNCHANGED vars
  BY <1>0, <1>1 DEF vars, instVars, agentVars, RecoverInv, OldConfirmed, Progress, Recoverable, RecoverableImage,
     Sound, OnTrial, InstallProgress, RevertProgress
<1>2. CASE Steady
  BY <1>0, <1>2, SteadyImages, SteadyProgress DEF RecoverInv
<1>3. CASE AgentSyscall
  <2>1. Syscall(Agent) /\ UNCHANGED <<pc, head, origin, confirmed>> /\ Agent \in Procs
    BY <1>3, AgentAssumption DEF AgentSyscall, memory
  <2>2. disk' \subseteq disk \cup {fs, fs'} BY <2>1, SyscallType DEF RecoverInv, TypeInv, TypeOK
  <2>3. CASE origin = None
    BY <1>0, <2>1, <2>3 DEF RecoverInv, OldConfirmed, Progress, Recoverable, RecoverableImage
  <2>4. CASE origin # None
    <3>1. call[Agent].step \in Steps BY <2>1, SyscallCall DEF RecoverInv, TypeInv, TypeOK
    <3>2. pc \in {"install", "recRevert", "rbRevert", "recClear", "clear", "recMark", "rbMark", "skip"}
      BY <3>1, StepNames DEF RecoverInv, TypeInv, TypeOK, AgentTypeOK, AgentPcs, CallMatches
    <3>3. Progress' /\ fs'.old \in confirmed \cup {None} /\ RecoverableImage(fs')
      <4>1. CASE pc = "install"
        BY <2>1, <2>4, <4>1, InstallProgressStep DEF Progress
      <4>2. CASE pc \in {"recRevert", "rbRevert"}
        BY <2>1, <2>4, <4>2, RevertProgressStep DEF Progress
      <4>3. CASE pc \in {"recClear", "clear", "recMark", "rbMark", "skip"}
        BY <2>1, <2>4, <4>3, MarkerStep DEF RecoverInv, Progress, Sound, OnTrial, OldConfirmed, Recoverable, RecoverableImage
      <4>4. QED BY <3>2, <4>1, <4>2, <4>3
    <3>4. QED BY <1>0, <2>1, <2>2, <3>3 DEF RecoverInv, OldConfirmed, Recoverable, RecoverableImage
  <2>5. QED BY <2>3, <2>4
<1>4. QED BY <1>1, <1>2, <1>3 DEF Next, AgentNext, EnvNext, Steady

\* The first release passed its health check.
LEMMA RecoverInvInit == Init => RecoverInv
<1> SUFFICES ASSUME Init PROVE RecoverInv
  OBVIOUS
<1>1. PICK r \in Releases \cup {None} : InstInit(r) /\ origin = r /\ confirmed = {r} \ {None} /\ pc = "off"
  BY DEF Init
<1>2. fs.path = r /\ fs.old = None /\ disk = {fs} BY <1>1 DEF InstInit, Fresh
<1>3. QED BY <1>1, <1>2, TypeInvInit DEF RecoverInv, OldConfirmed, Progress, Recoverable, RecoverableImage

(***************************************************************************)
(* README guarantee 5 and DESIGN 6.5 for every number of releases, signals,*)
(* crashes and power losses, and every failing system call but the rename  *)
(* of Revert and the fsync that ends Install: on a target that had a       *)
(* release to begin with, every image of the directory that can be left    *)
(* behind has a release observed healthy at <path>, or the marker and such *)
(* a release at .old for hooks.recover to put back.                        *)
(***************************************************************************)
THEOREM AlwaysRecoverable ==
    ASSUME LastResortsWork
    PROVE  Spec => []Recoverable
<1>1. RecoverInv /\ [Next]_vars => RecoverInv' BY RecoverInvStep
<1>2. RecoverInv => Recoverable BY DEF RecoverInv
<1>3. QED BY RecoverInvInit, <1>1, <1>2, PTL DEF Spec

-----------------------------------------------------------------------------
(***************************************************************************)
(* What never happens when nothing may stop the agent.                     *)
(***************************************************************************)
BudgetInv ==
    /\ MaxTerms = 0       => budget.terms = 0 /\ ~ctxDone /\ pc # "exit"
    /\ MaxCrashes = 0     => budget.crashes = 0
    /\ MaxPowerLosses = 0 => budget.powerLosses = 0

\* Every step that is not a signal, a crash, a power loss or an exit.
Undisturbed ==
    \/ Start \/ RecoverCleared \/ Marked \/ Reverted \/ Poll \/ Skip
    \/ FetchOk \/ Installed \/ StartRestart \/ RestartOk \/ Healthy \/ Cleared
    \/ PollFails \/ FetchFails \/ RestartFailure \/ Unhealthy \/ Publish \/ ServiceRestarts
    \/ AgentSyscall

\* Such a step leaves the budget and the context alone, and heads for the exit
\* only under a context that is done.
LEMMA UndisturbedBudget ==
    ASSUME Undisturbed
    PROVE  UNCHANGED <<budget, ctxDone>> /\ (pc' = "exit" => ctxDone \/ pc = "exit")
<1> USE DEF memory, history, instVars, AfterCycle
<1>1. CASE Start \/ RecoverCleared \/ Marked \/ Reverted
  BY <1>1 DEF Start, RecoverCleared, Marked, Reverted
<1>2. CASE Poll \/ PollFails BY <1>2 DEF Poll, PollFails, Accept, Ignore
<1>3. CASE Skip \/ FetchOk \/ FetchFails BY <1>3 DEF Skip, FetchOk, FetchFails, Planned
<1>4. CASE Installed \/ Healthy \/ Unhealthy \/ Cleared
  BY <1>4 DEF Installed, Healthy, Unhealthy, Cleared
<1>5. CASE StartRestart \/ RestartOk \/ RestartFailure
  BY <1>5 DEF StartRestart, RestartOk, RestartFailure, RestartFailed, RestartPcs, RestartingPcs
<1>6. CASE Publish \/ ServiceRestarts \/ AgentSyscall BY <1>6 DEF Publish, ServiceRestarts, AgentSyscall
<1>7. QED BY <1>1, <1>2, <1>3, <1>4, <1>5, <1>6 DEF Undisturbed

\* Whatever may not happen at all has not happened.
LEMMA BudgetStep ==
    ASSUME TypeInv, BudgetInv, [Next]_vars
    PROVE  BudgetInv'
<1>0. budget \in [terms: Nat, crashes: Nat, powerLosses: Nat] BY DEF TypeInv, TypeOK, AgentTypeOK
<1>1. CASE UNCHANGED vars BY <1>1 DEF vars, agentVars, BudgetInv
<1>2. CASE Undisturbed BY <1>2, UndisturbedBudget DEF BudgetInv
<1>3. CASE Exit BY <1>3 DEF Exit, BudgetInv
<1>4. CASE Terminate
  <2>1. MaxTerms # 0 BY <1>0, <1>4 DEF Terminate, BudgetInv
  <2>2. budget'.crashes = budget.crashes /\ budget'.powerLosses = budget.powerLosses BY <1>0, <1>4 DEF Terminate
  <2>3. QED BY <2>1, <2>2 DEF BudgetInv
<1>5. CASE Crash
  <2>1. MaxCrashes # 0 BY <1>0, <1>5 DEF Crash, BudgetInv
  <2>2. budget'.terms = budget.terms /\ budget'.powerLosses = budget.powerLosses BY <1>0, <1>5 DEF Crash
  <2>3. ~ctxDone' /\ pc' # "exit" BY <1>5 DEF Crash
  <2>4. QED BY <2>1, <2>2, <2>3 DEF BudgetInv
<1>6. CASE PowerLoss
  <2>1. MaxPowerLosses # 0 BY <1>0, <1>6 DEF PowerLoss, BudgetInv
  <2>2. budget'.terms = budget.terms /\ budget'.crashes = budget.crashes BY <1>0, <1>6 DEF PowerLoss
  <2>3. ~ctxDone' /\ pc' # "exit" BY <1>6 DEF PowerLoss
  <2>4. QED BY <2>1, <2>2, <2>3 DEF BudgetInv
<1>7. QED BY <1>1, <1>2, <1>3, <1>4, <1>5, <1>6 DEF Next, AgentNext, EnvNext, Undisturbed

\* Nothing of the budget is spent at first.
LEMMA BudgetInit == Init => BudgetInv
BY DEF Init, BudgetInv

-----------------------------------------------------------------------------
(***************************************************************************)
(* Replays.  seq is not on disk: a restarted agent may accept an older     *)
(* pointer if the store can still answer with one.                         *)
(***************************************************************************)
Unstopped == MaxTerms = 0 /\ MaxCrashes = 0 /\ MaxPowerLosses = 0

ReplayInv == topSeq <= Len(ptrs) /\ (Unstopped => seq = topSeq)

\* The published pointers bound what was accepted; an agent that is never
\* stopped remembers it.
LEMMA ReplayStep ==
    ASSUME TypeInv, BudgetInv, ReplayInv, [Next]_vars
    PROVE  /\ ReplayInv'
           /\ (~StaleReads \/ Unstopped) /\ seq' # seq /\ seq' # 0 => seq' >= topSeq
<1>0. /\ ptrs \in Seq(Releases \cup {Foreign}) /\ Len(ptrs) \in Nat /\ topSeq \in Nat /\ seq \in Nat
      /\ budget \in [terms: Nat, crashes: Nat, powerLosses: Nat]
  BY DEF TypeInv, TypeOK, AgentTypeOK
<1>1. CASE UNCHANGED <<ptrs, seq, topSeq>> BY <1>1 DEF ReplayInv
<1>2. CASE Poll
  <2>1. PICK i \in 1..Len(ptrs) :
          /\ ~StaleReads => i = Len(ptrs)
          /\ ptrs' = ptrs
          /\ \/ UNCHANGED <<seq, topSeq>>
             \/ ~(i < seq) /\ seq' = i /\ topSeq' = IF i > topSeq THEN i ELSE topSeq
    BY <1>0, <1>2 DEF Poll, Ignore, Accept
  <2>2. QED BY <1>0, <2>1 DEF ReplayInv
<1>3. CASE Publish
  <2>1. PICK r \in Releases \cup {Foreign} : ptrs' = Append(ptrs, r) BY <1>3 DEF Publish
  <2>2. Len(ptrs') = Len(ptrs) + 1 BY <1>0, <2>1
  <2>3. UNCHANGED <<seq, topSeq>> BY <1>3 DEF Publish, memory, history
  <2>4. QED BY <1>0, <2>2, <2>3 DEF ReplayInv
<1>4. CASE Exit \/ Crash \/ PowerLoss
  <2>1. seq' = 0 /\ UNCHANGED <<ptrs, topSeq>> BY <1>4 DEF Exit, Crash, PowerLoss, history
  <2>2. ~Unstopped BY <1>0, <1>4 DEF Exit, Crash, PowerLoss, BudgetInv, Unstopped
  <2>3. QED BY <2>1, <2>2 DEF ReplayInv
<1>5. CASE \/ Start \/ RecoverCleared \/ Marked \/ Reverted \/ Skip \/ FetchOk \/ Installed \/ StartRestart
           \/ RestartOk \/ Healthy \/ Cleared \/ PollFails \/ FetchFails \/ RestartFailure \/ Unhealthy
           \/ Terminate \/ ServiceRestarts \/ AgentSyscall
  <2>1. UNCHANGED <<ptrs, seq, topSeq>>
    BY <1>5 DEF Start, RecoverCleared, Marked, Reverted, Skip, FetchOk, Installed, StartRestart, RestartOk, Healthy,
       Cleared, PollFails, FetchFails, RestartFailure, Unhealthy, Terminate, ServiceRestarts, AgentSyscall,
       memory, history
  <2>2. QED BY <1>1, <2>1
<1>6. UNCHANGED vars => UNCHANGED <<ptrs, seq, topSeq>> BY DEF vars, agentVars
<1>7. QED BY <1>1, <1>2, <1>3, <1>4, <1>5, <1>6 DEF Next, AgentNext, EnvNext

(***************************************************************************)
(* README guarantee 2, agent.pointer: a pointer older than the last one    *)
(* accepted is never accepted, by an agent that is not stopped whatever    *)
(* old pointers the store answers with, and by any agent if it does not.   *)
(***************************************************************************)
THEOREM NeverReplays ==
    ASSUME ~StaleReads \/ Unstopped
    PROVE  Spec => NoReplay
<1>1. Init => ReplayInv BY DEF Init, ReplayInv
<1>2. TypeInv /\ BudgetInv /\ ReplayInv /\ [Next]_vars =>
          ReplayInv' /\ BudgetInv' /\ TypeInv' /\ [seq' # seq /\ seq' # 0 => seq' >= topSeq]_vars
  BY BudgetStep, ReplayStep, TypeInvStep
<1>3. QED BY <1>1, <1>2, TypeInvInit, BudgetInit, PTL DEF Spec, NoReplay

-----------------------------------------------------------------------------
(***************************************************************************)
(* Between cycles.  A restart that fails or is not started, a death after  *)
(* the rename of an install or a revert, and an error of these operations  *)
(* after their rename leave the service on another file.                   *)
(***************************************************************************)
NothingCutShort ==
    /\ ~RestartFails /\ MaxTerms = 0 /\ MaxCrashes = 0
    /\ Faults \cap {"syncInstall", "removePending", "syncRevert"} = {}

\* The operation in progress has not renamed anything: it is not that far, or
\* it failed.
NotRenamed(after) == call[Agent].step \notin after \cup {"done"} \/ (call[Agent].step = "done" /\ ~call[Agent].ok)

SettledInv ==
    /\ pc \in {"off", "recClear", "recMark", "poll", "skip", "fetch", "check", "clear", "rbMark"} => running = fs.path
    /\ pc = "install" /\ NotRenamed({"syncInstall"}) => running = fs.path
    /\ pc \in {"recRevert", "rbRevert"} /\ NotRenamed({"removePending", "syncRevert"}) => running = fs.path

\* The agent's own steps: the service is restarted exactly when the file changed.
LEMMA SettledSteady ==
    ASSUME TypeInv, BudgetInv, SettledInv, NothingCutShort, Steady
    PROVE  SettledInv'
<1> USE DEF memory, history, instVars, NoWrite
<1>0. /\ ~ctxDone /\ pc # "exit" /\ ~RestartFails /\ budget.crashes = 0 /\ call[Agent] \in Call
      /\ AfterCycle = "poll"
  BY AgentAssumption DEF NothingCutShort, BudgetInv, TypeInv, TypeOK, InstTypeOK, AfterCycle
<1>1. CASE Start BY <1>1 DEF Start, SettledInv
<1>2. CASE RecoverCleared \/ Cleared BY <1>0, <1>2 DEF RecoverCleared, Cleared, SettledInv
<1>3. CASE Marked
  BY <1>0, <1>3 DEF Marked, SettledInv
<1>4. CASE Reverted
  BY <1>0, <1>4 DEF Reverted, SettledInv, NotRenamed, At
<1>5. CASE Poll \/ PollFails BY <1>0, <1>5 DEF Poll, PollFails, Accept, Ignore, SettledInv
<1>6. CASE Skip \/ FetchOk \/ FetchFails BY <1>0, <1>6 DEF Skip, FetchOk, FetchFails, Planned, SettledInv
<1>7. CASE Installed
  BY <1>0, <1>7 DEF Installed, SettledInv, NotRenamed, At
<1>8. CASE StartRestart
  BY <1>0, <1>8 DEF StartRestart, RestartPcs, SettledInv
<1>9. CASE RestartOk BY <1>0, <1>9 DEF RestartOk, SettledInv
<1>10. CASE RestartFailure BY <1>0, <1>10 DEF RestartFailure
<1>11. CASE Healthy \/ Unhealthy BY <1>11 DEF Healthy, Unhealthy, SettledInv
<1>12. CASE Exit BY <1>0, <1>12 DEF Exit
<1>13. CASE Publish \/ Terminate BY <1>13 DEF Publish, Terminate, SettledInv, NotRenamed
<1>14. CASE Crash BY <1>0, <1>14 DEF Crash
<1>15. CASE PowerLoss BY <1>15 DEF PowerLoss, SettledInv
<1>16. CASE ServiceRestarts BY <1>16 DEF ServiceRestarts, SettledInv
<1>17. QED
  BY <1>1, <1>2, <1>3, <1>4, <1>5, <1>6, <1>7, <1>8, <1>9, <1>10, <1>11, <1>12, <1>13, <1>14, <1>15, <1>16 DEF Steady

\* A system call changes the file only by one of the two renames.
LEMMA SettledSyscall ==
    ASSUME TypeInv, SettledInv, NothingCutShort, AgentSyscall
    PROVE  SettledInv'
<1> USE ValuesDistinct DEF At
<1>0. /\ InstTypeOK /\ CallMatches /\ fs \in Image /\ call[Agent] \in Call /\ Syscall(Agent) /\ pc \in AgentPcs
      /\ UNCHANGED <<pc, running>>
  BY AgentAssumption DEF TypeInv, TypeOK, AgentTypeOK, InstTypeOK, AgentSyscall
<1>1. CASE RenameNew(Agent)
  <2>1. call[Agent].step = "renameNew" /\ call'[Agent].step = "syncInstall"
    BY <1>0, <1>1, GotoCall DEF RenameNew, Steps, InstallSteps
  <2>2. pc = "install"
    BY <1>0, <2>1 DEF CallMatches, AgentPcs, RevertSteps, ClearPendingSteps, MarkFailedSteps, ClearFailedSteps
  <2>3. QED BY <1>0, <2>1, <2>2 DEF SettledInv, NotRenamed
<1>2. CASE RenameOld(Agent)
  <2>1. call[Agent].step = "renameOld" BY <1>2 DEF RenameOld
  <2>2. pc \in {"recRevert", "rbRevert"}
    BY <1>0, <2>1 DEF CallMatches, AgentPcs, InstallSteps, ClearPendingSteps, MarkFailedSteps, ClearFailedSteps
  <2>3. running = fs.path BY <2>1, <2>2 DEF SettledInv, NotRenamed
  <2>4. fs' = fs \/ call'[Agent].step = "removePending"
    BY <1>0, <1>2, GotoCall DEF RenameOld, NoWrite, Steps, RevertSteps
  <2>5. QED BY <1>0, <2>2, <2>3, <2>4 DEF SettledInv, NotRenamed
<1>3. CASE SyscallFails(Agent)
  <2>1. fs' = fs /\ call[Agent].step \in Faults BY <1>3 DEF SyscallFails, NoWrite
  <2>2. call[Agent].step \notin {"syncInstall", "removePending", "syncRevert"} BY <2>1 DEF NothingCutShort
  <2>3. call[Agent].step \in Steps BY <2>1, FaultsAreSteps
  <2>4. call[Agent].step # "done" BY <2>3, StepNames
  <2>5. QED BY <1>0, <2>1, <2>2, <2>4 DEF SettledInv, NotRenamed
<1>4. CASE SyncDir(Agent)
  <2>1. /\ fs' = fs /\ call[Agent].step \in {"syncInstall", "syncRevert", "syncClear"}
        /\ call'[Agent].step = "done" /\ call'[Agent].ok = TRUE
    BY <1>0, <1>4, DoneCall DEF SyncDir, Sync
  <2>2. QED BY <1>0, <2>1 DEF SettledInv, NotRenamed
<1>5. CASE RemovePending(Agent)
  <2>1. fs'.path = fs.path BY <1>0, <1>5 DEF RemovePending, Write, Image
  <2>2. \/ call[Agent].step = "removePending" /\ call'[Agent].step = "syncRevert"
        \/ call[Agent].step = "clearPending" /\ call'[Agent].step = "syncClear"
    BY <1>0, <1>5, GotoCall DEF RemovePending, Steps, RevertSteps, ClearPendingSteps
  <2>3. call[Agent].step = "clearPending" => pc \in {"recClear", "clear"}
    BY <1>0 DEF CallMatches, AgentPcs, InstallSteps, RevertSteps, MarkFailedSteps, ClearFailedSteps
  <2>4. call[Agent].step = "removePending" => pc \in {"recRevert", "rbRevert"}
    BY <1>0 DEF CallMatches, AgentPcs, InstallSteps, ClearPendingSteps, MarkFailedSteps, ClearFailedSteps
  <2>5. QED BY <1>0, <2>1, <2>2, <2>3, <2>4 DEF SettledInv, NotRenamed
<1>6. CASE \/ Stage(Agent) \/ RemoveOld(Agent) \/ LinkOld(Agent) \/ TruncPending(Agent) \/ WritePending(Agent)
           \/ Unmark(Agent) \/ TruncFailed(Agent) \/ WriteFailed(Agent) \/ RemoveFailed(Agent)
           \/ WriteSyncFails(Agent)
  <2>1. /\ fs'.path = fs.path
        /\ call[Agent].step \notin {"done", "syncInstall", "removePending", "syncRevert"}
    BY <1>0, <1>6 DEF Stage, RemoveOld, LinkOld, TruncPending, WritePending, Unmark, TruncFailed, WriteFailed,
       RemoveFailed, WriteSyncFails, Write, NoWrite, Image
  <2>2. QED BY <1>0, <2>1 DEF SettledInv, NotRenamed
<1>7. QED BY <1>0, <1>1, <1>2, <1>3, <1>4, <1>5, <1>6 DEF Syscall

(***************************************************************************)
(* DESIGN 6.1: between cycles the service executes the file at <path>, for *)
(* an agent that no signal and no crash interrupts, whose restart command  *)
(* works, and whatever other system calls fail or power losses happen.     *)
(***************************************************************************)
THEOREM AlwaysSettled ==
    ASSUME NothingCutShort
    PROVE  Spec => []Settled
<1>1. Init => SettledInv BY DEF Init, InstInit, Fresh, SettledInv
<1>2. TypeInv /\ BudgetInv /\ SettledInv /\ [Next]_vars => SettledInv'
  <2> SUFFICES ASSUME TypeInv, BudgetInv, SettledInv, [Next]_vars PROVE SettledInv'
    OBVIOUS
  <2>1. CASE UNCHANGED vars BY <2>1 DEF vars, instVars, agentVars, SettledInv, NotRenamed
  <2>2. CASE Steady BY <2>2, SettledSteady
  <2>3. CASE AgentSyscall BY <2>3, SettledSyscall
  <2>4. QED BY <2>1, <2>2, <2>3 DEF Next, AgentNext, EnvNext, Steady
<1>3. BudgetInv /\ SettledInv => Settled BY DEF BudgetInv, NothingCutShort, SettledInv, Settled
<1>4. TypeInv /\ BudgetInv /\ [Next]_vars => TypeInv' /\ BudgetInv' BY BudgetStep, TypeInvStep
<1>5. QED BY <1>1, <1>2, <1>3, <1>4, TypeInvInit, BudgetInit, PTL DEF Spec

-----------------------------------------------------------------------------
(***************************************************************************)
(* The failed marker.  A death between the marker and the rename of an     *)
(* install, a marker whose write fails after the hash is in it, and one    *)
(* that cannot be taken back make the recovery of the next start record a  *)
(* release that never was at <path>.                                       *)
(***************************************************************************)
MarkersTakenBack ==
    /\ MaxCrashes = 0 /\ MaxPowerLosses = 0
    /\ MaxTerms = 0 \/ Faults \cap {"writePending", "unmark"} = {}

FailedInv ==
    LET step == call[Agent].step IN
    /\ fs.failed \in visible \cup {None, Torn}
    /\ \/ fs.pending \in visible \cup {None, Torn}
       \/ pc = "install" /\ step \in {"renameNew", "unmark"} /\ fs.pending = head
       \/ MaxTerms = 0 /\ pc # "off"
    /\ pc \in {"restart", "restarting", "check", "rbMark"} => head \in visible
    /\ pc = "install" /\ ~NotRenamed({"syncInstall"}) => head \in visible
    /\ pc \in {"recMark", "rbMark"} /\ step # "done" => call[Agent].want \in visible \cup {Torn}

\* The call of MarkFailed that rollback and hooks.recover make.
LEMMA MarkCall ==
    ASSUME TypeInv, NEW h \in Marks, Begin(Agent, "truncFailed", None, h)
    PROVE  call'[Agent].step = "truncFailed" /\ call'[Agent].want = h
<1>1. call \in [Procs -> Call] BY DEF TypeInv, TypeOK, InstTypeOK
<1>2. call'[Agent] = [step |-> "truncFailed", data |-> None, want |-> h, ok |-> TRUE]
  BY <1>1, BeginCall DEF Begin, Steps, MarkFailedSteps
<1>3. QED BY <1>2

\* The agent's own steps: what is marked as failed was at <path>, or is what
\* the marker on trial names.
LEMMA FailedSteady ==
    ASSUME TypeInv, BudgetInv, FailedInv, MarkersTakenBack, Steady
    PROVE  FailedInv'
<1> USE ValuesDistinct DEF memory, history, instVars, NoWrite
<1>0. /\ budget.crashes = 0 /\ budget.powerLosses = 0 /\ fs \in Image /\ call[Agent] \in Call /\ CallMatches
      /\ MaxTerms = 0 => ~ctxDone /\ pc # "exit"
      /\ pc \in {"restart", "restarting", "check"} => head \in Releases
  BY AgentAssumption DEF MarkersTakenBack, BudgetInv, TypeInv, TypeOK, InstTypeOK, HasHead, CyclePcs
<1>1. CASE Start
  <2>1. fs' = fs /\ visible' = visible /\ pc = "off" /\ fs.pending \in visible \cup {None, Torn}
    BY <1>1 DEF Start, FailedInv
  <2>2. CASE pc' \in {"poll", "recClear"} BY <2>1, <2>2 DEF FailedInv
  <2>3. CASE pc' = "recMark" /\ HasPending /\ Begin(Agent, "truncFailed", None, fs.pending)
    <3>1. fs.pending \in Marks /\ fs.pending # None BY <1>0, <2>3 DEF Image, HasPending
    <3>2. call'[Agent].want = fs.pending BY <2>3, <3>1, MarkCall
    <3>3. QED BY <2>1, <2>3, <3>1, <3>2 DEF FailedInv
  <2>4. QED BY <1>1, <2>2, <2>3 DEF Start
<1>2. CASE RecoverCleared \/ Cleared BY <1>2 DEF RecoverCleared, Cleared, FailedInv, AfterCycle
<1>3. CASE Marked \/ Reverted BY <1>3 DEF Marked, Reverted, FailedInv, AfterCycle
<1>4. CASE Poll \/ PollFails
  <2>1. fs' = fs /\ visible' = visible /\ pc = "poll" /\ pc' \in {"skip", "poll", "exit"}
    BY <1>4 DEF Poll, PollFails, Accept, Ignore, AfterCycle
  <2>2. QED BY <2>1 DEF FailedInv
<1>5. CASE Skip \/ FetchFails
  <2>1. fs' = fs /\ visible' = visible /\ pc \in {"skip", "fetch"} /\ pc' \in {"skip", "fetch", "poll", "exit"}
    BY <1>5 DEF Skip, FetchFails, Planned, AfterCycle
  <2>2. QED BY <2>1 DEF FailedInv
<1>6. CASE FetchOk
  <2>1. fs' = fs /\ visible' = visible /\ pc = "fetch" /\ pc' = "install" BY <1>6 DEF FetchOk
  <2>2. call'[Agent].step = "stage"
    <3>1. head \in Releases /\ call \in [Procs -> Call]
      BY <2>1 DEF TypeInv, HasHead, CyclePcs, TypeOK, InstTypeOK
    <3>2. "stage" \in Steps /\ head \in Contents \cup {None} /\ head \in Marks
      BY <3>1 DEF Steps, InstallSteps, Marks, Contents
    <3>3. call'[Agent] = [step |-> "stage", data |-> head, want |-> head, ok |-> TRUE]
      BY <1>6, <3>1, <3>2, BeginCall DEF FetchOk, Begin
    <3>4. QED BY <3>3
  <2>3. QED BY <2>1, <2>2 DEF FailedInv, NotRenamed
<1>7. CASE Installed
  BY <1>0, <1>7 DEF Installed, FailedInv, NotRenamed, At, AfterCycle
<1>8. CASE StartRestart \/ RestartFailure \/ Unhealthy
  <2>1. /\ fs' = fs /\ visible' = visible /\ head' = head /\ pc # "install" /\ pc' # "install"
        /\ \/ /\ pc \in {"restart", "restarting", "check"} /\ pc' = "rbMark"
              /\ Begin(Agent, "truncFailed", None, head)
           \/ pc = "restart" /\ pc' = "restarting"
           \/ pc' \in {"rbRestarting", "recRestarting", "poll", "exit"}
    BY <1>8 DEF StartRestart, RestartFailure, Unhealthy, RestartFailed, RestartPcs, RestartingPcs, AfterCycle
  <2>2. CASE pc' = "rbMark"
    <3>1. head \in Marks /\ head \in visible BY <1>0, <2>1, <2>2 DEF FailedInv, Marks
    <3>2. call'[Agent].want = head BY <2>1, <2>2, <3>1, MarkCall
    <3>3. QED BY <2>1, <2>2, <3>1, <3>2 DEF FailedInv
  <2>3. CASE pc' # "rbMark" BY <2>1, <2>3 DEF FailedInv
  <2>4. QED BY <2>2, <2>3
<1>9. CASE RestartOk
  BY <1>9 DEF RestartOk, RestartingPcs, FailedInv, AfterCycle
<1>10. CASE Healthy BY <1>10 DEF Healthy, FailedInv
<1>11. CASE Exit BY <1>0, <1>11 DEF Exit, FailedInv
<1>12. CASE Publish \/ Terminate \/ ServiceRestarts
  BY <1>12 DEF Publish, Terminate, ServiceRestarts, FailedInv, NotRenamed
<1>13. CASE Crash \/ PowerLoss BY <1>0, <1>13 DEF Crash, PowerLoss
<1>14. QED
  BY <1>1, <1>2, <1>3, <1>4, <1>5, <1>6, <1>7, <1>8, <1>9, <1>10, <1>11, <1>12, <1>13 DEF Steady

\* A system call: the marker is written before the rename and the release is
\* visible after it.
LEMMA FailedSyscall ==
    ASSUME TypeInv, FailedInv, MarkersTakenBack, AgentSyscall
    PROVE  FailedInv'
<1> USE ValuesDistinct DEF At
<1>0. /\ InstTypeOK /\ CallMatches /\ HasHead /\ fs \in Image /\ call[Agent] \in Call /\ Syscall(Agent)
      /\ pc \in AgentPcs /\ UNCHANGED <<pc, head>>
      /\ visible \subseteq visible' /\ (fs'.path # None => fs'.path \in visible')
  BY AgentAssumption DEF TypeInv, TypeOK, AgentTypeOK, InstTypeOK, AgentSyscall, memory
<1>w. call'[Agent].data = call[Agent].data /\ call'[Agent].want = call[Agent].want BY <1>0, SyscallCall
<1>i. call[Agent].step \in InstallSteps => pc = "install" /\ head \in Releases /\ call[Agent].data = head /\ call[Agent].want = head
  BY <1>0 DEF CallMatches, HasHead, CyclePcs, AgentPcs, InstallSteps, RevertSteps, ClearPendingSteps, MarkFailedSteps, ClearFailedSteps
<1>n. pc = "install" => call[Agent].step \in InstallSteps \cup {"done"} BY <1>0 DEF CallMatches
<1>1. CASE RenameNew(Agent)
  <2>1. /\ call[Agent].step = "renameNew" /\ call'[Agent].step = "syncInstall"
        /\ fs' = [fs EXCEPT !.path = call[Agent].data, !.linked = FALSE]
    BY <1>0, <1>1, GotoCall DEF RenameNew, Write, Steps, InstallSteps
  <2>2. pc = "install" /\ head \in Releases /\ fs'.path = head /\ fs'.pending = fs.pending /\ fs'.failed = fs.failed
    BY <1>0, <1>i, <2>1 DEF Image, InstallSteps
  <2>3. head \in visible' /\ head # None BY <1>0, <2>2 DEF Contents
  <2>4. QED BY <1>0, <2>1, <2>2, <2>3 DEF FailedInv
<1>2. CASE WritePending(Agent)
  <2>1. /\ call[Agent].step = "writePending" /\ call'[Agent].step = "renameNew"
        /\ fs' = [fs EXCEPT !.pending = call[Agent].want]
    BY <1>0, <1>2, GotoCall DEF WritePending, Write, Steps, InstallSteps
  <2>2. pc = "install" /\ fs'.pending = head /\ fs'.failed = fs.failed
    BY <1>0, <1>i, <2>1 DEF Image, InstallSteps
  <2>3. QED BY <1>0, <2>1, <2>2 DEF FailedInv, NotRenamed
<1>3. CASE Unmark(Agent)
  <2>1. /\ call[Agent].step = "unmark" /\ call'[Agent].step = "done" /\ call'[Agent].ok = FALSE
        /\ fs' = [fs EXCEPT !.pending = None]
    BY <1>0, <1>3, DoneCall DEF Unmark, Write
  <2>2. pc = "install" /\ fs'.pending = None /\ fs'.failed = fs.failed
    BY <1>0, <1>i, <2>1 DEF Image, InstallSteps
  <2>3. QED BY <1>0, <2>1, <2>2 DEF FailedInv, NotRenamed
<1>4. CASE TruncFailed(Agent) \/ WriteFailed(Agent) \/ (WriteSyncFails(Agent) /\ call[Agent].step = "writeFailed")
  <2>1. /\ call[Agent].step \in MarkFailedSteps
        /\ fs' = [fs EXCEPT !.failed = Torn] \/ fs' = [fs EXCEPT !.failed = call[Agent].want]
    BY <1>0, <1>4 DEF TruncFailed, WriteFailed, WriteSyncFails, Write, MarkFailedSteps
  <2>2. pc \in {"recMark", "rbMark"}
    BY <1>0, <2>1 DEF CallMatches, AgentPcs, InstallSteps, RevertSteps, ClearPendingSteps, MarkFailedSteps, ClearFailedSteps
  <2>3. fs'.pending = fs.pending /\ fs'.failed \in {Torn, call[Agent].want} BY <1>0, <2>1 DEF Image
  <2>4. call[Agent].step # "done" BY <2>1 DEF MarkFailedSteps
  <2>5. QED BY <1>0, <1>w, <2>2, <2>3, <2>4 DEF FailedInv
<1>5. CASE SyscallFails(Agent)
  <2>1. fs' = fs /\ call[Agent].step \in Faults /\ (MaxTerms = 0 \/ call[Agent].step # "unmark")
    BY <1>5 DEF SyscallFails, NoWrite, MarkersTakenBack
  <2>2. \/ call[Agent].step = "renameNew" /\ call'[Agent].step = "unmark"
        \/ call[Agent].step # "renameNew" /\ call'[Agent].step = "done" /\ call'[Agent].ok = FALSE
    BY <1>0, <1>5, GotoCall, DoneCall DEF SyscallFails, Steps, InstallSteps
  <2>3. call[Agent].step # "done" BY <2>1, FaultsAreSteps, StepNames
  <2>4. call[Agent].step = "unmark" => pc = "install" BY <1>i DEF InstallSteps
  <2>5. QED BY <1>0, <1>w, <2>1, <2>2, <2>3, <2>4 DEF FailedInv, NotRenamed
<1>6. CASE SyncDir(Agent)
  <2>1. fs' = fs /\ call[Agent].step \in {"syncInstall", "syncRevert", "syncClear"} /\ call'[Agent].step = "done"
    BY <1>0, <1>6, DoneCall DEF SyncDir, Sync
  <2>2. pc = "install" => call[Agent].step = "syncInstall" BY <1>n, <2>1 DEF InstallSteps
  <2>3. QED BY <1>0, <1>w, <2>1, <2>2 DEF FailedInv, NotRenamed
<1>7. CASE \/ Stage(Agent) \/ RemoveOld(Agent) \/ LinkOld(Agent) \/ TruncPending(Agent)
  <2>1. /\ call[Agent].step \in {"stage", "removeOld", "linkOld", "truncPending"}
        /\ fs'.failed = fs.failed /\ fs'.pending \in {fs.pending, Torn}
    BY <1>0, <1>7 DEF Stage, RemoveOld, LinkOld, TruncPending, Write, NoWrite, Image
  <2>2. pc = "install" BY <1>i, <2>1 DEF InstallSteps
  <2>3. call'[Agent].step \in {"removeOld", "linkOld", "truncPending", "writePending"}
        \/ (call'[Agent].step = "done" /\ call'[Agent].ok = FALSE)
    BY <1>0, <1>7, GotoCall, DoneCall DEF Stage, RemoveOld, LinkOld, TruncPending, Steps, InstallSteps
  <2>4. QED BY <1>0, <2>1, <2>2, <2>3 DEF FailedInv, NotRenamed
<1>8. CASE RenameOld(Agent) \/ RemovePending(Agent) \/ RemoveFailed(Agent)
  <2>1. /\ call[Agent].step \in {"renameOld", "removePending", "clearPending", "clearFailed"}
        /\ fs'.failed \in {fs.failed, None} /\ fs'.pending \in {fs.pending, None}
    BY <1>0, <1>8 DEF RenameOld, RemovePending, RemoveFailed, Write, NoWrite, Image
  <2>2. pc \in {"recRevert", "rbRevert", "recClear", "clear", "skip"}
    BY <1>0, <2>1 DEF CallMatches, AgentPcs, InstallSteps, MarkFailedSteps
  <2>3. QED BY <1>0, <2>1, <2>2 DEF FailedInv
<1>9. CASE WriteSyncFails(Agent) /\ call[Agent].step = "writePending"
  <2>1. /\ call'[Agent].step = "done" /\ call'[Agent].ok = FALSE
        /\ fs' = [fs EXCEPT !.pending = call[Agent].want]
    BY <1>0, <1>9, DoneCall DEF WriteSyncFails, Write
  <2>2. pc = "install" /\ fs'.failed = fs.failed BY <1>0, <1>i, <1>9, <2>1 DEF Image, InstallSteps
  <2>3. MaxTerms = 0 BY <1>9 DEF WriteSyncFails, MarkersTakenBack
  <2>4. QED BY <1>0, <2>1, <2>2, <2>3 DEF FailedInv, NotRenamed
<1>10. QED
  BY <1>0, <1>1, <1>2, <1>3, <1>4, <1>5, <1>6, <1>7, <1>8, <1>9 DEF Syscall, WriteSyncFails

(***************************************************************************)
(* Comment on Installer.MarkFailed: the failed marker names a release that *)
(* was installed.  Whatever system calls fail, for an agent that is never  *)
(* started again; for one that signals stop and that does not die inside   *)
(* an install, whatever system calls fail but the write of the marker on   *)
(* trial and its removal after an install that failed.                     *)
(***************************************************************************)
THEOREM FailedAlwaysWasInstalled ==
    ASSUME MarkersTakenBack
    PROVE  Spec => []FailedWasInstalled
<1>1. Init => FailedInv BY DEF Init, InstInit, Fresh, FailedInv
<1>2. TypeInv /\ BudgetInv /\ FailedInv /\ [Next]_vars => FailedInv'
  <2> SUFFICES ASSUME TypeInv, BudgetInv, FailedInv, [Next]_vars PROVE FailedInv'
    OBVIOUS
  <2>1. CASE UNCHANGED vars BY <2>1 DEF vars, instVars, agentVars, FailedInv, NotRenamed
  <2>2. CASE Steady BY <2>2, FailedSteady
  <2>3. CASE AgentSyscall BY <2>3, FailedSyscall
  <2>4. QED BY <2>1, <2>2, <2>3 DEF Next, AgentNext, EnvNext, Steady
<1>3. FailedInv => FailedWasInstalled BY DEF FailedInv, FailedWasInstalled, FailedMark
<1>4. TypeInv /\ BudgetInv /\ [Next]_vars => TypeInv' /\ BudgetInv' BY BudgetStep, TypeInvStep
<1>5. QED BY <1>1, <1>2, <1>3, <1>4, TypeInvInit, BudgetInit, PTL DEF Spec

-----------------------------------------------------------------------------
(***************************************************************************)
(* No reinstall.  A release is taken off <path> only after the failed      *)
(* marker names it, and agent.skip keeps the agent away from a head that   *)
(* is so marked; the marker is cleared only for another head.              *)
(***************************************************************************)
MarksWritten == Faults \cap MarkFailedSteps = {}

\* An image with a way back has on trial what its marker names.
OnTrialIsMarked ==
    \A image \in disk \cup {fs} :
        image.pending # None /\ image.old # None /\ ~image.linked => image.path = image.pending

RejectInv ==
    LET step == call[Agent].step IN
    /\ rejected # {} => rejected = {fs.failed} /\ fs.old = None
    /\ pc = "skip" => rejected \subseteq {head}
    /\ pc = "skip" /\ step # "idle" => rejected = {}
    /\ pc \in {"fetch", "install", "restart", "restarting", "check", "clear", "rbMark", "recMark"} => rejected = {}
    /\ pc \in {"recRevert", "rbRevert"} /\ step = "renameOld" =>
           rejected = {} /\ (fs.old # None /\ ~fs.linked => fs.failed = fs.path)
    /\ pc \in {"restart", "restarting", "check", "rbMark"} => fs.path = head
    /\ pc = "install" =>
           /\ step \in {"truncPending", "writePending", "renameNew"} => fs.linked \/ fs.old = None
           /\ step = "renameNew" => fs.pending = head
           /\ ~NotRenamed({"syncInstall"}) => fs.path = head
    /\ pc = "rbMark" => IF step = "done" THEN fs.failed = head ELSE call[Agent].want = head
    /\ pc = "recMark" =>
           /\ fs.pending # None /\ fs.old # None
           /\ IF step = "done" THEN fs.failed = fs.pending ELSE call[Agent].want = fs.pending

\* The agent's own steps: a head that was taken off is never fetched.
LEMMA RejectSteady ==
    ASSUME TypeInv, OnTrialIsMarked, RejectInv, Steady
    PROVE  OnTrialIsMarked' /\ RejectInv'
<1> USE ValuesDistinct DEF memory, history, instVars, NoWrite
<1>0. /\ fs \in Image /\ call \in [Procs -> Call] /\ call[Agent] \in Call /\ CallMatches /\ rejected \subseteq Contents
      /\ pc \in CyclePcs => head \in Releases
  BY AgentAssumption DEF TypeInv, TypeOK, InstTypeOK, AgentTypeOK, HasHead
<1>a. OnTrialIsMarked' BY SteadyFiles DEF OnTrialIsMarked
<1>b. rejected # {} => rejected = {fs.failed} /\ fs.old = None BY DEF RejectInv
<1>1. CASE Start
  <2>1. fs' = fs /\ rejected' = rejected /\ head' = head /\ pc = "off" BY <1>1 DEF Start
  <2>2. CASE pc' \in {"poll", "recClear"} BY <1>a, <1>b, <2>1, <2>2 DEF RejectInv
  <2>3. CASE pc' = "recMark" /\ HasPending /\ fs.old # None /\ Begin(Agent, "truncFailed", None, fs.pending)
    <3>1. fs.pending \in Marks /\ fs.pending # None BY <1>0, <2>3 DEF Image, HasPending
    <3>2. call'[Agent].want = fs.pending /\ call'[Agent].step = "truncFailed" BY <2>3, <3>1, MarkCall
    <3>3. rejected = {} BY <1>b, <2>3
    <3>4. QED BY <1>a, <2>1, <2>3, <3>1, <3>2, <3>3 DEF RejectInv
  <2>4. QED BY <1>1, <1>a, <2>2, <2>3 DEF Start
<1>2. CASE RecoverCleared \/ Cleared \/ Reverted
  <2>1. /\ fs' = fs /\ rejected' = rejected
        /\ pc' \in {"poll", "exit", "recRestart", "rbRestart"}
    BY <1>2 DEF RecoverCleared, Cleared, Reverted, AfterCycle
  <2>2. QED BY <1>a, <1>b, <2>1 DEF RejectInv
<1>3. CASE Marked
  <2>1. fs' = fs /\ rejected' = rejected /\ pc \in {"recMark", "rbMark"} /\ call[Agent].step = "done"
        /\ pc' \in {"recRevert", "rbRevert", "poll", "exit"}
    BY <1>3 DEF Marked, AfterCycle, At
  <2>2. rejected = {} BY <2>1 DEF RejectInv
  <2>3. fs.old # None /\ ~fs.linked => fs.failed = fs.path BY <2>1 DEF RejectInv, OnTrialIsMarked
  <2>4. QED BY <1>a, <2>1, <2>2, <2>3 DEF RejectInv
<1>4. CASE Poll \/ PollFails
  <2>1. /\ fs' = fs /\ call' = call /\ pc = "poll"
        /\ \/ pc' = "skip" /\ rejected' = rejected \cap {head'}
           \/ pc' \in {"poll", "exit"} /\ rejected' = rejected
    BY <1>4 DEF Poll, PollFails, Accept, Ignore, AfterCycle
  <2>2. call'[Agent].step = "idle" BY <1>0, <2>1 DEF CallMatches
  <2>3. rejected' # {} => rejected' = {fs.failed} /\ fs.old = None BY <1>b, <2>1
  <2>4. QED BY <1>a, <2>1, <2>2, <2>3 DEF RejectInv
<1>5. CASE Skip
  <2>1. /\ fs' = fs /\ rejected' = rejected /\ head' = head /\ pc = "skip"
        /\ pc' \in {"skip", "fetch", "poll", "exit"}
    BY <1>5 DEF Skip, Planned, AfterCycle
  <2>2. CASE pc' \in {"poll", "exit"} BY <1>a, <1>b, <2>1, <2>2 DEF RejectInv
  <2>3. CASE pc' \in {"skip", "fetch"}
    <3>1. At(Agent, "done") \/ (At(Agent, "idle") /\ FailedMark # head)
      <4>1. head # None BY <1>0, <2>1 DEF CyclePcs, Contents
      <4>2. AfterCycle \notin {"skip", "fetch"} BY DEF AfterCycle
      <4>3. QED BY <1>5, <2>3, <4>1, <4>2 DEF Skip
    <3>2. rejected = {}
      <4>1. CASE call[Agent].step = "done" BY <2>1, <4>1 DEF RejectInv
      <4>2. CASE FailedMark # head
        <5>1. SUFFICES ASSUME rejected # {} PROVE FALSE OBVIOUS
        <5>2. rejected = {fs.failed} /\ fs.failed = head BY <1>b, <2>1, <5>1 DEF RejectInv
        <5>3. fs.failed # Torn BY <1>0, <5>2
        <5>4. QED BY <4>2, <5>2, <5>3 DEF FailedMark
      <4>3. QED BY <3>1, <4>1, <4>2 DEF At
    <3>3. QED BY <1>a, <2>1, <2>3, <3>2 DEF RejectInv
  <2>4. QED BY <2>1, <2>2, <2>3
<1>6. CASE FetchFails
  <2>1. fs' = fs /\ rejected' = rejected /\ pc' \in {"poll", "exit"} BY <1>6 DEF FetchFails, AfterCycle
  <2>2. QED BY <1>a, <1>b, <2>1 DEF RejectInv
<1>7. CASE FetchOk
  <2>1. fs' = fs /\ rejected' = rejected /\ pc = "fetch" /\ pc' = "install" BY <1>7 DEF FetchOk
  <2>2. "stage" \in Steps /\ head \in Contents \cup {None} /\ head \in Marks
    BY <1>0, <2>1 DEF CyclePcs, Steps, InstallSteps, Marks, Contents
  <2>3. call'[Agent] = [step |-> "stage", data |-> head, want |-> head, ok |-> TRUE]
    BY <1>0, <1>7, <2>2, BeginCall DEF FetchOk, Begin
  <2>4. call'[Agent].step = "stage" BY <2>3
  <2>5. QED BY <1>a, <2>1, <2>4 DEF RejectInv, NotRenamed
<1>8. CASE Installed
  <2>1. /\ fs' = fs /\ rejected' = rejected /\ head' = head /\ pc = "install" /\ call[Agent].step = "done"
        /\ \/ call[Agent].ok /\ pc' = "restart"
           \/ pc' \in {"poll", "exit"}
    BY <1>8 DEF Installed, At, AfterCycle
  <2>2. rejected = {} /\ (call[Agent].ok => fs.path = head) BY <2>1 DEF RejectInv, NotRenamed
  <2>3. QED BY <1>a, <2>1, <2>2 DEF RejectInv
<1>9. CASE StartRestart \/ RestartFailure \/ Unhealthy
  <2>1. /\ fs' = fs /\ rejected' = rejected /\ head' = head
        /\ \/ /\ pc \in {"restart", "restarting", "check"} /\ pc' = "rbMark"
              /\ Begin(Agent, "truncFailed", None, head)
           \/ pc = "restart" /\ pc' = "restarting"
           \/ pc' \in {"rbRestarting", "recRestarting", "poll", "exit"}
    BY <1>9 DEF StartRestart, RestartFailure, Unhealthy, RestartFailed, RestartPcs, RestartingPcs, AfterCycle
  <2>2. CASE pc' = "rbMark"
    <3>1. head \in Marks /\ rejected = {} /\ fs.path = head BY <1>0, <2>1, <2>2 DEF RejectInv, Marks, CyclePcs
    <3>2. call'[Agent].want = head /\ call'[Agent].step = "truncFailed" BY <2>1, <2>2, <3>1, MarkCall
    <3>3. QED BY <1>a, <2>1, <2>2, <3>1, <3>2 DEF RejectInv
  <2>3. CASE pc' = "restarting" /\ pc = "restart" BY <1>a, <2>1, <2>3 DEF RejectInv
  <2>4. CASE pc' \in {"rbRestarting", "recRestarting", "poll", "exit"} BY <1>a, <1>b, <2>1, <2>4 DEF RejectInv
  <2>5. QED BY <2>1, <2>2, <2>3, <2>4
<1>10. CASE RestartOk
  <2>1. /\ fs' = fs /\ rejected' = rejected /\ head' = head
        /\ (pc = "restarting" /\ pc' = "check") \/ pc' \in {"poll", "exit"}
    BY <1>10 DEF RestartOk, RestartingPcs, AfterCycle
  <2>2. CASE pc = "restarting" /\ pc' = "check" BY <1>a, <2>1, <2>2 DEF RejectInv
  <2>3. CASE pc' \in {"poll", "exit"} BY <1>a, <1>b, <2>1, <2>3 DEF RejectInv
  <2>4. QED BY <2>1, <2>2, <2>3
<1>11. CASE Healthy
  <2>1. fs' = fs /\ rejected' = rejected /\ pc = "check" /\ pc' = "clear" BY <1>11 DEF Healthy
  <2>2. QED BY <1>a, <2>1 DEF RejectInv
<1>12. CASE Exit \/ Crash \/ PowerLoss
  <2>1. pc' = "off" /\ (rejected' = {} \/ (fs' = fs /\ rejected' = rejected))
    BY <1>12 DEF Exit, Crash, PowerLoss, Dies
  <2>2. QED BY <1>a, <1>b, <2>1 DEF RejectInv
<1>13. CASE Publish \/ Terminate \/ ServiceRestarts
  <2>1. UNCHANGED <<fs, call, pc, head, rejected>> BY <1>13 DEF Publish, Terminate, ServiceRestarts
  <2>2. QED BY <1>a, <2>1 DEF RejectInv, NotRenamed
<1>14. QED
  BY <1>1, <1>2, <1>3, <1>4, <1>5, <1>6, <1>7, <1>8, <1>9, <1>10, <1>11, <1>12, <1>13 DEF Steady

\* A system call: RenameOld finds the marker written, RenameNew finds nothing
\* taken off.
LEMMA RejectSyscall ==
    ASSUME TypeInv, OnTrialIsMarked, RejectInv, MarksWritten, AgentSyscall
    PROVE  OnTrialIsMarked' /\ RejectInv'
<1> USE ValuesDistinct DEF At
<1>0. /\ InstTypeOK /\ CallMatches /\ HasHead /\ OldThenPath /\ fs \in Image /\ call[Agent] \in Call /\ Syscall(Agent)
      /\ pc \in AgentPcs /\ UNCHANGED <<pc, head>>
      /\ rejected' = IF call[Agent].step = "renameOld" /\ fs'.path # fs.path THEN rejected \cup {fs.path} ELSE rejected
  BY AgentAssumption DEF TypeInv, TypeOK, AgentTypeOK, InstTypeOK, AgentSyscall, memory
<1>w. call'[Agent].data = call[Agent].data /\ call'[Agent].want = call[Agent].want BY <1>0, SyscallCall
<1>i. call[Agent].step \in InstallSteps => pc = "install" /\ head \in Releases /\ call[Agent].data = head /\ call[Agent].want = head
  BY <1>0 DEF CallMatches, HasHead, CyclePcs, AgentPcs, InstallSteps, RevertSteps, ClearPendingSteps, MarkFailedSteps, ClearFailedSteps
<1>n. pc = "install" => call[Agent].step \in InstallSteps \cup {"done"} BY <1>0 DEF CallMatches
<1>r. call[Agent].step # "renameOld" => rejected' = rejected BY <1>0
<1>d. disk' \subseteq disk \cup {fs, fs'}
  <2>1. CASE \E image : Write(image) BY <2>1 DEF Write
  <2>2. CASE Sync \/ NoWrite BY <2>2 DEF Sync, NoWrite
  <2>3. QED
    BY <1>0, <2>1, <2>2 DEF Syscall, Stage, RemoveOld, LinkOld, TruncPending, WritePending, RenameNew, Unmark, RenameOld,
       RemovePending, SyncDir, TruncFailed, WriteFailed, RemoveFailed, SyscallFails, WriteSyncFails
<1>t. (fs'.pending # None /\ fs'.old # None /\ ~fs'.linked => fs'.path = fs'.pending) => OnTrialIsMarked'
  BY <1>d DEF OnTrialIsMarked
<1>u. fs.pending # None /\ fs.old # None /\ ~fs.linked => fs.path = fs.pending BY DEF OnTrialIsMarked
<1>1. CASE Stage(Agent) \/ RemoveOld(Agent) \/ LinkOld(Agent)
  <2>1. /\ call[Agent].step \in {"stage", "removeOld", "linkOld"}
        /\ fs' \in {fs, [fs EXCEPT !.old = None, !.linked = FALSE], [fs EXCEPT !.old = fs.path, !.linked = TRUE]}
    BY <1>1 DEF Stage, RemoveOld, LinkOld, Write, NoWrite
  <2>2. /\ fs'.pending = fs.pending /\ fs'.failed = fs.failed /\ fs'.path = fs.path
        /\ fs' = fs \/ fs'.old = None \/ fs'.linked
    BY <1>0, <2>1 DEF Image
  <2>3. pc = "install" /\ rejected' = {} BY <1>i, <1>r, <2>1 DEF InstallSteps, RejectInv
  <2>4. \/ call'[Agent].step \in {"removeOld", "linkOld"}
        \/ call'[Agent].step = "truncPending" /\ (fs'.linked \/ fs'.old = None)
        \/ call'[Agent].step = "done" /\ call'[Agent].ok = FALSE
    <3>1. CASE Stage(Agent) BY <1>0, <3>1, GotoCall, DoneCall DEF Stage, Steps, InstallSteps
    <3>2. CASE RemoveOld(Agent) BY <1>0, <3>2, GotoCall DEF RemoveOld, Steps, InstallSteps
    <3>3. CASE LinkOld(Agent)
      <4>1. CASE fs.path = None
        <5>1. fs' = fs /\ fs.old = None BY <1>0, <3>3, <4>1 DEF LinkOld, NoWrite, OldThenPath
        <5>2. call'[Agent].step = "truncPending" BY <1>0, <3>3, <4>1, GotoCall DEF LinkOld, Steps, InstallSteps
        <5>3. QED BY <5>1, <5>2
      <4>2. CASE fs.path # None /\ fs.old = None
        <5>1. fs'.linked BY <1>0, <3>3, <4>2 DEF LinkOld, Write, Image
        <5>2. call'[Agent].step = "truncPending" BY <1>0, <3>3, <4>2, GotoCall DEF LinkOld, Steps, InstallSteps
        <5>3. QED BY <5>1, <5>2
      <4>3. CASE fs.path # None /\ fs.old # None BY <1>0, <3>3, <4>3, DoneCall DEF LinkOld
      <4>4. QED BY <4>1, <4>2, <4>3
    <3>4. QED BY <1>1, <3>1, <3>2, <3>3
  <2>5. OnTrialIsMarked' BY <1>t, <1>u, <2>2
  <2>6. QED BY <1>0, <2>3, <2>4, <2>5 DEF RejectInv, NotRenamed
<1>2. CASE TruncPending(Agent) \/ WritePending(Agent)
  <2>1. /\ call[Agent].step \in {"truncPending", "writePending"}
        /\ \/ fs' = [fs EXCEPT !.pending = Torn] /\ call'[Agent].step = "writePending"
           \/ fs' = [fs EXCEPT !.pending = call[Agent].want] /\ call'[Agent].step = "renameNew"
    BY <1>0, <1>2, GotoCall DEF TruncPending, WritePending, Write, Steps, InstallSteps
  <2>2. pc = "install" /\ call[Agent].want = head BY <1>i, <2>1 DEF InstallSteps
  <2>3. fs.linked \/ fs.old = None BY <2>1, <2>2 DEF RejectInv
  <2>4. /\ fs'.old = fs.old /\ fs'.linked = fs.linked
        /\ call'[Agent].step = "renameNew" => fs'.pending = head
    BY <1>0, <2>1, <2>2 DEF Image
  <2>5. rejected' = {} BY <1>r, <2>1, <2>2 DEF RejectInv
  <2>6. QED BY <1>0, <1>t, <2>1, <2>2, <2>3, <2>4, <2>5 DEF RejectInv, NotRenamed
<1>3. CASE RenameNew(Agent)
  <2>1. /\ call[Agent].step = "renameNew" /\ call'[Agent].step = "syncInstall"
        /\ fs' = [fs EXCEPT !.path = call[Agent].data, !.linked = FALSE]
    BY <1>0, <1>3, GotoCall DEF RenameNew, Write, Steps, InstallSteps
  <2>2. pc = "install" /\ fs.pending = head /\ call[Agent].data = head BY <1>i, <2>1 DEF InstallSteps, RejectInv
  <2>3. fs'.path = head /\ fs'.pending = head BY <1>0, <2>1, <2>2 DEF Image
  <2>4. rejected' = {} BY <1>r, <2>1, <2>2 DEF RejectInv
  <2>5. QED BY <1>0, <1>t, <2>1, <2>2, <2>3, <2>4 DEF RejectInv, NotRenamed
<1>4. CASE Unmark(Agent)
  <2>1. /\ call[Agent].step = "unmark" /\ call'[Agent].step = "done" /\ call'[Agent].ok = FALSE
        /\ fs' = [fs EXCEPT !.pending = None]
    BY <1>0, <1>4, DoneCall DEF Unmark, Write
  <2>2. pc = "install" /\ fs'.pending = None BY <1>0, <1>i, <2>1 DEF Image, InstallSteps
  <2>3. rejected' = {} BY <1>r, <2>1, <2>2 DEF RejectInv
  <2>4. QED BY <1>0, <1>t, <2>1, <2>2, <2>3 DEF RejectInv, NotRenamed
<1>5. CASE RenameOld(Agent)
  <2>1. call[Agent].step = "renameOld" /\ call'[Agent].step \in {"done", "removePending"}
    BY <1>0, <1>5, GotoCall, DoneCall DEF RenameOld, Steps, RevertSteps
  <2>2. pc \in {"recRevert", "rbRevert"}
    BY <1>0, <2>1 DEF CallMatches, AgentPcs, InstallSteps, ClearPendingSteps, MarkFailedSteps, ClearFailedSteps
  <2>3. rejected = {} /\ (fs.old # None /\ ~fs.linked => fs.failed = fs.path) BY <2>1, <2>2 DEF RejectInv
  <2>4. CASE fs' = fs
    <3>1. rejected' = {} BY <1>0, <2>3, <2>4
    <3>2. QED BY <1>0, <1>t, <1>u, <2>1, <2>2, <2>4, <3>1 DEF RejectInv
  <2>5. CASE fs.old # None /\ ~fs.linked /\ fs' = [fs EXCEPT !.path = fs.old, !.old = None]
    <3>1. fs'.old = None /\ fs'.failed = fs.path BY <1>0, <2>3, <2>5 DEF Image
    <3>2. rejected' = {} \/ rejected' = {fs'.failed} BY <1>0, <2>3, <3>1
    <3>3. QED BY <1>0, <1>t, <2>1, <2>2, <3>1, <3>2 DEF RejectInv
  <2>6. QED BY <1>5, <2>4, <2>5 DEF RenameOld, Write, NoWrite
<1>6. CASE RemovePending(Agent)
  <2>1. /\ call[Agent].step \in {"removePending", "clearPending"} /\ call'[Agent].step \in {"syncRevert", "syncClear"}
        /\ fs' = [fs EXCEPT !.pending = None]
    BY <1>0, <1>6, GotoCall DEF RemovePending, Write, Steps, RevertSteps, ClearPendingSteps
  <2>2. pc \in {"recRevert", "rbRevert", "recClear", "clear"}
    BY <1>0, <2>1 DEF CallMatches, AgentPcs, InstallSteps, MarkFailedSteps, ClearFailedSteps
  <2>3. fs'.pending = None /\ fs'.old = fs.old /\ fs'.failed = fs.failed BY <1>0, <2>1 DEF Image
  <2>4. rejected' = rejected BY <1>r, <2>1
  <2>5. QED BY <1>0, <1>t, <2>1, <2>2, <2>3, <2>4 DEF RejectInv
<1>7. CASE SyncDir(Agent)
  <2>1. fs' = fs /\ call[Agent].step \in {"syncInstall", "syncRevert", "syncClear"} /\ call'[Agent].step = "done"
    BY <1>0, <1>7, DoneCall DEF SyncDir, Sync
  <2>2. pc \in {"install", "recRevert", "rbRevert", "recClear", "clear"} /\ (pc = "install" => call[Agent].step = "syncInstall")
    BY <1>0, <2>1 DEF CallMatches, AgentPcs, InstallSteps, RevertSteps, ClearPendingSteps, MarkFailedSteps, ClearFailedSteps
  <2>3. rejected' = rejected BY <1>r, <2>1
  <2>4. QED BY <1>0, <1>t, <1>u, <2>1, <2>2, <2>3 DEF RejectInv, NotRenamed
<1>8. CASE TruncFailed(Agent) \/ WriteFailed(Agent)
  <2>1. /\ call[Agent].step \in MarkFailedSteps
        /\ \/ fs' = [fs EXCEPT !.failed = Torn] /\ call'[Agent].step = "writeFailed"
           \/ fs' = [fs EXCEPT !.failed = call[Agent].want] /\ call'[Agent].step = "done"
    BY <1>0, <1>8, GotoCall, DoneCall DEF TruncFailed, WriteFailed, Write, Steps, MarkFailedSteps
  <2>2. pc \in {"recMark", "rbMark"}
    BY <1>0, <2>1 DEF CallMatches, AgentPcs, InstallSteps, RevertSteps, ClearPendingSteps, MarkFailedSteps, ClearFailedSteps
  <2>3. /\ fs'.path = fs.path /\ fs'.old = fs.old /\ fs'.linked = fs.linked /\ fs'.pending = fs.pending
        /\ call'[Agent].step = "done" => fs'.failed = call[Agent].want
    BY <1>0, <2>1 DEF Image
  <2>4. call[Agent].step # "done" BY <2>1 DEF MarkFailedSteps
  <2>5. rejected' = {} BY <1>r, <2>1, <2>2 DEF RejectInv, MarkFailedSteps
  <2>6. QED BY <1>0, <1>w, <1>t, <1>u, <2>2, <2>3, <2>4, <2>5 DEF RejectInv
<1>9. CASE RemoveFailed(Agent)
  <2>1. call[Agent].step = "clearFailed" /\ fs' = [fs EXCEPT !.failed = None] BY <1>9 DEF RemoveFailed, Write
  <2>2. pc = "skip"
    BY <1>0, <2>1 DEF CallMatches, AgentPcs, InstallSteps, RevertSteps, ClearPendingSteps, MarkFailedSteps
  <2>3. rejected' = {} BY <1>r, <2>1, <2>2 DEF RejectInv
  <2>4. fs'.path = fs.path /\ fs'.old = fs.old /\ fs'.linked = fs.linked /\ fs'.pending = fs.pending
    BY <1>0, <2>1 DEF Image
  <2>5. QED BY <1>0, <1>t, <1>u, <2>2, <2>3, <2>4 DEF RejectInv
<1>10. CASE SyscallFails(Agent)
  <2>1. fs' = fs /\ call[Agent].step \in Faults BY <1>10 DEF SyscallFails, NoWrite
  <2>2. call[Agent].step \notin MarkFailedSteps \cup {"done", "idle"} BY <2>1, FaultsAreSteps, StepNames DEF MarksWritten
  <2>3. pc \notin {"recMark", "rbMark"} BY <1>0, <2>2 DEF CallMatches
  <2>4. \/ call'[Agent].step = "unmark"
        \/ call'[Agent].step = "done" /\ call'[Agent].ok = FALSE
    BY <1>0, <1>10, GotoCall, DoneCall DEF SyscallFails, Steps, InstallSteps
  <2>5. rejected' = rejected BY <1>0, <2>1
  <2>6. QED BY <1>0, <1>t, <1>u, <2>1, <2>2, <2>3, <2>4, <2>5 DEF RejectInv, NotRenamed
<1>11. CASE WriteSyncFails(Agent)
  <2>1. call[Agent].step = "writePending" BY <1>11 DEF WriteSyncFails, MarksWritten, MarkFailedSteps
  <2>2. /\ call'[Agent].step = "done" /\ call'[Agent].ok = FALSE
        /\ fs' = [fs EXCEPT !.pending = call[Agent].want]
    BY <1>0, <1>11, <2>1, DoneCall DEF WriteSyncFails, Write
  <2>3. pc = "install" /\ (fs.linked \/ fs.old = None) BY <1>i, <2>1 DEF InstallSteps, RejectInv
  <2>4. fs'.old = fs.old /\ fs'.linked = fs.linked BY <1>0, <2>2 DEF Image
  <2>5. rejected' = {} BY <1>r, <2>1, <2>3 DEF RejectInv
  <2>6. QED BY <1>0, <1>t, <2>2, <2>3, <2>4, <2>5 DEF RejectInv, NotRenamed
<1>12. QED BY <1>0, <1>1, <1>2, <1>3, <1>4, <1>5, <1>6, <1>7, <1>8, <1>9, <1>10, <1>11 DEF Syscall

(***************************************************************************)
(* README guarantee 7: a release taken off <path> by a revert is not put   *)
(* back until the agent accepted another head, however often the agent is  *)
(* stopped, crashes or loses power, and whatever system calls fail but the *)
(* two that write the failed marker (agent.rollback and hooks.recover only *)
(* log that they did).                                                     *)
(***************************************************************************)
THEOREM NeverReinstalls ==
    ASSUME MarksWritten
    PROVE  Spec => NoReinstall
<1>1. Init => OnTrialIsMarked /\ RejectInv BY DEF Init, InstInit, Fresh, OnTrialIsMarked, RejectInv
<1>2. TypeInv /\ OnTrialIsMarked /\ RejectInv /\ [Next]_vars => OnTrialIsMarked' /\ RejectInv'
  <2> SUFFICES ASSUME TypeInv, OnTrialIsMarked, RejectInv, [Next]_vars PROVE OnTrialIsMarked' /\ RejectInv'
    OBVIOUS
  <2>1. CASE UNCHANGED vars
    BY <2>1 DEF vars, instVars, agentVars, OnTrialIsMarked, RejectInv, NotRenamed
  <2>2. CASE Steady BY <2>2, RejectSteady
  <2>3. CASE AgentSyscall BY <2>3, RejectSyscall
  <2>4. QED BY <2>1, <2>2, <2>3 DEF Next, AgentNext, EnvNext, Steady
<1>3. TypeInv /\ RejectInv => (At(Agent, "renameNew") /\ call'[Agent].step = "syncInstall" => call[Agent].data \notin rejected)
  <2> SUFFICES ASSUME TypeInv, RejectInv, call[Agent].step = "renameNew" PROVE call[Agent].data \notin rejected
    BY DEF At
  <2>1. pc = "install"
    BY DEF TypeInv, TypeOK, AgentTypeOK, CallMatches, AgentPcs, RevertSteps, ClearPendingSteps, MarkFailedSteps, ClearFailedSteps
  <2>2. QED BY <2>1 DEF RejectInv
<1>4. QED BY <1>1, <1>2, <1>3, TypeInvInit, TypeInvStep, PTL DEF Spec, NoReinstall
=============================================================================
