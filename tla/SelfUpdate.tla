----------------------------- MODULE SelfUpdate -----------------------------
(***************************************************************************)
(* The embedded target (package selfupdate): a service that links the      *)
(* library, polls for its own next release, installs it, starts it on its  *)
(* own listening sockets and drains once the new process has called        *)
(* Ready().  Processes are the parent, the child it launched and, while    *)
(* the parent drains, the child's own child; they share the Installer's    *)
(* files.  The service's main ends with <-up.Done(), as README 3 shows.    *)
(*                                                                         *)
(* The pointer is its head only and polling, planning and fetching are one *)
(* step (ExternalAgent and Plan model them); a poll that fails or finds    *)
(* nothing to do changes nothing.                                          *)
(***************************************************************************)
EXTENDS Installer

CONSTANTS
    Bad,            \* the releases that crash or hang instead of calling Ready()
    Slow,           \* whether the two ends of a handoff may miss each other: see InTime
    MaxHeads,       \* bound: heads published
    MaxStops,       \* bound: contexts cancelled
    MaxCrashes,     \* bound: processes killed
    MaxPowerLosses  \* bound: power losses

ASSUME SelfUpdateAssumption ==
    /\ None \notin Procs
    /\ Bad \subseteq Releases /\ Slow \in BOOLEAN
    /\ {MaxHeads, MaxStops, MaxCrashes, MaxPowerLosses} \subseteq Nat

VARIABLES
    pc,         \* where each process is
    exe,        \* the release it executes
    child,      \* the process its handoff started, until that one is dead
    ready,      \* whether the child wrote the byte into the ready pipe
    ctxDone,    \* u.ctx was cancelled (Stop, or Config.Context)
    target,     \* the head of the cycle in progress
    upgrade,    \* the hash restart was called with; Torn for the zero hash
    again,      \* this restart is the one at the end of agent.rollback
    head,       \* the head the store's pointer names
    budget,     \* heads, stops, crashes and power losses left
    confirmed   \* history: the releases that called Ready(), and the first one

procVars == <<pc, exe, child, ready, ctxDone, target, upgrade, again>>
local    == <<ctxDone, target, upgrade, again>>
world    == <<head, budget>>
vars     == <<instVars, procVars, world, confirmed>>

RollbackPcs == {"rbMark", "rbRevert", "agMark", "agRevert"}
UpdatePcs   == {"skip", "install", "handoff", "wait", "term"} \cup RollbackPcs
ProcPcs     == {"dead", "check", "chkClear", "chkMark", "chkRevert", "boot", "readyClear",
                "readyByte", "poll", "drain"} \cup UpdatePcs

\* The processes' state and the files have their types; a dead process is in
\* no call and waits for nobody, and nobody waits for it.
EmbTypeOK ==
    /\ InstTypeOK
    /\ pc \in [Procs -> ProcPcs]
    /\ exe \in [Procs -> Contents \cup {None}]
    /\ child \in [Procs -> Procs \cup {None}]
    /\ {ready, ctxDone, again} \subseteq [Procs -> BOOLEAN]
    /\ target \in [Procs -> Releases \cup {None}]
    /\ upgrade \in [Procs -> Marks]
    /\ head \in Releases
    /\ budget \in [heads: Nat, stops: Nat, crashes: Nat, powerLosses: Nat]
    /\ confirmed \subseteq Releases
    /\ \A p \in Procs :
        /\ pc[p] = "dead" => call[p] = Idle /\ child[p] = None
        /\ child[p] # None => pc[child[p]] # "dead"

EmbInit ==
    \E r \in Releases \ Bad :
        /\ InstInit(r)
        /\ pc = [p \in Procs |-> "dead"]
        /\ exe = [p \in Procs |-> None]
        /\ child = [p \in Procs |-> None]
        /\ ready = [p \in Procs |-> FALSE] /\ ctxDone = ready /\ again = ready
        /\ target = [p \in Procs |-> None] /\ upgrade = target
        /\ head = r
        /\ budget = [heads |-> MaxHeads, stops |-> MaxStops, crashes |-> MaxCrashes,
                     powerLosses |-> MaxPowerLosses]
        /\ confirmed = {r}

-----------------------------------------------------------------------------
(***************************************************************************)
(* Helpers: a process moves on, calls the Installer, or dies.              *)
(***************************************************************************)
Move(p, from, to) == pc[p] = from /\ pc' = [pc EXCEPT ![p] = to]

\* The Installer call of p has ended; p takes the result and calls the next
\* operation, or none.
Finished(p)          == At(p, "done")
ThenCall(p, step, h) == call' = [call EXCEPT ![p] = [step |-> step, data |-> None, want |-> h, ok |-> TRUE]]
ThenInstall(p, h)    == call' = [call EXCEPT ![p] = [step |-> "stage", data |-> h, want |-> h, ok |-> TRUE]]
ThenNothing(p)       == Return(p)

Gone(p) ==
    /\ pc' = [pc EXCEPT ![p] = "dead"]
    /\ call' = [call EXCEPT ![p] = Idle]
    /\ child' = [q \in Procs |-> IF q = p \/ child[q] = p THEN None ELSE child[q]]
    /\ NoWrite
    /\ UNCHANGED <<exe, ready, local>>

\* Slot c becomes a process that executes what is at <path>.
Launch(c) ==
    /\ pc[c] = "dead"
    /\ exe' = [exe EXCEPT ![c] = fs.path]
    /\ ctxDone' = [ctxDone EXCEPT ![c] = FALSE] /\ again' = [again EXCEPT ![c] = FALSE]
    /\ target' = [target EXCEPT ![c] = None] /\ upgrade' = [upgrade EXCEPT ![c] = None]

-----------------------------------------------------------------------------
(***************************************************************************)
(* Start: selfCheck on a process no handoff launched.                      *)
(***************************************************************************)
SelfCheck(p) ==
    /\ NoWrite
    /\ \/ ~HasPending /\ Move(p, "check", "boot") /\ UNCHANGED call
       \/ /\ HasPending /\ fs.old = None
          /\ Move(p, "check", "chkClear") /\ Begin(p, "clearPending", None, None)
       \/ /\ HasPending /\ fs.old # None
          /\ Move(p, "check", "chkMark") /\ Begin(p, "truncFailed", None, fs.pending)
    /\ UNCHANGED <<exe, child, ready, local, world, confirmed>>

CheckCleared(p) ==
    /\ Finished(p) /\ ThenNothing(p) /\ NoWrite /\ Move(p, "chkClear", "boot")
    /\ UNCHANGED <<exe, child, ready, local, world, confirmed>>

CheckMarked(p) ==
    /\ Finished(p) /\ ThenCall(p, "renameOld", None) /\ NoWrite /\ Move(p, "chkMark", "chkRevert")
    /\ UNCHANGED <<exe, child, ready, local, world, confirmed>>

\* Mutant: the file is reverted but not executed.
CheckRevertedNoExec(p) ==
    /\ Finished(p) /\ ThenNothing(p) /\ NoWrite /\ Move(p, "chkRevert", "boot")
    /\ UNCHANGED <<exe, child, ready, local, world, confirmed>>

\* The reverted file replaces this process by execve, and runs its own selfCheck.
CheckReverted(p) ==
    /\ Finished(p) /\ ThenNothing(p) /\ NoWrite
    /\ \/ call[p].ok  /\ Move(p, "chkRevert", "check") /\ exe' = [exe EXCEPT ![p] = fs.path]
       \/ ~call[p].ok /\ Move(p, "chkRevert", "boot")  /\ UNCHANGED exe
    /\ UNCHANGED <<child, ready, local, world, confirmed>>

(***************************************************************************)
(* Ready(): clear the marker, report to the parent, start polling.         *)
(***************************************************************************)
Ready(p) ==
    /\ Move(p, "boot", "readyClear") /\ exe[p] \notin Bad
    /\ Begin(p, "clearPending", None, None) /\ NoWrite
    /\ confirmed' = confirmed \cup {exe[p]}
    /\ UNCHANGED <<exe, child, ready, local, world>>

\* A failed ClearPending is only logged.
ReadyCleared(p) ==
    /\ Finished(p) /\ ThenNothing(p) /\ NoWrite /\ Move(p, "readyClear", "readyByte")
    /\ UNCHANGED <<exe, child, ready, local, world, confirmed>>

ReportReady(p) ==
    /\ Move(p, "readyByte", "poll")
    /\ ready' = [q \in Procs |-> ready[q] \/ child[q] = p]
    /\ UNCHANGED <<instVars, exe, child, local, world, confirmed>>

-----------------------------------------------------------------------------
(***************************************************************************)
(* The update loop.                                                        *)
(***************************************************************************)
\* The scheduling of a handoff when Slow is FALSE: a good release reports
\* before readyTimeout (GiveUp), and its parent has taken the byte from the
\* pipe before the new process installs a release of its own.
InTime(p) == Slow \/ \A q \in Procs : child[q] = p => pc[q] # "wait"

\* Mutant: polling starts with the process, not with Ready().
PollUnready(p) ==
    /\ pc[p] \in {"boot", "poll"} /\ ~ctxDone[p] /\ NoWrite
    /\ target' = [target EXCEPT ![p] = head] /\ again' = [again EXCEPT ![p] = FALSE]
    /\ FailedMark # head /\ fs.path # head
    /\ pc' = [pc EXCEPT ![p] = "install"] /\ Begin(p, "stage", head, head)
    /\ UNCHANGED <<exe, child, ready, ctxDone, upgrade, world, confirmed>>

\* Mutant: a head that was rolled back is tried again.
PollFailedToo(p) ==
    /\ pc[p] = "poll" /\ ~ctxDone[p] /\ NoWrite
    /\ target' = [target EXCEPT ![p] = head] /\ again' = [again EXCEPT ![p] = FALSE]
    /\ fs.path # head /\ Move(p, "poll", "install") /\ Begin(p, "stage", head, head)
    /\ UNCHANGED <<exe, child, ready, ctxDone, upgrade, world, confirmed>>

\* A poll that leads to something: forget another release's failure, install
\* a head that is neither on disk nor rolled back before.
Poll(p) ==
    /\ pc[p] = "poll" /\ ~ctxDone[p] /\ InTime(p) /\ NoWrite
    /\ target' = [target EXCEPT ![p] = head] /\ again' = [again EXCEPT ![p] = FALSE]
    /\ \/ FailedMark \notin {None, head} /\ Move(p, "poll", "skip") /\ Begin(p, "clearFailed", None, None)
       \/ /\ FailedMark = None /\ fs.path # head
          /\ Move(p, "poll", "install") /\ Begin(p, "stage", head, head)
    /\ UNCHANGED <<exe, child, ready, ctxDone, upgrade, world, confirmed>>

Skipped(p) ==
    /\ Finished(p) /\ NoWrite
    /\ \/ fs.path = target[p] /\ Move(p, "skip", "poll") /\ ThenNothing(p)
       \/ fs.path # target[p] /\ Move(p, "skip", "install") /\ ThenInstall(p, target[p])
    /\ UNCHANGED <<exe, child, ready, local, world, confirmed>>

\* agentSource's Restart hook and the guards of restart(h): what the marker
\* says is handed over; a torn marker or a cancelled context is an error.
HandoffPossible(p) == fs.pending # Torn /\ ~ctxDone[p]
PendingHash        == IF fs.pending = None THEN Torn ELSE fs.pending

Installed(p) ==
    /\ Finished(p) /\ NoWrite
    /\ \/ ~call[p].ok /\ Move(p, "install", "poll") /\ ThenNothing(p) /\ UNCHANGED upgrade
       \/ /\ call[p].ok /\ HandoffPossible(p)
          /\ Move(p, "install", "handoff") /\ ThenNothing(p)
          /\ upgrade' = [upgrade EXCEPT ![p] = PendingHash]
       \/ /\ call[p].ok /\ ~HandoffPossible(p)
          /\ Move(p, "install", "agMark") /\ ThenCall(p, "truncFailed", target[p]) /\ UNCHANGED upgrade
    /\ UNCHANGED <<exe, child, ready, ctxDone, target, again, world, confirmed>>

-----------------------------------------------------------------------------
(***************************************************************************)
(* handoff: start the child, wait for its byte, its exit, the timer or the *)
(* context, in a select that takes any one that is ready.                  *)
(***************************************************************************)
StartChild(p) ==
    /\ pc[p] = "handoff"
    /\ \E c \in Procs :
        /\ Launch(c)
        /\ pc' = [pc EXCEPT ![p] = "wait", ![c] = "boot"]
        /\ child' = [child EXCEPT ![p] = c]
        /\ ready' = [ready EXCEPT ![p] = FALSE, ![c] = FALSE]
    /\ UNCHANGED <<instVars, world, confirmed>>

\* The handoff failed and no child is left: u.rollback records the release.
RollBack(p) ==
    /\ pc' = [pc EXCEPT ![p] = "rbMark"] /\ Begin(p, "truncFailed", None, upgrade[p]) /\ NoWrite
    /\ UNCHANGED <<exe, child, ready, local, world, confirmed>>

\* No descriptor, no pipe, no process: the handoff fails before it starts.
StartFails(p) == pc[p] = "handoff" /\ RollBack(p)

\* Mutant: a pipe that closes without a byte is taken for Ready.
WaitedSupersedes(p) ==
    /\ child[p] = None /\ Move(p, "wait", "drain")
    /\ UNCHANGED <<instVars, exe, child, ready, local, world, confirmed>>

\* The child is dead, whether or not it reported first.
Waited(p) == pc[p] = "wait" /\ child[p] = None /\ RollBack(p)

\* The byte arrived: supersede closes this process's listeners and drains.
Superseded(p) ==
    /\ ready[p] /\ Move(p, "wait", "drain")
    /\ UNCHANGED <<instVars, exe, child, ready, local, world, confirmed>>

\* readyTimeout, or the context done: SIGTERM to the child.
GiveUp(p) ==
    /\ child[p] # None
    /\ ctxDone[p] \/ Slow \/ exe[child[p]] \in Bad
    /\ Move(p, "wait", "term")
    /\ UNCHANGED <<instVars, exe, child, ready, local, world, confirmed>>

\* The child dies of the SIGTERM, or of the SIGKILL termTimeout later; until
\* then it goes on.
ChildKilled(p) ==
    /\ pc[p] = "term" /\ child[p] # None
    /\ Gone(child[p])
    /\ UNCHANGED <<world, confirmed>>

Terminated(p) == pc[p] = "term" /\ child[p] = None /\ RollBack(p)

(***************************************************************************)
(* u.rollback, then agent.rollback, whose second restart hook is again a   *)
(* handoff, to whatever the second Revert put back.                        *)
(***************************************************************************)
Marked(p) ==
    /\ Finished(p) /\ NoWrite
    /\ \/ Move(p, "rbMark", "rbRevert") /\ ThenCall(p, "renameOld", None)
       \/ fs.old = None /\ Move(p, "agMark", "poll") /\ ThenNothing(p)
       \/ fs.old # None /\ Move(p, "agMark", "agRevert") /\ ThenCall(p, "renameOld", None)
    /\ UNCHANGED <<exe, child, ready, local, world, confirmed>>

Reverted(p) ==
    /\ Finished(p) /\ NoWrite
    /\ \/ /\ ~again[p]
          /\ Move(p, "rbRevert", "agMark") /\ ThenCall(p, "truncFailed", target[p])
          /\ UNCHANGED <<upgrade, again>>
       \/ /\ again[p]
          /\ Move(p, "rbRevert", "poll") /\ ThenNothing(p)
          /\ UNCHANGED <<upgrade, again>>
       \/ /\ call[p].ok /\ HandoffPossible(p)
          /\ Move(p, "agRevert", "handoff") /\ ThenNothing(p)
          /\ upgrade' = [upgrade EXCEPT ![p] = PendingHash] /\ again' = [again EXCEPT ![p] = TRUE]
       \/ /\ ~call[p].ok \/ ~HandoffPossible(p)
          /\ Move(p, "agRevert", "poll") /\ ThenNothing(p)
          /\ UNCHANGED <<upgrade, again>>
    /\ UNCHANGED <<exe, child, ready, ctxDone, target, world, confirmed>>

\* The callbacks returned, or drainTimeout passed: exit(0).
Drained(p) ==
    /\ pc[p] = "drain" /\ Gone(p)
    /\ UNCHANGED <<world, confirmed>>

-----------------------------------------------------------------------------
(***************************************************************************)
(* The environment.                                                        *)
(***************************************************************************)
\* A supervisor starts the service when none of its processes is left.
Supervisor ==
    /\ \A p \in Procs : pc[p] = "dead"
    /\ \E c \in Procs : Launch(c) /\ pc' = [pc EXCEPT ![c] = "check"] /\ ready' = [ready EXCEPT ![c] = FALSE]
    /\ UNCHANGED <<instVars, child, world, confirmed>>

\* A bad release crashes before Ready() (or hangs, and is killed).
BadCrashes(p) ==
    /\ pc[p] = "boot" /\ exe[p] \in Bad /\ Gone(p)
    /\ UNCHANGED <<world, confirmed>>

Spend(what) == budget[what] > 0 /\ budget' = [budget EXCEPT ![what] = @ - 1]

Publish ==
    /\ Spend("heads") /\ head' \in Releases \ {head}
    /\ UNCHANGED <<instVars, procVars, confirmed>>

\* Stop(), or a signal the service turned into the end of Config.Context.
Stop(p) ==
    /\ pc[p] \notin {"dead", "drain"} /\ ~ctxDone[p] /\ Spend("stops")
    /\ ctxDone' = [ctxDone EXCEPT ![p] = TRUE]
    /\ UNCHANGED <<instVars, pc, exe, child, ready, target, upgrade, again, head, confirmed>>

\* start's goroutine closes Done as soon as the context is done, and main returns.
MainReturns(p) ==
    /\ ctxDone[p] /\ pc[p] \in {"poll", "drain"} \cup UpdatePcs
    /\ Gone(p)
    /\ UNCHANGED <<world, confirmed>>

Crash(p) ==
    /\ pc[p] # "dead" /\ Spend("crashes") /\ Gone(p)
    /\ UNCHANGED <<head, confirmed>>

PowerLoss ==
    /\ Spend("powerLosses") /\ PowerFails
    /\ pc' = [p \in Procs |-> "dead"] /\ child' = [p \in Procs |-> None]
    /\ UNCHANGED <<exe, ready, local, head, confirmed>>

\* One system call of the Installer operation p is in.
EmbSyscall(p) == Syscall(p) /\ UNCHANGED <<procVars, world, confirmed>>

ProcNext(p) ==
    \/ SelfCheck(p) \/ CheckCleared(p) \/ CheckMarked(p) \/ CheckReverted(p)
    \/ Ready(p) \/ ReadyCleared(p) \/ ReportReady(p)
    \/ Poll(p) \/ Skipped(p) \/ Installed(p)
    \/ StartChild(p) \/ Waited(p) \/ Superseded(p) \/ GiveUp(p) \/ ChildKilled(p) \/ Terminated(p)
    \/ Marked(p) \/ Reverted(p) \/ Drained(p) \/ MainReturns(p) \/ EmbSyscall(p)

EmbNext ==
    \/ \E p \in Procs : ProcNext(p) \/ StartFails(p) \/ BadCrashes(p) \/ Stop(p) \/ Crash(p)
    \/ Supervisor \/ Publish \/ PowerLoss

EmbSpec == EmbInit /\ [][EmbNext]_vars

-----------------------------------------------------------------------------
(***************************************************************************)
(* README guarantee 7 and DESIGN 6.5.  Every image of the directory that a *)
(* death of the processes can leave has at <path> a release that called    *)
(* Ready(), or the marker and such a release at .old for selfCheck.        *)
(***************************************************************************)
EmbRecoverable ==
    \A image \in disk \cup {fs} :
        \/ image.path \in confirmed
        \/ image.pending # None /\ image.old \in confirmed /\ ~image.linked

(***************************************************************************)
(* DESIGN 6.1, README guarantee 7: an update ends with the new release     *)
(* running, or with the previous file back and the previous process        *)
(* serving: a process between updates executes the file at <path>.         *)
(***************************************************************************)
EmbSettled == \A p \in Procs : pc[p] = "poll" => fs.path = exe[p]

(***************************************************************************)
(* README guarantee 8: updates of one target are serialised, across the    *)
(* processes of a handoff too (poll starts with Ready).                    *)
(***************************************************************************)
Updating(p) == pc[p] \in UpdatePcs /\ ~(pc[p] = "wait" /\ ready[p])

OneUpdate == \A p, q \in Procs : Updating(p) /\ Updating(q) => p = q

(***************************************************************************)
(* README guarantee 6: once a process has called Ready() there always is   *)
(* one that has and still accepts, as long as nothing outside has stopped  *)
(* or killed a process.                                                    *)
(***************************************************************************)
Undisturbed ==
    /\ budget.stops = MaxStops /\ budget.crashes = MaxCrashes
    /\ budget.powerLosses = MaxPowerLosses

Serving(p) == pc[p] \in {"readyByte", "poll"} \cup UpdatePcs
Served     == \E p \in Procs : Serving(p)

StaysServed == [][Served /\ Undisturbed' => Served']_vars

(***************************************************************************)
(* DESIGN 6.3: "If the supervisor (systemd) sends SIGTERM to the old       *)
(* process mid-upgrade, the child is killed and the file reverted first":  *)
(* a process whose context ended during a handoff leaves neither the child *)
(* nor the release that child did not confirm behind.                      *)
(***************************************************************************)
HandoffPcs == {"handoff", "wait", "term", "rbMark", "rbRevert"}

StopUndoes ==
    [][\A p \in Procs : ctxDone[p] /\ pc[p] \in HandoffPcs /\ pc'[p] = "dead"
            => ~HasPending /\ child[p] = None]_vars

-----------------------------------------------------------------------------
(***************************************************************************)
(* Fairness: a process that is not dead goes on; a release that does not   *)
(* come up ends (on its own or, hanging without a parent, by the hand of   *)
(* its supervisor); the supervisor starts the service when it is gone.     *)
(***************************************************************************)
EmbFairSpec ==
    /\ EmbSpec
    /\ \A p \in Procs : WF_vars(ProcNext(p)) /\ WF_vars(BadCrashes(p))
    /\ WF_vars(Supervisor)

(***************************************************************************)
(* An embedded target ends up with one process, serving the file at        *)
(* <path>, which is the last head unless that very head was rolled back.   *)
(***************************************************************************)
EmbConverges ==
    <>[]( /\ head \in {fs.path, fs.failed}
          /\ \E p \in Procs : /\ pc[p] = "poll" /\ exe[p] = fs.path
                              /\ \A q \in Procs \ {p} : pc[q] = "dead" )
=============================================================================
