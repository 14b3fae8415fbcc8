---------------------------- MODULE ExternalAgent ----------------------------
(***************************************************************************)
(* The external target: `go-binsync agent` (cmd/go-binsync/agent.go)       *)
(* running the update loop (agent/agent.go) on the Installer's files, with *)
(* a service that the user's --restart command restarts and the --healthy  *)
(* probe observes.  Here are the loop's control, its start-up check, and   *)
(* what can come between: SIGTERM, a crash of the agent, power loss, a     *)
(* --restart that fails, a stale read of the pointer, a service restarted  *)
(* by its own supervisor.                                                  *)
(*                                                                         *)
(* Planning and fetching are one step here that succeeds with the head's   *)
(* bytes or fails; Plan models what they choose.                           *)
(***************************************************************************)
EXTENDS Installer, Sequences

CONSTANTS
    Agent,          \* the agent process, the only user of the files
    Foreign,        \* a pointer in a store format this build does not know
    Bad,            \* the releases that never pass the health check
    TooBig,         \* the releases over the agent's size limit
    HasCheck,       \* whether --healthy is given
    StaleReads,     \* whether the store may answer with an earlier pointer
    RestartFails,   \* whether --restart may fail
    MaxPointers,    \* bound: pointers ever published
    MaxTerms,       \* bound: SIGTERMs to the agent
    MaxCrashes,     \* bound: agent crashes
    MaxPowerLosses  \* bound: power losses

ASSUME AgentAssumption ==
    /\ Procs = {Agent}
    /\ Foreign \notin Releases
    /\ Bad \subseteq Releases /\ TooBig \subseteq Releases
    /\ {HasCheck, StaleReads, RestartFails} \subseteq BOOLEAN
    /\ {MaxPointers, MaxTerms, MaxCrashes, MaxPowerLosses} \subseteq Nat

VARIABLES
    pc,         \* where the agent is; "off" when it is not running
    ctxDone,    \* its context was cancelled by SIGTERM or SIGINT
    ptrs,       \* the heads of the pointers published so far; a pointer's seq and ETag are its index
    etag,       \* agent.etag: the pointer the next poll is conditional on, 0 for none
    seq,        \* agent.seq: the last accepted pointer, 0 for none
    head,       \* p.Head.Hash of the cycle in progress
    running,    \* the release the service process executes
    budget,     \* how many SIGTERMs, crashes and power losses are left
    origin,     \* history: the release installed by other means before the agent, if any
    confirmed,  \* history: the releases observed healthy, and origin
    rejected,   \* history: heads taken off <path> by a revert since the agent last accepted another head
    visible,    \* history: releases that were ever at <path>
    topSeq      \* history: the largest seq any run of the agent accepted

memory  == <<etag, seq, head>>
history == <<origin, confirmed, rejected, visible, topSeq>>
agentVars == <<pc, ctxDone, ptrs, etag, seq, head, running, budget, origin, confirmed, rejected, visible, topSeq>>
vars == <<instVars, agentVars>>

AgentPcs == {"off", "recClear", "recMark", "recRevert", "recRestart", "recRestarting",
             "poll", "skip", "fetch", "install", "restart", "restarting", "check", "clear",
             "rbMark", "rbRevert", "rbRestart", "rbRestarting", "exit"}

AgentTypeOK ==
    /\ pc \in AgentPcs
    /\ ctxDone \in BOOLEAN
    /\ ptrs \in Seq(Releases \cup {Foreign})
    /\ etag \in Nat /\ seq \in Nat /\ topSeq \in Nat
    /\ head \in Releases \cup {None}
    /\ running \in Contents \cup {None}
    /\ budget \in [terms: Nat, crashes: Nat, powerLosses: Nat]
    /\ origin \in Releases \cup {None}
    /\ confirmed \subseteq Releases
    /\ rejected \subseteq Contents
    /\ visible \subseteq Contents

\* The state every part of the target keeps has its type.
TypeOK == InstTypeOK /\ AgentTypeOK

Init ==
    \E r \in Releases \cup {None} :
        /\ InstInit(r)
        /\ pc = "off" /\ ctxDone = FALSE
        /\ ptrs = <<>> /\ etag = 0 /\ seq = 0 /\ head = None
        /\ running = r
        /\ budget = [terms |-> MaxTerms, crashes |-> MaxCrashes, powerLosses |-> MaxPowerLosses]
        /\ origin = r /\ confirmed = {r} \ {None} /\ rejected = {} /\ visible = {r} \ {None} /\ topSeq = 0

-----------------------------------------------------------------------------
\* agent.run looks at its context after every cycle.
AfterCycle == IF ctxDone THEN "exit" ELSE "poll"

(***************************************************************************)
(* Start-up: hooks.recover, before the first poll.                         *)
(***************************************************************************)
Start ==
    /\ pc = "off"
    /\ NoWrite
    /\ \/ /\ ~HasPending
          /\ pc' = "poll" /\ UNCHANGED call
       \/ /\ HasPending /\ fs.old = None
          /\ pc' = "recClear" /\ Begin(Agent, "clearPending", None, None)
       \/ /\ HasPending /\ fs.old # None
          /\ pc' = "recMark" /\ Begin(Agent, "truncFailed", None, fs.pending)
    /\ UNCHANGED <<ctxDone, ptrs, memory, running, budget, history>>

\* The result of ClearPending is joined to the error that is only logged.
RecoverCleared ==
    /\ pc = "recClear" /\ At(Agent, "done") /\ Return(Agent) /\ NoWrite
    /\ pc' = "poll"
    /\ UNCHANGED <<ctxDone, ptrs, memory, running, budget, history>>

\* A failed MarkFailed is only logged, both here and in rollback.
Marked ==
    /\ At(Agent, "done")
    /\ NoWrite
    /\ \/ /\ pc = "recMark"
          /\ pc' = "recRevert" /\ call' = [call EXCEPT ![Agent] = [Idle EXCEPT !.step = "renameOld"]]
       \/ /\ pc = "rbMark" /\ fs.old # None
          /\ pc' = "rbRevert" /\ call' = [call EXCEPT ![Agent] = [Idle EXCEPT !.step = "renameOld"]]
       \/ /\ pc = "rbMark" /\ fs.old = None   \* nothing to go back to
          /\ pc' = AfterCycle /\ Return(Agent)
    /\ UNCHANGED <<ctxDone, ptrs, memory, running, budget, history>>

\* Mutant: the reverted release is not restarted.
RevertedNoRestart ==
    /\ pc \in {"recRevert", "rbRevert"} /\ At(Agent, "done") /\ Return(Agent) /\ NoWrite
    /\ pc' = AfterCycle
    /\ UNCHANGED <<ctxDone, ptrs, memory, running, budget, history>>

\* Only a Revert that succeeded is followed by a restart.
Reverted ==
    /\ pc \in {"recRevert", "rbRevert"} /\ At(Agent, "done") /\ Return(Agent) /\ NoWrite
    /\ pc' = IF pc = "recRevert"
             THEN IF call[Agent].ok THEN "recRestart" ELSE "poll"
             ELSE IF call[Agent].ok THEN "rbRestart" ELSE AfterCycle
    /\ UNCHANGED <<ctxDone, ptrs, memory, running, budget, history>>

-----------------------------------------------------------------------------
(***************************************************************************)
(* One cycle: poll, skip, plan and fetch, install, restart, check.         *)
(***************************************************************************)
\* agent.pointer: the conditional GET, the replay check, the accepted pointer.
Accept(i) ==
    /\ etag' = i /\ seq' = i /\ head' = ptrs[i]
    /\ topSeq' = IF i > topSeq THEN i ELSE topSeq
    /\ rejected' = rejected \cap {ptrs[i]}
    /\ pc' = "skip"

Ignore(i) ==
    /\ etag' = i /\ pc' = AfterCycle
    /\ UNCHANGED <<seq, head, topSeq, rejected>>

\* Mutant: a pointer in an unknown format is acted on.
PollAnyFormat ==
    /\ pc = "poll"
    /\ \E i \in IF StaleReads THEN 1..Len(ptrs) ELSE {Len(ptrs)} \ {0} :
        /\ i # etag
        /\ IF i < seq THEN Ignore(i) ELSE Accept(i)
    /\ UNCHANGED <<instVars, ctxDone, ptrs, running, budget, origin, confirmed, visible>>

\* Mutant: no replay check.
PollAnySeq ==
    /\ pc = "poll"
    /\ \E i \in IF StaleReads THEN 1..Len(ptrs) ELSE {Len(ptrs)} \ {0} :
        /\ i # etag
        /\ IF ptrs[i] = Foreign THEN Ignore(i) ELSE Accept(i)
    /\ UNCHANGED <<instVars, ctxDone, ptrs, running, budget, origin, confirmed, visible>>

Poll ==
    /\ pc = "poll"
    /\ \E i \in IF StaleReads THEN 1..Len(ptrs) ELSE {Len(ptrs)} \ {0} :
        /\ i # etag                          \* otherwise 304 Not Modified
        /\ IF ptrs[i] = Foreign \/ i < seq THEN Ignore(i) ELSE Accept(i)
    /\ UNCHANGED <<instVars, ctxDone, ptrs, running, budget, origin, confirmed, visible>>

\* A GET that fails, or returns no pointer, is OutcomeError: the ETag is forgotten.
PollFails ==
    /\ pc = "poll" /\ etag # 0
    /\ etag' = 0 /\ pc' = AfterCycle
    /\ UNCHANGED <<instVars, ctxDone, ptrs, seq, head, running, budget, history>>

\* agent.skip, then MakePlan's "at head": what is on disk decides.
Planned == IF fs.path = head THEN AfterCycle ELSE "fetch"

Skip ==
    /\ pc = "skip" /\ head \notin TooBig
    /\ NoWrite
    /\ \/ /\ At(Agent, "idle") /\ FailedMark = None
          /\ pc' = Planned /\ UNCHANGED call
       \/ /\ At(Agent, "idle") /\ FailedMark = head
          /\ pc' = AfterCycle /\ UNCHANGED call
       \/ /\ At(Agent, "idle") /\ FailedMark \notin {None, head}
          /\ pc' = "skip" /\ Begin(Agent, "clearFailed", None, None)
       \/ /\ At(Agent, "done")               \* a failed ClearFailed is only logged
          /\ pc' = Planned /\ Return(Agent)
    /\ UNCHANGED <<ctxDone, ptrs, memory, running, budget, history>>

\* agent.build delivered the head's bytes and they hash to the head.
FetchOk ==
    /\ pc = "fetch"
    /\ pc' = "install" /\ Begin(Agent, "stage", head, head) /\ NoWrite
    /\ UNCHANGED <<ctxDone, ptrs, memory, running, budget, history>>

\* Mutant: the ETag survives a failed cycle.
FetchFailsKeepsETag ==
    /\ pc = "fetch" \/ (pc = "skip" /\ head \in TooBig)
    /\ pc' = AfterCycle
    /\ UNCHANGED <<instVars, ctxDone, ptrs, memory, running, budget, history>>

\* Mutant: a release that could not be fetched is recorded as failed.
FetchFailsMarks ==
    /\ pc = "fetch"
    /\ pc' = "rbMark" /\ Begin(Agent, "truncFailed", None, head) /\ NoWrite
    /\ UNCHANGED <<ctxDone, ptrs, memory, running, budget, history>>

\* OutcomeError (a release over the size limit never gets as far as skip) or
\* OutcomeVerifyFailed; cycle forgets the ETag so as to retry.
FetchFails ==
    /\ pc = "fetch" \/ (pc = "skip" /\ head \in TooBig)
    /\ pc' = AfterCycle /\ etag' = 0
    /\ UNCHANGED <<instVars, ctxDone, ptrs, seq, head, running, budget, history>>

Installed ==
    /\ pc = "install" /\ At(Agent, "done") /\ Return(Agent) /\ NoWrite
    /\ \/ call[Agent].ok  /\ pc' = "restart" /\ UNCHANGED etag
       \/ ~call[Agent].ok /\ pc' = AfterCycle /\ etag' = 0
    /\ UNCHANGED <<ctxDone, ptrs, seq, head, running, budget, history>>

-----------------------------------------------------------------------------
(***************************************************************************)
(* hooks.runRestart, called after an install, a rollback and a recovery.   *)
(* exec.CommandContext does not start the command under a context that is  *)
(* done.  A command that failed may or may not have restarted the service. *)
(***************************************************************************)
RestartPcs    == {"restart", "rbRestart", "recRestart"}
RestartingPcs == {"restarting", "rbRestarting", "recRestarting"}

\* After an error: the install is rolled back; a second error is only reported.
RestartFailed ==
    IF pc \in {"restart", "restarting"}
    THEN pc' = "rbMark" /\ Begin(Agent, "truncFailed", None, head)
    ELSE pc' = (IF pc \in {"recRestart", "recRestarting"} THEN "poll" ELSE AfterCycle)
         /\ UNCHANGED call

StartRestart ==
    /\ pc \in RestartPcs
    /\ \/ /\ ~ctxDone
          /\ pc' = CASE pc = "restart"   -> "restarting"
                     [] pc = "rbRestart" -> "rbRestarting"
                     [] OTHER            -> "recRestarting"
          /\ UNCHANGED call
       \/ ctxDone /\ RestartFailed
    /\ NoWrite
    /\ UNCHANGED <<ctxDone, ptrs, memory, running, budget, history>>

\* Exit status 0: the service now executes what is at <path>.
RestartOk ==
    /\ pc \in RestartingPcs
    /\ running' = fs.path
    /\ pc' = CASE pc = "restarting"   -> "check"
               [] pc = "rbRestarting" -> AfterCycle
               [] OTHER               -> "poll"
    /\ UNCHANGED <<instVars, ctxDone, ptrs, memory, budget, history>>

\* Exit status not 0, the 60 s timeout, or killed by the cancelled context.
RestartFailure ==
    /\ pc \in RestartingPcs /\ (RestartFails \/ ctxDone)
    /\ RestartFailed
    /\ running' \in {running, fs.path}
    /\ NoWrite
    /\ UNCHANGED <<ctxDone, ptrs, memory, budget, history>>

-----------------------------------------------------------------------------
(***************************************************************************)
(* agent.healthy, ClearPending, agent.rollback.                            *)
(***************************************************************************)
Healthy ==
    /\ pc = "check"
    /\ HasCheck => ~ctxDone /\ running \notin Bad
    /\ pc' = "clear" /\ Begin(Agent, "clearPending", None, None) /\ NoWrite
    /\ confirmed' = confirmed \cup {head}
    /\ UNCHANGED <<ctxDone, ptrs, memory, running, budget, origin, rejected, visible, topSeq>>

\* Mutant: the release is reverted without being recorded.
UnhealthyUnrecorded ==
    /\ pc = "check" /\ HasCheck
    /\ pc' = "rbRevert" /\ Begin(Agent, "renameOld", None, None) /\ NoWrite
    /\ UNCHANGED <<ctxDone, ptrs, memory, running, budget, history>>

\* A minute of failing probes, or the context done: the same error.
Unhealthy ==
    /\ pc = "check" /\ HasCheck
    /\ pc' = "rbMark" /\ Begin(Agent, "truncFailed", None, head) /\ NoWrite
    /\ UNCHANGED <<ctxDone, ptrs, memory, running, budget, history>>

\* OutcomeUpdated, even when ClearPending failed.
Cleared ==
    /\ pc = "clear" /\ At(Agent, "done") /\ Return(Agent) /\ NoWrite
    /\ pc' = AfterCycle
    /\ UNCHANGED <<ctxDone, ptrs, memory, running, budget, history>>

(***************************************************************************)
(* A system call of the operation in progress, with its history.           *)
(***************************************************************************)
AgentSyscall ==
    /\ Syscall(Agent)
    /\ visible'  = visible \cup ({fs'.path} \ {None})
    /\ rejected' = IF At(Agent, "renameOld") /\ fs'.path # fs.path
                   THEN rejected \cup {fs.path} ELSE rejected
    /\ UNCHANGED <<pc, ctxDone, ptrs, memory, running, budget, origin, confirmed, topSeq>>

-----------------------------------------------------------------------------
(***************************************************************************)
(* The environment.                                                        *)
(***************************************************************************)
\* The head a fresh read of the store names; no pointer is as good as a foreign one.
LastHead == IF ptrs = <<>> THEN Foreign ELSE ptrs[Len(ptrs)]

\* A publisher replaces the pointer with one of another head.
Publish ==
    /\ Len(ptrs) < MaxPointers
    /\ \E r \in (Releases \cup {Foreign}) \ {LastHead} : ptrs' = Append(ptrs, r)
    /\ UNCHANGED <<instVars, pc, ctxDone, memory, running, budget, history>>

\* signal.NotifyContext: the agent's context ends; it goes on until it looks.
Terminate ==
    /\ pc # "off" /\ ~ctxDone /\ budget.terms > 0
    /\ ctxDone' = TRUE
    /\ budget' = [budget EXCEPT !.terms = @ - 1]
    /\ UNCHANGED <<instVars, pc, ptrs, memory, running, history>>

\* agent.run returns after the cycle, or from the sleep before the next one; a
\* timer that fires with the context already done may still start that one.
Exit ==
    /\ pc = "exit" \/ (pc = "poll" /\ ctxDone)
    /\ pc' = "off" /\ ctxDone' = FALSE
    /\ etag' = 0 /\ seq' = 0 /\ head' = None
    /\ UNCHANGED <<instVars, ptrs, running, budget, history>>

\* The agent is killed.  A --restart it had started may still take effect.
Crash ==
    /\ pc # "off" /\ budget.crashes > 0
    /\ Dies(Agent)
    /\ pc' = "off" /\ ctxDone' = FALSE
    /\ etag' = 0 /\ seq' = 0 /\ head' = None
    /\ running' \in IF pc \in RestartingPcs THEN {running, fs.path} ELSE {running}
    /\ budget' = [budget EXCEPT !.crashes = @ - 1]
    /\ UNCHANGED <<ptrs, history>>

\* After a power loss the host boots and starts the service from <path>.  The
\* image it finds may predate a revert, so the history of reverts starts anew.
PowerLoss ==
    /\ budget.powerLosses > 0
    /\ PowerFails
    /\ pc' = "off" /\ ctxDone' = FALSE
    /\ etag' = 0 /\ seq' = 0 /\ head' = None
    /\ running' = fs'.path
    /\ budget' = [budget EXCEPT !.powerLosses = @ - 1]
    /\ rejected' = {}
    /\ UNCHANGED <<ptrs, origin, confirmed, visible, topSeq>>

\* The service's supervisor restarts it, for reasons of its own.
ServiceRestarts ==
    /\ running # fs.path
    /\ running' = fs.path
    /\ UNCHANGED <<instVars, pc, ctxDone, ptrs, memory, budget, history>>

AgentNext ==
    \/ Start \/ RecoverCleared \/ Marked \/ Reverted
    \/ Poll \/ Skip \/ FetchOk \/ Installed
    \/ StartRestart \/ RestartOk \/ Healthy \/ Cleared
    \/ AgentSyscall \/ Exit

EnvNext ==
    \/ PollFails \/ FetchFails \/ RestartFailure \/ Unhealthy
    \/ Publish \/ Terminate \/ Crash \/ PowerLoss \/ ServiceRestarts

Next == AgentNext \/ EnvNext

Spec == Init /\ [][Next]_vars

-----------------------------------------------------------------------------
(***************************************************************************)
(* Safety.                                                                 *)
(***************************************************************************)
(***************************************************************************)
(* DESIGN 6.2 and 6.5: "the next start can finish or undo the job from the *)
(* marker".  On a target that had a release to begin with, every image of  *)
(* the directory that a crash or a power loss can leave has a good release *)
(* at <path>, or the marker and a good release at .old that hooks.recover  *)
(* puts back.                                                              *)
(***************************************************************************)
RecoverableImage(image) ==
    origin # None =>
        \/ image.path \in confirmed
        \/ image.pending # None /\ image.old \in confirmed /\ ~image.linked

Recoverable == \A image \in disk \cup {fs} : RecoverableImage(image)

(***************************************************************************)
(* README guarantee 7: a release taken off <path> by a revert is not put   *)
(* back until the agent has accepted a pointer with another head, however  *)
(* often the agent is stopped or crashes in between (MarkFailed comes      *)
(* before Revert in agent.rollback and hooks.recover).                     *)
(***************************************************************************)
NoReinstall ==
    [][ At(Agent, "renameNew") /\ call'[Agent].step = "syncInstall"
            => call[Agent].data \notin rejected ]_vars

(***************************************************************************)
(* DESIGN 6.1: an update ends with the new release running or with the     *)
(* previous file back and a restart of it serving: between cycles the      *)
(* service executes the file at <path>, on a target that had one at first. *)
(***************************************************************************)
Settled == origin # None /\ pc \in {"poll", "exit"} => running = fs.path

(***************************************************************************)
(* README guarantee 2, comment in agent.pointer: no pointer older than the *)
(* last accepted one is ever accepted.                                     *)
(***************************************************************************)
NoReplay == [][seq' # seq /\ seq' # 0 => seq' >= topSeq]_vars

(***************************************************************************)
(* Comment on Installer.MarkFailed: the failed marker names a release that *)
(* was installed (and reverted).                                           *)
(***************************************************************************)
FailedWasInstalled == FailedMark # None => fs.failed \in visible

-----------------------------------------------------------------------------
(***************************************************************************)
(* Liveness.  The agent's own steps are taken, its supervisor starts it    *)
(* again, the store's answer is not stale for ever, and a fetch that is    *)
(* retried for ever succeeds.                                              *)
(***************************************************************************)
PollLatest == Poll /\ etag' = Len(ptrs)

Oversized  == FetchFails /\ head \in TooBig

FairSpec == Spec /\ WF_vars(AgentNext \/ RestartFailure \/ Unhealthy \/ Oversized)
                 /\ SF_vars(PollLatest) /\ SF_vars(FetchOk)

(***************************************************************************)
(* Whatever failed on the way, a target ends on the last published head,   *)
(* or has rolled that very head back; no cached ETag or stale read leaves  *)
(* it on an earlier release (agent.cycle).                                 *)
(***************************************************************************)
Converges == <>[](LastHead \notin TooBig \cup {Foreign} => LastHead \in {fs.path, fs.failed})
=============================================================================
