------------------------- MODULE SelfUpdate_proofs -------------------------
(***************************************************************************)
(* Proofs about the embedded updater, for any number of process slots,     *)
(* releases, heads, crashes and power losses: its types; that updates of   *)
(* one target are serialised across a handoff; that the service stays      *)
(* served through one; that every image is recoverable; and that a process *)
(* between updates executes the file at <path>.  All but the first assume  *)
(* that the two ends of a handoff do not miss each other (Slow is FALSE).  *)
(***************************************************************************)
EXTENDS SelfUpdate, Installer_proofs

(***************************************************************************)
(* Types and control: which steps of an Installer operation a process can  *)
(* be at, and that what is executed and what is installed is a release.    *)
(***************************************************************************)
CallOf(p) ==
    LET step == call[p].step IN
    /\ pc[p] = "install" => step \in InstallSteps \cup {"done"}
    /\ pc[p] \in {"chkClear", "readyClear"} => step \in ClearPendingSteps \cup {"done"}
    /\ pc[p] \in {"chkMark", "rbMark", "agMark"} => step \in MarkFailedSteps \cup {"done"}
    /\ pc[p] \in {"chkRevert", "rbRevert", "agRevert"} => step \in RevertSteps \cup {"done"}
    /\ pc[p] = "skip" => step \in ClearFailedSteps \cup {"done"} /\ target[p] \in Releases
    /\ pc[p] \in {"dead", "check", "boot", "readyByte", "poll", "handoff", "wait", "term", "drain"} => step = "idle"

\* The parts of EmbTypeOK one by one.
Parts ==
    /\ pc \in [Procs -> ProcPcs] /\ exe \in [Procs -> Contents \cup {None}] /\ child \in [Procs -> Procs \cup {None}]
    /\ ready \in [Procs -> BOOLEAN] /\ ctxDone \in [Procs -> BOOLEAN] /\ again \in [Procs -> BOOLEAN]
    /\ target \in [Procs -> Releases \cup {None}] /\ upgrade \in [Procs -> Marks]
    /\ head \in Releases /\ budget \in [heads: Nat, stops: Nat, crashes: Nat, powerLosses: Nat] /\ confirmed \subseteq Releases

\* Who is dead is in no call and has no child, nor is he one.
Dead == \A p \in Procs : (pc[p] = "dead" => call[p] = Idle /\ child[p] = None) /\ (child[p] # None => pc[child[p]] # "dead")

\* A process is at a step of the call its place says and executes a release.
Placed == \A p \in Procs : CallOf(p) /\ (pc[p] # "dead" => exe[p] \in Releases)

TypeInv == InstInv /\ Parts /\ Dead /\ Placed

(***************************************************************************)
(* The family.  Of the processes that are neither dead nor draining there  *)
(* is one, or a parent in its handoff and the child it started; and as     *)
(* long as nobody was stopped, the parent gives the child up only while it *)
(* boots, and the child polls only once the parent has its byte.           *)
(***************************************************************************)
NoStops == budget.stops = MaxStops

Live(p) == pc[p] \notin {"dead", "drain"}

Hands(p, q) == child[p] = q /\ pc[p] \in {"wait", "term"}

Parent(p) ==
    child[p] # None =>
        /\ pc[p] = "wait" /\ ready[p]  => pc[child[p]] = "poll"
        /\ pc[p] = "wait" /\ ~ready[p] => pc[child[p]] \in {"boot", "readyClear", "readyByte"}
        /\ pc[p] = "term" => pc[child[p]] = "boot" /\ exe[child[p]] \in Bad

CameUp == {"readyClear", "readyByte", "poll"} \cup UpdatePcs

FamilyInv ==
    /\ \A p \in Procs : ~ctxDone[p] /\ Parent(p) /\ (pc[p] \in CameUp => exe[p] \notin Bad)
    /\ \A p, q \in Procs : Live(p) /\ Live(q) /\ p # q => Hands(p, q) \/ Hands(q, p)

(***************************************************************************)
(* Nothing but an outside kill takes the child away from a parent that has *)
(* its byte.                                                               *)
(***************************************************************************)
ServedInv == Undisturbed => \A p \in Procs : pc[p] = "wait" /\ ready[p] => child[p] # None

(***************************************************************************)
(* The files, by where the process is that works on them.                  *)
(***************************************************************************)
UndoWorks == Faults \cap {"renameOld", "removePending", "syncRevert", "syncInstall"} = {}

OldConfirmed == \A image \in disk \cup {fs} : image.old \in confirmed \cup {None}

\* <path> is what p executes, and came up.
Home(p) == fs.path = exe[p] /\ exe[p] \in confirmed

\* .old is what p executes, or <path> is it and there is nothing to revert.
Trial(p) ==
    \/ fs.old = exe[p] /\ exe[p] \in confirmed /\ ~fs.linked
    \/ fs.old = None /\ Home(p)

InstallFiles(p) ==
    LET step == call[p].step IN
    /\ step \in InstallSteps \ {"syncInstall"} => Home(p)
    /\ step \in {"truncPending", "writePending", "renameNew"} => fs.old = exe[p]
    /\ step \in {"writePending", "renameNew"} => fs.pending # None
    /\ step = "syncInstall" => Trial(p)
    /\ step = "done" => IF call[p].ok THEN Trial(p) ELSE Home(p)

Files(p) ==
    LET step == call[p].step IN
    /\ pc[p] \in {"check", "boot"} => fs.path = exe[p]
    /\ pc[p] = "chkClear" => Home(p)
    /\ pc[p] = "chkMark" => fs.old # None
    /\ pc[p] = "chkRevert" =>
           /\ IF step = "renameOld" THEN fs.old # None ELSE fs.path \in confirmed
           /\ step = "done" => call[p].ok
    /\ pc[p] \in {"readyClear", "readyByte", "poll", "skip"} => Home(p)
    /\ pc[p] = "install" => InstallFiles(p)
    /\ pc[p] \in {"handoff", "wait", "term", "rbMark", "agMark"} => Trial(p)
    /\ pc[p] \in {"rbRevert", "agRevert"} =>
           IF step = "renameOld" THEN Trial(p) ELSE fs.old = None /\ Home(p)

FilesInv == OldConfirmed /\ EmbRecoverable /\ \A p \in Procs : Files(p)

-----------------------------------------------------------------------------
(***************************************************************************)
(* The steps, by what they touch.  A step of its own moves one process and *)
(* leaves the files; the others end a process, launch one, change the      *)
(* files, or come from outside.                                            *)
(***************************************************************************)
Own(p) ==
    \/ SelfCheck(p) \/ CheckCleared(p) \/ CheckMarked(p) \/ CheckReverted(p)
    \/ Ready(p) \/ ReadyCleared(p) \/ ReportReady(p)
    \/ Poll(p) \/ Skipped(p) \/ Installed(p)
    \/ StartFails(p) \/ Waited(p) \/ Terminated(p) \/ Superseded(p) \/ GiveUp(p)
    \/ Marked(p) \/ Reverted(p)

Ends == \E p \in Procs : ChildKilled(p) \/ Drained(p) \/ MainReturns(p) \/ BadCrashes(p) \/ Crash(p)

\* p goes from one place to another and is then at step s of an Installer call.
From(p, a, b, s) == pc[p] = a /\ pc'[p] = b /\ call'[p].step = s

Moved(p) ==
    \/ From(p, "check", "boot", "idle") /\ ~HasPending
    \/ From(p, "check", "chkClear", "clearPending") /\ fs.old = None
    \/ From(p, "check", "chkMark", "truncFailed") /\ fs.old # None
    \/ From(p, "chkClear", "boot", "idle")
    \/ From(p, "chkMark", "chkRevert", "renameOld")
    \/ From(p, "chkRevert", "check", "idle") /\ At(p, "done") /\ exe'[p] = fs.path
    \/ From(p, "chkRevert", "boot", "idle") /\ At(p, "done") /\ ~call[p].ok
    \/ From(p, "boot", "readyClear", "clearPending") /\ exe[p] \notin Bad
    \/ From(p, "readyClear", "readyByte", "idle")
    \/ From(p, "readyByte", "poll", "idle")
    \/ From(p, "poll", "skip", "clearFailed") /\ InTime(p)
    \/ From(p, "poll", "install", "stage") /\ InTime(p)
    \/ From(p, "skip", "poll", "idle")
    \/ From(p, "skip", "install", "stage")
    \/ From(p, "install", "poll", "idle") /\ At(p, "done") /\ ~call[p].ok
    \/ From(p, "install", "handoff", "idle") /\ At(p, "done") /\ call[p].ok
    \/ From(p, "install", "agMark", "truncFailed") /\ At(p, "done") /\ call[p].ok
    \/ From(p, "handoff", "rbMark", "truncFailed")
    \/ From(p, "wait", "rbMark", "truncFailed") /\ child[p] = None
    \/ From(p, "term", "rbMark", "truncFailed") /\ child[p] = None
    \/ From(p, "wait", "drain", "idle") /\ ready[p]
    \/ From(p, "wait", "term", "idle") /\ child[p] # None /\ (ctxDone[p] \/ Slow \/ exe[child[p]] \in Bad)
    \/ From(p, "rbMark", "rbRevert", "renameOld")
    \/ From(p, "agMark", "poll", "idle") /\ fs.old = None
    \/ From(p, "agMark", "agRevert", "renameOld")
    \/ From(p, "rbRevert", "agMark", "truncFailed") /\ At(p, "done")
    \/ From(p, "rbRevert", "poll", "idle") /\ At(p, "done")
    \/ From(p, "agRevert", "handoff", "idle") /\ At(p, "done")
    \/ From(p, "agRevert", "poll", "idle") /\ At(p, "done")

Frame(p) ==
    /\ UNCHANGED <<fs, disk, child, ctxDone, world>>
    /\ exe' = IF pc[p] = "chkRevert" /\ pc'[p] = "check" THEN [exe EXCEPT ![p] = fs.path] ELSE exe
    /\ ready' = IF pc[p] = "readyByte" THEN [q \in Procs |-> ready[q] \/ child[q] = p] ELSE ready
    /\ confirmed' = IF pc[p] = "boot" THEN confirmed \cup {exe[p]} ELSE confirmed

\* What a process's Installer call looks like after each way to change it.
LEMMA CallSet ==
    ASSUME call \in [Procs -> Call], NEW p \in Procs, NEW s \in Steps, NEW d \in Contents \cup {None}, NEW w \in Marks,
           call' = [call EXCEPT ![p] = [step |-> s, data |-> d, want |-> w, ok |-> TRUE]]
    PROVE  /\ call'[p] \in Call /\ call' = [call EXCEPT ![p] = call'[p]]
           /\ call'[p].step = s /\ call'[p].data = d /\ call'[p].want = w
<1> DEFINE c == [step |-> s, data |-> d, want |-> w, ok |-> TRUE]
<1>1. c \in Call /\ c.step = s /\ c.data = d /\ c.want = w BY DEF Call
<1>2. call' = [call EXCEPT ![p] = c] OBVIOUS
<1> HIDE DEF c
<1>3. call'[p] = c BY <1>2
<1>4. QED BY <1>1, <1>2, <1>3

\* The result is taken, or the process is dead.
LEMMA CallDropped ==
    ASSUME call \in [Procs -> Call], NEW p \in Procs, call' = [call EXCEPT ![p] = Idle]
    PROVE  call'[p] = Idle /\ call'[p] \in Call /\ call' = [call EXCEPT ![p] = call'[p]] /\ call'[p].step = "idle"
<1>1. call'[p] = Idle /\ Idle \in Call BY StepNames
<1>2. Idle.step = "idle" BY DEF Idle
<1>3. QED BY <1>1, <1>2

\* p alone moves, and its call is well formed.
Moves(p) ==
    /\ pc' = [pc EXCEPT ![p] = pc'[p]] /\ call' = [call EXCEPT ![p] = call'[p]]
    /\ call'[p] \in Call
    /\ call'[p].step \in InstallSteps =>
           call'[p].want \in Releases /\ (call'[p].step # "stage" => call'[p].data = call'[p].want)

\* A move to b that leaves p at step s of its Installer call.
LEMMA MoveOf ==
    ASSUME TypeInv, NEW p \in Procs, NEW b, NEW s, pc' = [pc EXCEPT ![p] = b],
           \/ s = call[p].step /\ UNCHANGED call
           \/ s = "idle" /\ ThenNothing(p)
           \/ s \in Steps \ InstallSteps /\ \E w \in Marks : Begin(p, s, None, w) \/ ThenCall(p, s, w)
           \/ s = "stage" /\ \E h \in Releases : Begin(p, "stage", h, h) \/ ThenInstall(p, h)
    PROVE  From(p, pc[p], b, s) /\ Moves(p)
<1>0. /\ call \in [Procs -> Call] /\ pc \in [Procs -> ProcPcs] /\ call[p] \in Call
      /\ call[p].step \in InstallSteps => call[p].want \in Releases /\ (call[p].step # "stage" => call[p].data = call[p].want)
  BY DEF TypeInv, InstInv, Parts, Dead, Placed, InstTypeOK, CallsVerified
<1>1. pc'[p] = b /\ pc' = [pc EXCEPT ![p] = pc'[p]] BY <1>0
<1>2. None \in Marks /\ None \in Contents \cup {None} /\ "stage" \in Steps /\ "idle" \notin InstallSteps
      /\ \A h \in Releases : h \in Marks /\ h \in Contents \cup {None}
  BY DEF Marks, Contents, Steps, InstallSteps
<1>3. CASE s = call[p].step /\ UNCHANGED call BY <1>0, <1>1, <1>3 DEF From, Moves
<1>4. CASE s = "idle" /\ ThenNothing(p)
  <2>1. call'[p] \in Call /\ call'[p].step = "idle" /\ call' = [call EXCEPT ![p] = call'[p]]
    BY <1>0, <1>4, CallDropped DEF ThenNothing, Return
  <2>2. QED BY <1>1, <1>2, <1>4, <2>1 DEF From, Moves
<1>5. ASSUME s \in Steps \ InstallSteps, NEW w \in Marks, Begin(p, s, None, w) \/ ThenCall(p, s, w)
      PROVE  From(p, pc[p], b, s) /\ Moves(p)
  <2>1. call' = [call EXCEPT ![p] = [step |-> s, data |-> None, want |-> w, ok |-> TRUE]]
    BY <1>5 DEF Begin, ThenCall
  <2>2. call'[p] \in Call /\ call'[p].step = s /\ call' = [call EXCEPT ![p] = call'[p]]
    BY <1>0, <1>2, <1>5, <2>1, CallSet
  <2>3. QED BY <1>1, <1>5, <2>2 DEF From, Moves
<1>6. ASSUME s = "stage", NEW h \in Releases, Begin(p, "stage", h, h) \/ ThenInstall(p, h)
      PROVE  From(p, pc[p], b, s) /\ Moves(p)
  <2>1. call' = [call EXCEPT ![p] = [step |-> "stage", data |-> h, want |-> h, ok |-> TRUE]]
    BY <1>6 DEF Begin, ThenInstall
  <2>2. call'[p] \in Call /\ call'[p].step = "stage" /\ call'[p].want = h /\ call' = [call EXCEPT ![p] = call'[p]]
    BY <1>0, <1>2, <2>1, CallSet
  <2>3. QED BY <1>1, <1>6, <2>2 DEF From, Moves
<1>7. QED BY <1>3, <1>4, <1>5, <1>6

\* What changes at p, as far as the types go.
Typed(p) ==
    /\ pc[p] # "dead"
    /\ target' \in [Procs -> Releases \cup {None}] /\ upgrade' \in [Procs -> Marks] /\ again' \in [Procs -> BOOLEAN]
    /\ \A q \in Procs \ {p} : target'[q] = target[q]
    /\ pc'[p] = "skip" => target'[p] \in Releases

\* Each of a process's own steps is one of the moves.
LEMMA OwnStep ==
    ASSUME TypeInv, NEW p \in Procs, Own(p)
    PROVE  Moved(p) /\ Frame(p) /\ Moves(p) /\ Typed(p)
<1> USE ValuesDistinct
<1> USE DEF local, world, instVars, Finished, Move, NoWrite, At
<1>0. /\ call \in [Procs -> Call] /\ pc \in [Procs -> ProcPcs] /\ fs \in Image /\ CallOf(p)
      /\ target \in [Procs -> Releases \cup {None}] /\ upgrade \in [Procs -> Marks] /\ again \in [Procs -> BOOLEAN]
      /\ head \in Releases
  BY DEF TypeInv, InstInv, Parts, Dead, Placed, InstTypeOK
<1>s. /\ {"clearPending", "truncFailed", "renameOld", "clearFailed"} \subseteq Steps \ InstallSteps
      /\ None \in Marks /\ fs.pending \in Marks /\ target[p] \in Marks /\ upgrade[p] \in Marks
  BY <1>0 DEF Steps, InstallSteps, RevertSteps, ClearPendingSteps, MarkFailedSteps, ClearFailedSteps, Marks, Image
<1>1. ASSUME Own(p), ~Poll(p), ~Installed(p), ~Reverted(p)
      PROVE  Moved(p) /\ Frame(p) /\ Moves(p)
  <2>1. CASE SelfCheck(p)
    <3>1. CASE pc' = [pc EXCEPT ![p] = "boot"] /\ UNCHANGED call /\ ~HasPending
      <4>1. pc[p] = "check" /\ call[p].step = "idle" BY <1>0, <2>1 DEF SelfCheck, CallOf
      <4>2. From(p, "check", "boot", "idle") /\ Moves(p) BY <3>1, <4>1, MoveOf
      <4>3. QED BY <2>1, <3>1, <4>1, <4>2 DEF SelfCheck, Moved, Frame
    <3>2. CASE pc' = [pc EXCEPT ![p] = "chkClear"] /\ Begin(p, "clearPending", None, None) /\ fs.old = None
      <4>1. pc[p] = "check" BY <2>1 DEF SelfCheck
      <4>2. From(p, "check", "chkClear", "clearPending") /\ Moves(p) BY <1>s, <3>2, <4>1, MoveOf
      <4>3. pc'[p] = "chkClear" BY <4>2 DEF From
      <4>4. QED BY <2>1, <3>2, <4>1, <4>2, <4>3 DEF SelfCheck, Moved, Frame
    <3>3. CASE pc' = [pc EXCEPT ![p] = "chkMark"] /\ Begin(p, "truncFailed", None, fs.pending) /\ fs.old # None
      <4>1. pc[p] = "check" BY <2>1 DEF SelfCheck
      <4>2. From(p, "check", "chkMark", "truncFailed") /\ Moves(p) BY <1>s, <3>3, <4>1, MoveOf
      <4>3. QED BY <2>1, <3>3, <4>1, <4>2 DEF SelfCheck, Moved, Frame
    <3>4. QED BY <2>1, <3>1, <3>2, <3>3 DEF SelfCheck
  <2>2. CASE CheckCleared(p)
    <3>1. From(p, "chkClear", "boot", "idle") /\ Moves(p) BY <2>2, MoveOf DEF CheckCleared
    <3>2. QED BY <2>2, <3>1 DEF CheckCleared, Moved, Frame
  <2>3. CASE CheckMarked(p)
    <3>1. From(p, "chkMark", "chkRevert", "renameOld") /\ Moves(p) BY <1>s, <2>3, MoveOf DEF CheckMarked
    <3>2. QED BY <2>3, <3>1 DEF CheckMarked, Moved, Frame
  <2>4. CASE CheckReverted(p)
    <3>1. CASE call[p].ok /\ pc' = [pc EXCEPT ![p] = "check"] /\ exe' = [exe EXCEPT ![p] = fs.path]
      <4>0. pc[p] = "chkRevert" /\ ThenNothing(p) BY <2>4 DEF CheckReverted
      <4>1. From(p, "chkRevert", "check", "idle") /\ Moves(p) BY <3>1, <4>0, MoveOf
      <4>2. exe'[p] = fs.path BY <3>1 DEF TypeInv, Parts
      <4>3. QED BY <2>4, <3>1, <4>1, <4>2 DEF CheckReverted, Moved, Frame, From
    <3>2. CASE ~call[p].ok /\ pc' = [pc EXCEPT ![p] = "boot"] /\ exe' = exe
      <4>0. pc[p] = "chkRevert" /\ ThenNothing(p) BY <2>4 DEF CheckReverted
      <4>1. From(p, "chkRevert", "boot", "idle") /\ Moves(p) BY <3>2, <4>0, MoveOf
      <4>2. QED BY <2>4, <3>2, <4>1 DEF CheckReverted, Moved, Frame, From
    <3>3. QED BY <2>4, <3>1, <3>2 DEF CheckReverted
  <2>5. CASE Ready(p)
    <3>1. From(p, "boot", "readyClear", "clearPending") /\ Moves(p) BY <1>s, <2>5, MoveOf DEF Ready
    <3>2. QED BY <2>5, <3>1 DEF Ready, Moved, Frame
  <2>6. CASE ReadyCleared(p)
    <3>1. From(p, "readyClear", "readyByte", "idle") /\ Moves(p) BY <2>6, MoveOf DEF ReadyCleared
    <3>2. QED BY <2>6, <3>1 DEF ReadyCleared, Moved, Frame
  <2>7. CASE ReportReady(p)
    <3>1. pc[p] = "readyByte" /\ call[p].step = "idle" BY <1>0, <2>7 DEF ReportReady, CallOf
    <3>2. From(p, "readyByte", "poll", "idle") /\ Moves(p) BY <2>7, <3>1, MoveOf DEF ReportReady
    <3>3. QED BY <2>7, <3>1, <3>2 DEF ReportReady, Moved, Frame
  <2>8. CASE Skipped(p)
    <3>1. pc[p] = "skip" /\ target[p] \in Releases BY <1>0, <2>8 DEF Skipped, CallOf
    <3>2. CASE pc' = [pc EXCEPT ![p] = "poll"] /\ ThenNothing(p)
      <4>1. From(p, "skip", "poll", "idle") /\ Moves(p) BY <3>1, <3>2, MoveOf
      <4>2. QED BY <2>8, <3>1, <4>1 DEF Skipped, Moved, Frame
    <3>3. CASE pc' = [pc EXCEPT ![p] = "install"] /\ ThenInstall(p, target[p])
      <4>1. \E h \in Releases : Begin(p, "stage", h, h) \/ ThenInstall(p, h) BY <3>1, <3>3
      <4>2. From(p, "skip", "install", "stage") /\ Moves(p) BY <3>1, <3>3, <4>1, MoveOf
      <4>3. QED BY <2>8, <3>1, <4>2 DEF Skipped, Moved, Frame
    <3>4. QED BY <2>8, <3>2, <3>3 DEF Skipped
  <2>9. CASE StartFails(p) \/ Waited(p) \/ Terminated(p)
    <3>1. pc[p] \in {"handoff", "wait", "term"} /\ (pc[p] # "handoff" => child[p] = None) /\ RollBack(p)
      BY <2>9 DEF StartFails, Waited, Terminated
    <3>2. From(p, pc[p], "rbMark", "truncFailed") /\ Moves(p) BY <1>s, <3>1, MoveOf DEF RollBack
    <3>3. QED BY <3>1, <3>2 DEF RollBack, Moved, Frame
  <2>10. CASE Superseded(p)
    <3>1. pc[p] = "wait" /\ call[p].step = "idle" BY <1>0, <2>10 DEF Superseded, CallOf
    <3>2. From(p, "wait", "drain", "idle") /\ Moves(p) BY <2>10, <3>1, MoveOf DEF Superseded
    <3>3. QED BY <2>10, <3>1, <3>2 DEF Superseded, Moved, Frame
  <2>11. CASE GiveUp(p)
    <3>1. pc[p] = "wait" /\ call[p].step = "idle" BY <1>0, <2>11 DEF GiveUp, CallOf
    <3>2. From(p, "wait", "term", "idle") /\ Moves(p) BY <2>11, <3>1, MoveOf DEF GiveUp
    <3>3. QED BY <2>11, <3>1, <3>2 DEF GiveUp, Moved, Frame
  <2>12. CASE Marked(p)
    <3>1. pc[p] \in {"rbMark", "agMark"} BY <2>12 DEF Marked
    <3>2. CASE pc' = [pc EXCEPT ![p] = "poll"] /\ fs.old = None /\ ThenNothing(p) /\ pc[p] = "agMark"
      <4>1. From(p, "agMark", "poll", "idle") /\ Moves(p) BY <3>2, MoveOf
      <4>2. QED BY <2>12, <3>2, <4>1 DEF Marked, Moved, Frame
    <3>3. CASE pc' = [pc EXCEPT ![p] = "rbRevert"] /\ ThenCall(p, "renameOld", None) /\ pc[p] = "rbMark"
      <4>1. From(p, "rbMark", "rbRevert", "renameOld") /\ Moves(p) BY <1>s, <3>3, MoveOf
      <4>2. QED BY <2>12, <3>3, <4>1 DEF Marked, Moved, Frame
    <3>4. CASE pc' = [pc EXCEPT ![p] = "agRevert"] /\ ThenCall(p, "renameOld", None) /\ pc[p] = "agMark"
      <4>1. From(p, "agMark", "agRevert", "renameOld") /\ Moves(p) BY <1>s, <3>4, MoveOf
      <4>2. QED BY <2>12, <3>4, <4>1 DEF Marked, Moved, Frame
    <3>5. QED BY <2>12, <3>2, <3>3, <3>4 DEF Marked
  <2>13. QED
    BY <1>1, <2>1, <2>2, <2>3, <2>4, <2>5, <2>6, <2>7, <2>8, <2>9, <2>10, <2>11, <2>12 DEF Own
<1>2. ASSUME Own(p), ~Poll(p), ~Installed(p), ~Reverted(p)
      PROVE  Typed(p)
  <2>1. UNCHANGED <<target, upgrade, again>> /\ pc[p] # "poll" /\ pc[p] # "dead"
    BY <1>2 DEF Own, SelfCheck, CheckCleared, CheckMarked, CheckReverted, Ready, ReadyCleared, ReportReady, Skipped,
       StartFails, Waited, Terminated, RollBack, Superseded, GiveUp, Marked
  <2>2. pc'[p] # "skip" BY <1>1, <1>2, <2>1 DEF Moved, From
  <2>3. QED BY <1>0, <2>1, <2>2 DEF Typed
<1>3. CASE Poll(p)
  <2>0. target' = [target EXCEPT ![p] = head] /\ target'[p] \in Releases /\ pc[p] = "poll" BY <1>0, <1>3 DEF Poll
  <2>1. CASE pc' = [pc EXCEPT ![p] = "skip"] /\ Begin(p, "clearFailed", None, None)
    <3>1. From(p, "poll", "skip", "clearFailed") /\ Moves(p) BY <1>s, <2>0, <2>1, MoveOf
    <3>2. Moved(p) /\ Frame(p) BY <1>3, <2>0, <3>1 DEF Poll, Moved, Frame
    <3>3. QED BY <1>0, <1>3, <2>0, <3>1, <3>2 DEF Poll, Typed
  <2>2. CASE pc' = [pc EXCEPT ![p] = "install"] /\ Begin(p, "stage", head, head)
    <3>0. \E h \in Releases : Begin(p, "stage", h, h) \/ ThenInstall(p, h) BY <1>0, <2>2
    <3>1. From(p, "poll", "install", "stage") /\ Moves(p) BY <2>0, <2>2, <3>0, MoveOf
    <3>2. Moved(p) /\ Frame(p) BY <1>3, <2>0, <3>1 DEF Poll, Moved, Frame
    <3>3. QED BY <1>0, <1>3, <2>0, <3>1, <3>2 DEF Poll, Typed
  <2>3. QED BY <1>3, <2>1, <2>2 DEF Poll
<1>4. CASE Installed(p)
  <2>0. PendingHash \in Marks /\ pc[p] = "install" BY <1>0, <1>4 DEF Installed, PendingHash, Image, Marks
  <2>1. Frame(p) BY <1>4, <2>0 DEF Installed, Frame
  <2>2. target' = target /\ again' = again /\ upgrade' \in [Procs -> Marks] BY <1>0, <1>4, <2>0 DEF Installed
  <2>3. CASE ~call[p].ok /\ pc' = [pc EXCEPT ![p] = "poll"] /\ ThenNothing(p)
    <3>1. From(p, "install", "poll", "idle") /\ Moves(p) BY <2>0, <2>3, MoveOf
    <3>2. QED BY <1>0, <1>4, <2>0, <2>1, <2>2, <2>3, <3>1 DEF Installed, Moved, Typed, From
  <2>4. CASE call[p].ok /\ pc' = [pc EXCEPT ![p] = "handoff"] /\ ThenNothing(p)
    <3>1. From(p, "install", "handoff", "idle") /\ Moves(p) BY <2>0, <2>4, MoveOf
    <3>2. QED BY <1>0, <1>4, <2>0, <2>1, <2>2, <2>4, <3>1 DEF Installed, Moved, Typed, From
  <2>5. CASE call[p].ok /\ pc' = [pc EXCEPT ![p] = "agMark"] /\ ThenCall(p, "truncFailed", target[p])
    <3>1. From(p, "install", "agMark", "truncFailed") /\ Moves(p) BY <1>s, <2>0, <2>5, MoveOf
    <3>2. QED BY <1>0, <1>4, <2>0, <2>1, <2>2, <2>5, <3>1 DEF Installed, Moved, Typed, From
  <2>6. QED BY <1>4, <2>3, <2>4, <2>5 DEF Installed
<1>5. CASE Reverted(p)
  <2>0. PendingHash \in Marks /\ pc[p] \in {"rbRevert", "agRevert"} BY <1>0, <1>5 DEF Reverted, PendingHash, Image, Marks
  <2>1. Frame(p) BY <1>5, <2>0 DEF Reverted, Frame
  <2>2. target' = target /\ again' \in [Procs -> BOOLEAN] /\ upgrade' \in [Procs -> Marks] BY <1>0, <1>5, <2>0 DEF Reverted
  <2>3. CASE pc' = [pc EXCEPT ![p] = "poll"] /\ ThenNothing(p)
    <3>1. From(p, pc[p], "poll", "idle") /\ Moves(p) BY <2>3, MoveOf
    <3>2. QED BY <1>0, <1>5, <2>0, <2>1, <2>2, <3>1 DEF Reverted, Moved, Typed, From
  <2>4. CASE pc[p] = "agRevert" /\ pc' = [pc EXCEPT ![p] = "handoff"] /\ ThenNothing(p)
    <3>1. From(p, "agRevert", "handoff", "idle") /\ Moves(p) BY <2>4, MoveOf
    <3>2. QED BY <1>0, <1>5, <2>0, <2>1, <2>2, <3>1 DEF Reverted, Moved, Typed, From
  <2>5. CASE pc[p] = "rbRevert" /\ pc' = [pc EXCEPT ![p] = "agMark"] /\ ThenCall(p, "truncFailed", target[p])
    <3>1. From(p, "rbRevert", "agMark", "truncFailed") /\ Moves(p) BY <1>s, <2>5, MoveOf
    <3>2. QED BY <1>0, <1>5, <2>0, <2>1, <2>2, <3>1 DEF Reverted, Moved, Typed, From
  <2>6. QED BY <1>5, <2>3, <2>4, <2>5 DEF Reverted
<1>6. QED BY <1>1, <1>2, <1>3, <1>4, <1>5

-----------------------------------------------------------------------------
(***************************************************************************)
(* Types.                                                                  *)
(***************************************************************************)
\* A process's own steps keep the types.
LEMMA OwnType ==
    ASSUME TypeInv, NEW p \in Procs, Own(p)
    PROVE  TypeInv'
<1>0. InstInv /\ Parts /\ Dead /\ Placed BY DEF TypeInv
<1>m. Moved(p) /\ Frame(p) /\ Moves(p) /\ Typed(p) BY OwnStep
<1>1. InstInv'
  <2>1. call' \in [Procs -> Call] BY <1>0, <1>m DEF InstInv, InstTypeOK, Moves
  <2>2. CallsVerified' BY <1>0, <1>m DEF InstInv, InstTypeOK, CallsVerified, Moves
  <2>3. QED BY <1>0, <1>m, <2>1, <2>2 DEF InstInv, InstTypeOK, WholeReleaseAtPath, Frame
<1>2. pc'[p] \in ProcPcs \ {"dead"} BY <1>m DEF Moved, From, ProcPcs, UpdatePcs, RollbackPcs
<1>3. Parts'
  <2>1. fs.path \in Releases /\ exe[p] \in Releases BY <1>0, <1>m DEF InstInv, WholeReleaseAtPath, Placed, Typed
  <2>2. pc' \in [Procs -> ProcPcs] /\ child' \in [Procs -> Procs \cup {None}] /\ ctxDone' \in [Procs -> BOOLEAN]
    BY <1>0, <1>m, <1>2 DEF Parts, Moves, Frame
  <2>3. exe' \in [Procs -> Contents \cup {None}] BY <1>0, <1>m, <2>1 DEF Parts, Frame, Contents
  <2>4. ready' \in [Procs -> BOOLEAN]
    <3>1. CASE ready' = ready BY <1>0, <3>1 DEF Parts
    <3>2. CASE ready' = [q \in Procs |-> ready[q] \/ child[q] = p] BY <3>2
    <3>3. QED BY <1>m, <3>1, <3>2 DEF Frame
  <2>5. confirmed' \subseteq Releases BY <1>0, <1>m, <2>1 DEF Parts, Frame
  <2>6. head' = head /\ budget' = budget BY <1>m DEF Frame, world
  <2>7. QED BY <1>0, <1>m, <2>2, <2>3, <2>4, <2>5, <2>6 DEF Parts, Typed
<1>4. Dead'
  <2>1. child' = child /\ \A q \in Procs \ {p} : pc'[q] = pc[q] /\ call'[q] = call[q]
    BY <1>0, <1>m DEF Frame, Moves, Parts, InstInv, InstTypeOK
  <2>2. \A q \in Procs : pc'[q] = "dead" <=> pc[q] = "dead" BY <1>2, <1>m, <2>1 DEF Typed
  <2>3. \A q \in Procs : child[q] \in Procs \cup {None} BY <1>0 DEF Parts
  <2>4. ASSUME NEW q \in Procs PROVE pc'[q] = "dead" => call'[q] = Idle /\ child'[q] = None
    BY <1>0, <1>2, <2>1, <2>2 DEF Dead
  <2>5. ASSUME NEW q \in Procs, child[q] # None PROVE pc'[child'[q]] # "dead" BY <1>0, <2>1, <2>2, <2>3, <2>5 DEF Dead
  <2>6. QED BY <2>1, <2>4, <2>5 DEF Dead
<1>5. Placed'
  <2>1. CallOf(p)'
    <3>1. \/ pc'[p] \in {"check", "boot", "readyByte", "poll", "handoff", "term", "drain"} /\ call'[p].step = "idle"
          \/ pc'[p] \in {"chkClear", "readyClear"} /\ call'[p].step = "clearPending"
          \/ pc'[p] \in {"chkMark", "rbMark", "agMark"} /\ call'[p].step = "truncFailed"
          \/ pc'[p] \in {"chkRevert", "rbRevert", "agRevert"} /\ call'[p].step = "renameOld"
          \/ pc'[p] = "skip" /\ call'[p].step = "clearFailed"
          \/ pc'[p] = "install" /\ call'[p].step = "stage"
      BY <1>m DEF Moved, From
    <3>2. QED
      BY <1>m, <3>1 DEF Typed, CallOf, InstallSteps, RevertSteps, ClearPendingSteps, MarkFailedSteps, ClearFailedSteps
  <2>2. exe'[p] \in Releases BY <1>0, <1>m DEF Placed, Typed, Frame, InstInv, WholeReleaseAtPath, Parts
  <2>3. ASSUME NEW q \in Procs \ {p} PROVE (CallOf(q) /\ (pc[q] # "dead" => exe[q] \in Releases))'
    <3>1. pc'[q] = pc[q] /\ call'[q] = call[q] /\ exe'[q] = exe[q] /\ target'[q] = target[q]
      BY <1>0, <1>m DEF Frame, Moves, Typed, Parts, InstInv, InstTypeOK
    <3>2. QED BY <1>0, <3>1 DEF Placed, CallOf
  <2>4. QED BY <2>1, <2>2, <2>3 DEF Placed
<1>6. QED BY <1>1, <1>3, <1>4, <1>5 DEF TypeInv

\* A process ends: its parent, if it waits, learns of it.
LEMMA GoneType ==
    ASSUME TypeInv, NEW x \in Procs, Gone(x), UNCHANGED <<head, confirmed>>,
           budget' \in [heads: Nat, stops: Nat, crashes: Nat, powerLosses: Nat]
    PROVE  TypeInv'
<1> USE DEF Gone, NoWrite, local
<1>0. InstInv /\ Parts /\ Dead /\ Placed BY DEF TypeInv
<1>1. /\ call' \in [Procs -> Call] /\ call'[x] = Idle /\ call'[x].step = "idle"
      /\ \A q \in Procs \ {x} : call'[q] = call[q]
  BY <1>0, CallDropped DEF InstInv, InstTypeOK
<1>2. InstInv'
  <2>1. CallsVerified' BY <1>0, <1>1 DEF InstInv, CallsVerified, InstallSteps
  <2>2. QED BY <1>0, <1>1, <2>1 DEF InstInv, InstTypeOK, WholeReleaseAtPath
<1>3. /\ pc'[x] = "dead" /\ \A q \in Procs \ {x} : pc'[q] = pc[q]
      /\ pc' \in [Procs -> ProcPcs]
  BY <1>0 DEF Parts, ProcPcs
<1>4. /\ child' \in [Procs -> Procs \cup {None}]
      /\ \A q \in Procs : child'[q] = (IF q = x \/ child[q] = x THEN None ELSE child[q])
  BY <1>0 DEF Parts
<1>5. Parts' BY <1>0, <1>3, <1>4 DEF Parts
<1>6. Dead'
  <2>1. ASSUME NEW q \in Procs, pc'[q] = "dead" PROVE call'[q] = Idle /\ child'[q] = None
    BY <1>0, <1>1, <1>3, <1>4, <2>1 DEF Dead
  <2>2. ASSUME NEW q \in Procs, child'[q] # None PROVE pc'[child'[q]] # "dead"
    BY <1>0, <1>3, <1>4, <2>2 DEF Dead, Parts
  <2>3. QED BY <2>1, <2>2 DEF Dead
<1>7. Placed'
  <2>1. ASSUME NEW q \in Procs PROVE (CallOf(q) /\ (pc[q] # "dead" => exe[q] \in Releases))'
    <3>1. CASE q = x BY <1>1, <1>3, <3>1 DEF CallOf
    <3>2. CASE q # x BY <1>0, <1>1, <1>3, <3>2 DEF CallOf, Placed
    <3>3. QED BY <3>1, <3>2
  <2>2. QED BY <2>1 DEF Placed
<1>8. QED BY <1>2, <1>5, <1>6, <1>7 DEF TypeInv

\* The budget spent stays a budget.
LEMMA SpentBudget ==
    ASSUME budget \in [heads: Nat, stops: Nat, crashes: Nat, powerLosses: Nat],
           Spend("heads") \/ Spend("stops") \/ Spend("crashes") \/ Spend("powerLosses")
    PROVE  budget' \in [heads: Nat, stops: Nat, crashes: Nat, powerLosses: Nat]
BY DEF Spend

\* What ends a process is its exit, a kill by its parent, or a crash.
LEMMA EndsGone ==
    ASSUME TypeInv, Ends
    PROVE  \E x \in Procs :
             /\ Gone(x) /\ pc[x] # "dead" /\ UNCHANGED <<head, confirmed>>
             /\ \/ /\ UNCHANGED budget
                   /\ \/ \E q \in Procs : pc[q] = "term" /\ child[q] = x
                      \/ pc[x] = "drain"
                      \/ pc[x] = "boot" /\ exe[x] \in Bad
                      \/ ctxDone[x]
                \/ Spend("crashes")
<1>1. Parts /\ Dead BY DEF TypeInv
<1>2. ASSUME NEW p \in Procs, ChildKilled(p) PROVE child[p] \in Procs /\ pc[child[p]] # "dead"
  BY <1>1, <1>2 DEF ChildKilled, Parts, Dead
<1>3. QED BY <1>2 DEF Ends, ChildKilled, Drained, MainReturns, BadCrashes, Crash, world, UpdatePcs, RollbackPcs

\* A slot comes to life.
LEMMA LaunchType ==
    ASSUME TypeInv, NEW c \in Procs, Launch(c)
    PROVE  /\ pc[c] = "dead" /\ call[c] = Idle /\ call[c].step = "idle" /\ child[c] = None
           /\ \A q \in Procs : child[q] # c
           /\ exe'[c] = fs.path /\ exe'[c] \in Releases /\ \A q \in Procs \ {c} : exe'[q] = exe[q]
           /\ exe' \in [Procs -> Contents \cup {None}]
           /\ ctxDone' \in [Procs -> BOOLEAN] /\ again' \in [Procs -> BOOLEAN]
           /\ ctxDone'[c] = FALSE /\ \A q \in Procs \ {c} : ctxDone'[q] = ctxDone[q]
           /\ target' \in [Procs -> Releases \cup {None}] /\ \A q \in Procs \ {c} : target'[q] = target[q]
           /\ upgrade' \in [Procs -> Marks]
<1>0. InstInv /\ Parts /\ Dead BY DEF TypeInv
<1>1. fs.path \in Releases BY <1>0 DEF InstInv, WholeReleaseAtPath
<1>2. pc[c] = "dead" /\ call[c] = Idle /\ child[c] = None BY <1>0 DEF Launch, Dead
<1>3. call[c].step = "idle" BY <1>2 DEF Idle
<1>4. \A q \in Procs : child[q] # c
  <2>1. SUFFICES ASSUME NEW q \in Procs, child[q] = c PROVE FALSE OBVIOUS
  <2>2. c # None BY SelfUpdateAssumption
  <2>3. QED BY <1>0, <1>2, <2>1, <2>2 DEF Dead
<1>5. None \in Marks BY DEF Marks
<1>6. QED BY <1>0, <1>1, <1>2, <1>3, <1>4, <1>5 DEF Launch, Parts, Contents

\* StartChild and Supervisor keep the types.
LEMMA StartType ==
    ASSUME TypeInv, Supervisor \/ \E p \in Procs : StartChild(p)
    PROVE  TypeInv'
<1>0. InstInv /\ Parts /\ Dead /\ Placed BY DEF TypeInv
<1>a. UNCHANGED <<fs, disk, call, head, budget, confirmed>> BY DEF Supervisor, StartChild, instVars, world
<1>i. InstInv' BY <1>0, <1>a DEF InstInv, InstTypeOK, WholeReleaseAtPath, CallsVerified
<1>1. ASSUME NEW p \in Procs, NEW c \in Procs, Launch(c), pc[p] = "handoff",
             pc' = [pc EXCEPT ![p] = "wait", ![c] = "boot"],
             child' = [child EXCEPT ![p] = c], ready' = [ready EXCEPT ![p] = FALSE, ![c] = FALSE]
      PROVE  TypeInv'
  <2>0. p # c BY <1>1 DEF Launch
  <2>1. /\ pc' \in [Procs -> ProcPcs] /\ pc'[p] = "wait" /\ pc'[c] = "boot"
        /\ \A q \in Procs \ {p, c} : pc'[q] = pc[q]
    BY <1>0, <1>1, <2>0 DEF Parts, ProcPcs, UpdatePcs
  <2>2. /\ child' \in [Procs -> Procs \cup {None}] /\ child'[p] = c /\ \A q \in Procs \ {p} : child'[q] = child[q]
        /\ ready' \in [Procs -> BOOLEAN]
    BY <1>0, <1>1 DEF Parts
  <2>3. Parts' BY <1>0, <1>1, <1>a, <2>1, <2>2, LaunchType DEF Parts
  <2>4. Dead'
    <3>1. ASSUME NEW q \in Procs, pc'[q] = "dead" PROVE call'[q] = Idle /\ child'[q] = None
      BY <1>0, <1>a, <2>1, <2>2, <3>1 DEF Dead
    <3>2. ASSUME NEW q \in Procs, child'[q] # None PROVE pc'[child'[q]] # "dead"
      BY <1>0, <2>1, <2>2, <3>2 DEF Dead, Parts
    <3>3. QED BY <3>1, <3>2 DEF Dead
  <2>5. Placed'
    <3>1. ASSUME NEW q \in Procs PROVE (CallOf(q) /\ (pc[q] # "dead" => exe[q] \in Releases))'
      <4>1. CASE q = c BY <1>1, <1>a, <2>1, <4>1, LaunchType DEF CallOf
      <4>2. CASE q = p
        <5>1. call[p].step = "idle" /\ exe[p] \in Releases BY <1>0, <1>1 DEF Placed, CallOf
        <5>2. exe'[p] = exe[p] BY <1>1, <2>0, LaunchType
        <5>3. QED BY <1>a, <2>1, <4>2, <5>1, <5>2 DEF CallOf
      <4>3. CASE q \notin {p, c}
        <5>0. \A x \in Procs \ {c} : exe'[x] = exe[x] /\ target'[x] = target[x]
          BY <1>0, <1>1 DEF Launch, Parts
        <5>1. exe'[q] = exe[q] /\ target'[q] = target[q] BY <4>3, <5>0
        <5>2. QED BY <1>0, <1>a, <2>1, <4>3, <5>1 DEF CallOf, Placed
      <4>4. QED BY <4>1, <4>2, <4>3
    <3>2. QED BY <3>1 DEF Placed
  <2>6. QED BY <1>i, <2>3, <2>4, <2>5 DEF TypeInv
<1>2. ASSUME NEW c \in Procs, Launch(c), pc' = [pc EXCEPT ![c] = "check"], ready' = [ready EXCEPT ![c] = FALSE], child' = child
      PROVE  TypeInv'
  <2>1. pc' \in [Procs -> ProcPcs] /\ pc'[c] = "check" /\ \A q \in Procs \ {c} : pc'[q] = pc[q]
    BY <1>0, <1>2 DEF Parts, ProcPcs
  <2>2. ready' \in [Procs -> BOOLEAN] BY <1>0, <1>2 DEF Parts
  <2>3. Parts' BY <1>0, <1>2, <1>a, <2>1, <2>2, LaunchType DEF Parts
  <2>4. Dead' BY <1>0, <1>2, <1>a, <2>1, LaunchType DEF Dead, Parts
  <2>5. Placed'
    <3>1. ASSUME NEW q \in Procs PROVE (CallOf(q) /\ (pc[q] # "dead" => exe[q] \in Releases))'
      <4>1. CASE q = c BY <1>2, <1>a, <2>1, <4>1, LaunchType DEF CallOf
      <4>2. CASE q # c
        <5>0. \A x \in Procs \ {c} : exe'[x] = exe[x] /\ target'[x] = target[x]
          BY <1>0, <1>2 DEF Launch, Parts
        <5>1. exe'[q] = exe[q] /\ target'[q] = target[q] BY <4>2, <5>0
        <5>2. QED BY <1>0, <1>a, <2>1, <4>2, <5>1 DEF CallOf, Placed
      <4>3. QED BY <4>1, <4>2
    <3>2. QED BY <3>1 DEF Placed
  <2>6. QED BY <1>i, <2>3, <2>4, <2>5 DEF TypeInv
<1>3. QED BY <1>1, <1>2 DEF Supervisor, StartChild

\* A system call moves only the process that makes it, along its operation.
LEMMA SyscallCall ==
    ASSUME InstTypeOK, NEW p \in Procs, Syscall(p)
    PROVE  /\ call[p].step \in Steps
           /\ \A q \in Procs \ {p} : call'[q] = call[q]
           /\ call'[p].data = call[p].data /\ call'[p].want = call[p].want
           /\ \A ops \in {InstallSteps, RevertSteps, ClearPendingSteps, MarkFailedSteps, ClearFailedSteps} :
                  call[p].step \in ops => call'[p].step \in ops \cup {"done"}
<1> USE DEF Steps, InstallSteps, RevertSteps, ClearPendingSteps, MarkFailedSteps, ClearFailedSteps
<1>0. call \in [Procs -> Call] /\ call[p] \in Call BY DEF InstTypeOK
<1>1. ASSUME NEW s \in Steps, Goto(p, s)
      PROVE  /\ \A q \in Procs \ {p} : call'[q] = call[q]
             /\ call'[p].data = call[p].data /\ call'[p].want = call[p].want /\ call'[p].step = s
  BY <1>0, <1>1 DEF Goto, Call
<1>2. ASSUME NEW ok \in BOOLEAN, Done(p, ok)
      PROVE  /\ \A q \in Procs \ {p} : call'[q] = call[q]
             /\ call'[p].data = call[p].data /\ call'[p].want = call[p].want /\ call'[p].step = "done" /\ call'[p].ok = ok
  BY <1>0, <1>2 DEF Done, Call
<1>3. \/ \E ok \in BOOLEAN : Done(p, ok)
      \/ \E s \in Steps : /\ Goto(p, s)
                          /\ \/ {s, call[p].step} \subseteq InstallSteps
                             \/ {s, call[p].step} \subseteq RevertSteps
                             \/ {s, call[p].step} \subseteq ClearPendingSteps
                             \/ {s, call[p].step} \subseteq MarkFailedSteps
  BY DEF Syscall, Stage, RemoveOld, LinkOld, TruncPending, WritePending, RenameNew, Unmark, RenameOld, RemovePending,
     SyncDir, TruncFailed, WriteFailed, RemoveFailed, SyscallFails, WriteSyncFails, At
<1>4. call[p].step \in Steps
  BY FaultsAreSteps DEF Syscall, Stage, RemoveOld, LinkOld, TruncPending, WritePending, RenameNew, Unmark, RenameOld,
     RemovePending, SyncDir, TruncFailed, WriteFailed, RemoveFailed, SyscallFails, WriteSyncFails, At
<1>5. CASE \E ok \in BOOLEAN : Done(p, ok) BY <1>2, <1>4, <1>5
<1>6. ASSUME NEW s \in Steps, Goto(p, s),
             \/ {s, call[p].step} \subseteq InstallSteps
             \/ {s, call[p].step} \subseteq RevertSteps
             \/ {s, call[p].step} \subseteq ClearPendingSteps
             \/ {s, call[p].step} \subseteq MarkFailedSteps
      PROVE  \A ops \in {InstallSteps, RevertSteps, ClearPendingSteps, MarkFailedSteps, ClearFailedSteps} :
                  call[p].step \in ops => call'[p].step \in ops \cup {"done"}
  BY <1>1, <1>6
<1>7. QED BY <1>1, <1>3, <1>4, <1>5, <1>6

\* TypeInv is inductive.
LEMMA TypeInvStep == TypeInv /\ [EmbNext]_vars => TypeInv'
<1> SUFFICES ASSUME TypeInv, [EmbNext]_vars PROVE TypeInv'
  OBVIOUS
<1>0. InstInv /\ Parts /\ Dead /\ Placed BY DEF TypeInv
<1>1. CASE UNCHANGED <<instVars, pc, exe, child, ready, target, upgrade, again, confirmed>>
           /\ ctxDone' \in [Procs -> BOOLEAN] /\ head' \in Releases
           /\ budget' \in [heads: Nat, stops: Nat, crashes: Nat, powerLosses: Nat]
  <2>1. InstInv' /\ Parts' BY <1>0, <1>1 DEF instVars, InstInv, InstTypeOK, WholeReleaseAtPath, CallsVerified, Parts
  <2>2. Dead' /\ Placed' BY <1>0, <1>1 DEF instVars, Dead, Placed, CallOf
  <2>3. QED BY <2>1, <2>2 DEF TypeInv
<1>2. CASE UNCHANGED vars BY <1>0, <1>1, <1>2 DEF vars, procVars, world, Parts
<1>3. ASSUME NEW p \in Procs, Own(p) PROVE TypeInv' BY <1>3, OwnType
<1>4. CASE Ends
  <2>1. PICK x \in Procs : Gone(x) /\ UNCHANGED <<head, confirmed>> /\ (UNCHANGED budget \/ Spend("crashes"))
    BY <1>4, EndsGone
  <2>2. budget' \in [heads: Nat, stops: Nat, crashes: Nat, powerLosses: Nat] BY <1>0, <2>1, SpentBudget DEF Parts
  <2>3. QED BY <2>1, <2>2, GoneType
<1>5. CASE Supervisor \/ \E p \in Procs : StartChild(p) BY <1>5, StartType
<1>6. CASE Publish
  <2>1. budget' \in [heads: Nat, stops: Nat, crashes: Nat, powerLosses: Nat] BY <1>0, <1>6, SpentBudget DEF Publish, Parts
  <2>2. QED BY <1>0, <1>1, <1>6, <2>1 DEF Publish, procVars, Parts
<1>7. ASSUME NEW p \in Procs, Stop(p) PROVE TypeInv'
  <2>1. budget' \in [heads: Nat, stops: Nat, crashes: Nat, powerLosses: Nat] BY <1>0, <1>7, SpentBudget DEF Stop, Parts
  <2>2. ctxDone' \in [Procs -> BOOLEAN] BY <1>0, <1>7 DEF Stop, Parts
  <2>3. QED BY <1>0, <1>1, <1>7, <2>1, <2>2 DEF Stop, Parts
<1>8. CASE PowerLoss
  <2>1. budget' \in [heads: Nat, stops: Nat, crashes: Nat, powerLosses: Nat] BY <1>0, <1>8, SpentBudget DEF PowerLoss, Parts
  <2>2. InstInv'
    <3>1. InstNext BY <1>8 DEF PowerLoss, InstNext
    <3>2. QED BY <1>0, <3>1, InstInvStep
  <2>3. Parts' BY <1>0, <1>8, <2>1 DEF PowerLoss, Parts, local, ProcPcs
  <2>4. \A q \in Procs : pc'[q] = "dead" /\ call'[q] = Idle /\ child'[q] = None BY <1>8 DEF PowerLoss, PowerFails
  <2>5. Dead' BY <2>4 DEF Dead
  <2>6. Placed'
    <3>1. Idle.step = "idle" BY DEF Idle
    <3>2. QED BY <2>4, <3>1 DEF Placed, CallOf
  <2>7. QED BY <2>2, <2>3, <2>5, <2>6 DEF TypeInv
<1>9. ASSUME NEW p \in Procs, EmbSyscall(p) PROVE TypeInv'
  <2>0. Syscall(p) /\ UNCHANGED <<pc, exe, child, ready, ctxDone, target, upgrade, again, head, budget, confirmed>>
    BY <1>9 DEF EmbSyscall, procVars, world
  <2>1. InstInv'
    <3>1. InstNext BY <2>0 DEF InstNext
    <3>2. QED BY <1>0, <3>1, InstInvStep
  <2>2. /\ call[p].step \in Steps /\ \A q \in Procs \ {p} : call'[q] = call[q]
        /\ \A ops \in {InstallSteps, RevertSteps, ClearPendingSteps, MarkFailedSteps, ClearFailedSteps} :
                  call[p].step \in ops => call'[p].step \in ops \cup {"done"}
    BY <1>0, <2>0, SyscallCall DEF InstInv
  <2>3. pc[p] # "dead" BY <1>0, <2>2, StepNames DEF Placed, CallOf
  <2>4. Parts' BY <1>0, <2>0 DEF Parts
  <2>5. Dead' BY <1>0, <2>0, <2>2, <2>3 DEF Dead
  <2>6. Placed'
    <3>1. CallOf(p)'
      <4>1. call[p].step \notin {"idle", "done"} BY <2>2, StepNames
      <4>2. CallOf(p) BY <1>0 DEF Placed
      <4>3. QED BY <2>0, <2>2, <4>1, <4>2 DEF CallOf
    <3>2. ASSUME NEW q \in Procs \ {p} PROVE CallOf(q)' BY <1>0, <2>0, <2>2 DEF Placed, CallOf
    <3>3. QED BY <1>0, <2>0, <3>1, <3>2 DEF Placed
  <2>7. QED BY <2>1, <2>4, <2>5, <2>6 DEF TypeInv
<1>10. QED BY <1>2, <1>3, <1>4, <1>5, <1>6, <1>7, <1>8, <1>9 DEF EmbNext, ProcNext, Own, Ends

\* The service's first release is installed, and none of its processes runs.
LEMMA TypeInvInit == EmbInit => TypeInv
<1> SUFFICES ASSUME NEW r \in Releases \ Bad, InstInit(r), EmbInit,
                    pc = [p \in Procs |-> "dead"], exe = [p \in Procs |-> None], child = [p \in Procs |-> None],
                    ready = [p \in Procs |-> FALSE], ctxDone = ready, again = ready,
                    target = [p \in Procs |-> None], upgrade = target, head = r, confirmed = {r},
                    budget = [heads |-> MaxHeads, stops |-> MaxStops, crashes |-> MaxCrashes, powerLosses |-> MaxPowerLosses]
             PROVE  TypeInv
  BY DEF EmbInit
<1>1. InstInv BY InstInvInit
<1>2. Parts BY SelfUpdateAssumption DEF Parts, ProcPcs, Marks
<1>3. \A q \in Procs : pc[q] = "dead" /\ call[q] = Idle /\ child[q] = None BY DEF InstInit
<1>4. Dead BY <1>3 DEF Dead
<1>5. Placed
  <2>1. Idle.step = "idle" BY DEF Idle
  <2>2. QED BY <1>3, <2>1 DEF Placed, CallOf
<1>6. QED BY <1>1, <1>2, <1>4, <1>5 DEF TypeInv

(***************************************************************************)
(* The embedded target's files and processes keep their types, a dead      *)
(* process is in no call of the Installer and nobody waits for it, for any *)
(* number of processes, whatever fails and however a handoff is timed.     *)
(***************************************************************************)
THEOREM EmbTypeCorrect == EmbSpec => []EmbTypeOK
<1>1. TypeInv => EmbTypeOK
  <2> SUFFICES ASSUME TypeInv PROVE EmbTypeOK
    OBVIOUS
  <2>1. {ready, ctxDone, again} \subseteq [Procs -> BOOLEAN] BY DEF TypeInv, Parts
  <2>2. QED BY <2>1 DEF TypeInv, InstInv, Parts, Dead, EmbTypeOK
<1>2. QED BY <1>1, TypeInvInit, TypeInvStep, PTL DEF EmbSpec

(***************************************************************************)
(* README guarantees 1 and 5 for the embedded target: <path> is a whole,   *)
(* verified release, though a parent and its child share the files.        *)
(***************************************************************************)
THEOREM EmbAlwaysWhole == EmbSpec => []WholeReleaseAtPath
<1>1. TypeInv => WholeReleaseAtPath BY DEF TypeInv, InstInv
<1>2. QED BY <1>1, TypeInvInit, TypeInvStep, PTL DEF EmbSpec

-----------------------------------------------------------------------------
(***************************************************************************)
(* Serialised updates.                                                     *)
(***************************************************************************)
BudgetInv ==
    budget.stops <= MaxStops /\ budget.crashes <= MaxCrashes /\ budget.powerLosses <= MaxPowerLosses

\* What was not disturbed after a step was not before it, nor by it.
LEMMA BudgetStep ==
    ASSUME TypeInv, BudgetInv, [EmbNext]_vars
    PROVE  /\ BudgetInv'
           /\ NoStops' => NoStops /\ ~Spend("stops")
           /\ Undisturbed' => Undisturbed /\ ~Spend("stops") /\ ~Spend("crashes") /\ ~Spend("powerLosses")
<1>0. /\ budget \in [heads: Nat, stops: Nat, crashes: Nat, powerLosses: Nat]
      /\ {MaxStops, MaxCrashes, MaxPowerLosses} \subseteq Nat
  BY SelfUpdateAssumption DEF TypeInv, Parts
<1>1. CASE UNCHANGED budget BY <1>0, <1>1 DEF BudgetInv, NoStops, Undisturbed, Spend
<1>2. CASE Spend("heads") BY <1>0, <1>2 DEF BudgetInv, NoStops, Undisturbed, Spend
<1>3. CASE Spend("stops") BY <1>0, <1>3 DEF BudgetInv, NoStops, Undisturbed, Spend
<1>4. CASE Spend("crashes") BY <1>0, <1>4 DEF BudgetInv, NoStops, Undisturbed, Spend
<1>5. CASE Spend("powerLosses") BY <1>0, <1>5 DEF BudgetInv, NoStops, Undisturbed, Spend
<1>6. ASSUME NEW p \in Procs, Own(p) PROVE UNCHANGED budget BY <1>6, OwnStep DEF Frame, world
<1>7. Ends => UNCHANGED budget \/ Spend("crashes") BY EndsGone
<1>8. QED
  BY <1>1, <1>2, <1>3, <1>4, <1>5, <1>6, <1>7 DEF EmbNext, ProcNext, Own, Ends, vars, world, Supervisor, StartChild,
     EmbSyscall, Publish, Stop, PowerLoss

\* A process's own steps keep the family.
LEMMA FamilyOwn ==
    ASSUME ~Slow, TypeInv, FamilyInv, NEW p \in Procs, Own(p)
    PROVE  FamilyInv'
<1>0. Moved(p) /\ Frame(p) /\ Moves(p) /\ Parts /\ pc[p] \notin {"dead", "drain"}
  <2>1. Moved(p) /\ Frame(p) /\ Moves(p) /\ Parts BY OwnStep DEF TypeInv
  <2>2. QED BY <2>1 DEF Moved, From
<1>1. /\ child' = child /\ ctxDone' = ctxDone
      /\ \A q \in Procs \ {p} : pc'[q] = pc[q] /\ exe'[q] = exe[q]
      /\ pc'[p] \in CameUp \cup {"boot", "drain"} => exe'[p] = exe[p]
  BY <1>0 DEF Frame, Moves, Parts, CameUp, UpdatePcs, RollbackPcs
<1>2. \A q \in Procs : ready'[q] = (ready[q] \/ (pc[p] = "readyByte" /\ child[q] = p))
  <2>1. CASE pc[p] = "readyByte" BY <1>0, <2>1 DEF Frame
  <2>2. CASE pc[p] # "readyByte" BY <1>0, <2>2 DEF Frame, Parts
  <2>3. QED BY <2>1, <2>2
<1>3. pc'[p] \in CameUp => exe'[p] \notin Bad
  <2>1. pc'[p] \in CameUp => pc[p] \in CameUp \/ (pc[p] = "boot" /\ exe[p] \notin Bad)
    BY <1>0 DEF Moved, From, CameUp, UpdatePcs, RollbackPcs
  <2>2. QED BY <1>1, <2>1 DEF FamilyInv
<1>4. ASSUME NEW q \in Procs, q # p, Live(p)', Live(q)' PROVE (Hands(p, q) \/ Hands(q, p))'
  <2>1. Live(p) /\ Live(q) BY <1>0, <1>1, <1>4 DEF Live
  <2>2. CASE Hands(q, p) BY <1>1, <1>4, <2>2 DEF Hands
  <2>3. CASE Hands(p, q)
    <3>1. child[p] # None /\ pc[p] \in {"wait", "term"} BY <2>3, SelfUpdateAssumption DEF Hands
    <3>2. pc'[p] = "term" BY <1>0, <1>4, <3>1 DEF Moved, From, Live
    <3>3. QED BY <1>1, <2>3, <3>2 DEF Hands
  <2>4. QED BY <1>4, <2>1, <2>2, <2>3 DEF FamilyInv
<1>5. \A q, r \in Procs : Live(q)' /\ Live(r)' /\ q # r => (Hands(q, r) \/ Hands(r, q))'
  <2> SUFFICES ASSUME NEW q \in Procs, NEW r \in Procs, Live(q)', Live(r)', q # r PROVE (Hands(q, r) \/ Hands(r, q))'
    OBVIOUS
  <2>1. CASE q = p BY <1>4, <2>1
  <2>2. CASE r = p BY <1>4, <2>2
  <2>3. CASE q # p /\ r # p BY <1>1, <2>3 DEF FamilyInv, Live, Hands
  <2>4. QED BY <2>1, <2>2, <2>3
<1>6. Parent(p)'
  <2> SUFFICES ASSUME child[p] # None, pc'[p] \in {"wait", "term"}
               PROVE  pc'[p] = "term" /\ pc'[child[p]] = "boot" /\ exe'[child[p]] \in Bad
    BY <1>1 DEF Parent
  <2>1. pc[p] = "wait" /\ pc'[p] = "term" /\ (ctxDone[p] \/ exe[child[p]] \in Bad) BY <1>0 DEF Moved, From
  <2>2. exe[child[p]] \in Bad /\ child[p] \in Procs BY <1>0, <2>1 DEF FamilyInv, Parts
  <2>3. pc[child[p]] = "boot" BY <2>1, <2>2 DEF FamilyInv, Parent, CameUp
  <2>4. child[p] # p BY <2>1, <2>3
  <2>5. QED BY <1>1, <2>1, <2>2, <2>3, <2>4
<1>7. ASSUME NEW q \in Procs, q # p PROVE Parent(q)'
  <2> SUFFICES ASSUME child[q] # None, pc[q] \in {"wait", "term"} PROVE Parent(q)'
    BY <1>1, <1>7 DEF Parent
  <2>0. Parent(q) /\ pc'[q] = pc[q] /\ child[q] \in Procs /\ child'[q] = child[q] BY <1>0, <1>1, <1>7 DEF FamilyInv, Parts
  <2>1. CASE child[q] # p BY <1>1, <1>2, <2>0, <2>1 DEF Parent
  <2>2. CASE child[q] = p
    <3>1. CASE pc[q] = "wait" /\ ready[q]
      <4>1. pc[p] = "poll" BY <2>0, <2>2, <3>1 DEF Parent
      <4>2. InTime(p) BY <1>0, <4>1 DEF Moved, From
      <4>3. QED BY <2>2, <3>1, <4>2 DEF InTime
    <3>2. CASE pc[q] = "wait" /\ ~ready[q]
      <4>1. pc[p] \in {"boot", "readyClear", "readyByte"} BY <2>0, <2>2, <3>2 DEF Parent
      <4>2. \/ pc'[p] \in {"readyClear", "readyByte"} /\ pc[p] # "readyByte"
            \/ pc'[p] = "poll" /\ pc[p] = "readyByte"
        BY <1>0, <4>1 DEF Moved, From
      <4>3. pc'[p] = "poll" <=> ready'[q] BY <1>2, <2>2, <3>2, <4>2
      <4>4. QED BY <1>1, <2>0, <2>2, <3>2, <4>2, <4>3 DEF Parent
    <3>3. CASE pc[q] = "term"
      <4>1. pc[p] = "boot" /\ exe[p] \in Bad BY <2>0, <2>2, <3>3 DEF Parent
      <4>2. QED BY <1>0, <4>1 DEF Moved, From
    <3>4. QED BY <3>1, <3>2, <3>3
  <2>3. QED BY <2>1, <2>2
<1>8. QED BY <1>1, <1>3, <1>5, <1>6, <1>7 DEF FamilyInv

\* The end of a process keeps the family.
LEMMA FamilyGone ==
    ASSUME TypeInv, FamilyInv, NEW x \in Procs, Gone(x)
    PROVE  FamilyInv'
<1>0. Parts BY DEF TypeInv
<1>1. /\ pc'[x] = "dead" /\ \A q \in Procs \ {x} : pc'[q] = pc[q]
      /\ \A q \in Procs : child'[q] = (IF q = x \/ child[q] = x THEN None ELSE child[q])
      /\ ready' = ready /\ exe' = exe /\ ctxDone' = ctxDone
  BY <1>0 DEF Gone, Parts, local
<1>2. \A q \in Procs : pc'[q] \in CameUp => exe'[q] \notin Bad BY <1>1 DEF FamilyInv, CameUp, UpdatePcs, RollbackPcs
<1>3. ASSUME NEW q \in Procs PROVE Parent(q)'
  <2>1. CASE child'[q] = None BY <2>1 DEF Parent
  <2>2. CASE child'[q] # None
    <3>1. q # x /\ child'[q] = child[q] /\ child[q] # x /\ child[q] \in Procs BY <1>0, <1>1, <2>2 DEF Parts
    <3>2. Parent(q) BY DEF FamilyInv
    <3>3. QED BY <1>1, <3>1, <3>2 DEF Parent
  <2>3. QED BY <2>1, <2>2
<1>4. ASSUME NEW q \in Procs, NEW r \in Procs, Live(q)', Live(r)', q # r PROVE (Hands(q, r) \/ Hands(r, q))'
  <2>1. q # x /\ r # x BY <1>1, <1>4 DEF Live
  <2>2. Hands(q, r) \/ Hands(r, q) BY <1>1, <1>4, <2>1 DEF FamilyInv, Live
  <2>3. QED BY <1>1, <2>1, <2>2 DEF Hands
<1>5. QED BY <1>1, <1>2, <1>3, <1>4 DEF FamilyInv

\* A process about to start a child is the only one that is neither dead nor
\* draining.
LEMMA Alone ==
    ASSUME FamilyInv, NEW p \in Procs, pc[p] = "handoff"
    PROVE  \A q \in Procs \ {p} : pc[q] \in {"dead", "drain"}
<1> SUFFICES ASSUME NEW q \in Procs, q # p, Live(q) PROVE FALSE
  BY DEF Live
<1>1. Live(p) BY DEF Live
<1>2. Hands(q, p) BY <1>1 DEF FamilyInv, Hands
<1>3. p # None BY SelfUpdateAssumption
<1>4. Parent(q) BY DEF FamilyInv
<1>5. QED BY <1>2, <1>3, <1>4 DEF Parent, Hands

\* A new process keeps the family.
LEMMA FamilyStart ==
    ASSUME TypeInv, FamilyInv, Supervisor \/ \E p \in Procs : StartChild(p)
    PROVE  FamilyInv'
<1>0. Parts BY DEF TypeInv
<1>1. ASSUME NEW p \in Procs, NEW c \in Procs, Launch(c), pc[p] = "handoff",
             pc' = [pc EXCEPT ![p] = "wait", ![c] = "boot"],
             child' = [child EXCEPT ![p] = c], ready' = [ready EXCEPT ![p] = FALSE, ![c] = FALSE]
      PROVE  FamilyInv'
  <2>0. p # c /\ c # None /\ pc[c] = "dead" BY <1>1, SelfUpdateAssumption DEF Launch
  <2>1. /\ pc'[p] = "wait" /\ pc'[c] = "boot" /\ \A q \in Procs \ {p, c} : pc'[q] \in {"dead", "drain"}
    <3>1. \A q \in Procs \ {p} : pc[q] \in {"dead", "drain"} BY <1>1, Alone
    <3>2. QED BY <1>0, <1>1, <2>0, <3>1 DEF Parts
  <2>2. child'[p] = c /\ child'[c] = None /\ ready'[p] = FALSE
    <3>1. child[c] = None BY <2>0 DEF TypeInv, Dead
    <3>2. QED BY <1>0, <1>1, <2>0, <3>1 DEF Parts
  <2>3. exe'[p] \notin Bad /\ \A q \in Procs : ~ctxDone'[q]
    <3>1. exe'[p] = exe[p] /\ \A q \in Procs : ctxDone'[q] \in {FALSE, ctxDone[q]} BY <1>0, <1>1, <2>0 DEF Launch, Parts
    <3>2. exe[p] \notin Bad BY <1>1 DEF FamilyInv, CameUp, UpdatePcs
    <3>3. QED BY <3>1, <3>2 DEF FamilyInv
  <2>4. ASSUME NEW q \in Procs PROVE Parent(q)' /\ (pc'[q] \in CameUp => exe'[q] \notin Bad)
    <3>1. CASE q = p BY <2>1, <2>2, <2>3, <3>1 DEF Parent
    <3>2. CASE q # p BY <2>1, <2>2, <3>2 DEF Parent, CameUp, UpdatePcs, RollbackPcs
    <3>3. QED BY <3>1, <3>2
  <2>5. ASSUME NEW q \in Procs, NEW r \in Procs, Live(q)', Live(r)', q # r PROVE (Hands(q, r) \/ Hands(r, q))'
    BY <2>1, <2>2, <2>5 DEF Live, Hands
  <2>6. QED BY <2>3, <2>4, <2>5 DEF FamilyInv
<1>2. ASSUME NEW c \in Procs, Launch(c), \A q \in Procs : pc[q] = "dead", pc' = [pc EXCEPT ![c] = "check"]
      PROVE  FamilyInv'
  <2>1. \A q \in Procs : pc'[q] \in {"check", "dead"} /\ (pc'[q] = "check" <=> q = c) BY <1>0, <1>2 DEF Parts
  <2>2. \A q \in Procs : ~ctxDone'[q]
    <3>1. \A q \in Procs : ctxDone'[q] \in {FALSE, ctxDone[q]} BY <1>0, <1>2 DEF Launch, Parts
    <3>2. QED BY <3>1 DEF FamilyInv
  <2>3. ASSUME NEW q \in Procs PROVE Parent(q)' /\ (pc'[q] \in CameUp => exe'[q] \notin Bad)
    BY <2>1 DEF Parent, CameUp, UpdatePcs, RollbackPcs
  <2>4. ASSUME NEW q \in Procs, NEW r \in Procs, Live(q)', Live(r)', q # r PROVE FALSE
    BY <2>1, <2>4 DEF Live
  <2>5. QED BY <2>2, <2>3, <2>4 DEF FamilyInv
<1>3. QED BY <1>1, <1>2 DEF Supervisor, StartChild

\* The family holds together as long as nobody was stopped.
LEMMA FamilyStep ==
    ASSUME ~Slow, TypeInv, BudgetInv, NoStops => FamilyInv, [EmbNext]_vars
    PROVE  NoStops' => FamilyInv'
<1> SUFFICES ASSUME FamilyInv, NoStops, ~Spend("stops") PROVE FamilyInv'
  BY BudgetStep
<1>1. CASE UNCHANGED <<pc, exe, child, ready, ctxDone>>
  BY <1>1 DEF FamilyInv, Parent, Live, Hands
<1>2. CASE UNCHANGED vars BY <1>1, <1>2 DEF vars, procVars
<1>3. ASSUME NEW p \in Procs, Own(p) PROVE FamilyInv' BY <1>3, FamilyOwn
<1>4. CASE Ends BY <1>4, EndsGone, FamilyGone
<1>5. CASE Supervisor \/ \E p \in Procs : StartChild(p) BY <1>5, FamilyStart
<1>6. CASE Publish BY <1>1, <1>6 DEF Publish, procVars
<1>7. ASSUME NEW p \in Procs, EmbSyscall(p) PROVE FamilyInv' BY <1>1, <1>7 DEF EmbSyscall, procVars
<1>8. CASE PowerLoss
  <2>1. (\A q \in Procs : pc'[q] = "dead" /\ child'[q] = None) /\ ctxDone' = ctxDone BY <1>8 DEF PowerLoss, local
  <2>2. QED BY <2>1 DEF FamilyInv, Parent, Live, CameUp, UpdatePcs, RollbackPcs
<1>9. ASSUME NEW p \in Procs, Stop(p) PROVE FALSE BY <1>9 DEF Stop
<1>10. QED BY <1>2, <1>3, <1>4, <1>5, <1>6, <1>7, <1>8, <1>9 DEF EmbNext, ProcNext, Own, Ends

\* No process runs at first, and nobody was stopped.
LEMMA FamilyInit == EmbInit => FamilyInv /\ BudgetInv
<1> SUFFICES ASSUME EmbInit PROVE FamilyInv /\ BudgetInv
  OBVIOUS
<1>1. \A q \in Procs : pc[q] = "dead" /\ child[q] = None /\ ctxDone[q] = FALSE BY DEF EmbInit
<1>2. FamilyInv BY <1>1 DEF FamilyInv, Parent, Live, CameUp, UpdatePcs, RollbackPcs
<1>3. BudgetInv BY SelfUpdateAssumption DEF EmbInit, BudgetInv
<1>4. QED BY <1>2, <1>3

(***************************************************************************)
(* README guarantee 8: at most one process of a target is in an update,    *)
(* across the processes of a handoff, their crashes and power losses, for  *)
(* handoffs whose two ends do not miss each other and contexts that are    *)
(* not cancelled.                                                          *)
(***************************************************************************)
THEOREM UpdatesSerialised ==
    ASSUME ~Slow, MaxStops = 0
    PROVE  EmbSpec => []OneUpdate
<1>1. EmbInit => TypeInv /\ BudgetInv /\ (NoStops => FamilyInv) BY TypeInvInit, FamilyInit
<1>2. TypeInv /\ BudgetInv /\ (NoStops => FamilyInv) /\ [EmbNext]_vars
        => (TypeInv /\ BudgetInv /\ (NoStops => FamilyInv))'
  BY TypeInvStep, BudgetStep, FamilyStep
<1>3. TypeInv /\ BudgetInv /\ (NoStops => FamilyInv) => OneUpdate
  <2> SUFFICES ASSUME TypeInv, BudgetInv, NoStops => FamilyInv, NEW p \in Procs, NEW q \in Procs,
                      pc[p] \in UpdatePcs, pc[q] \in UpdatePcs, p # q
               PROVE  FALSE
    BY DEF OneUpdate, Updating
  <2>1. NoStops BY DEF TypeInv, Parts, BudgetInv, NoStops
  <2>2. Live(p) /\ Live(q) BY DEF Live, UpdatePcs, RollbackPcs
  <2>3. Hands(p, q) \/ Hands(q, p) BY <2>1, <2>2 DEF FamilyInv
  <2>4. p # None /\ q # None /\ Parent(p) /\ Parent(q) BY <2>1, SelfUpdateAssumption DEF FamilyInv
  <2>5. CASE Hands(p, q) BY <2>4, <2>5 DEF Hands, Parent, UpdatePcs, RollbackPcs
  <2>6. CASE Hands(q, p) BY <2>4, <2>6 DEF Hands, Parent, UpdatePcs, RollbackPcs
  <2>7. QED BY <2>3, <2>5, <2>6
<1>4. QED BY <1>1, <1>2, <1>3, PTL DEF EmbSpec

-----------------------------------------------------------------------------
(***************************************************************************)
(* Continuous service.                                                     *)
(***************************************************************************)
\* Undisturbed, only what does not serve ends: a draining process, a release
\* that does not come up, and a child whose parent gave it up.
LEMMA EndsIdle ==
    ASSUME TypeInv, FamilyInv, Ends, ~Spend("crashes")
    PROVE  \E x \in Procs : Gone(x) /\ pc[x] \in {"drain", "boot"}
<1>1. PICK x \in Procs :
        /\ Gone(x)
        /\ \/ \E q \in Procs : pc[q] = "term" /\ child[q] = x
           \/ pc[x] = "drain" \/ pc[x] = "boot" \/ ctxDone[x]
  BY EndsGone
<1>2. ASSUME NEW q \in Procs, pc[q] = "term", child[q] = x PROVE pc[x] = "boot"
  BY <1>2, SelfUpdateAssumption DEF FamilyInv, Parent
<1>3. QED BY <1>1, <1>2 DEF FamilyInv

\* A parent that has its byte has a child that serves.
LEMMA ServedStep ==
    ASSUME ~Slow, TypeInv, BudgetInv, NoStops => FamilyInv, ServedInv, [EmbNext]_vars, Undisturbed'
    PROVE  ServedInv' /\ (Served => Served')
<1>0. /\ Undisturbed /\ FamilyInv /\ Parts /\ ~Spend("stops") /\ ~Spend("crashes") /\ ~Spend("powerLosses")
      /\ \A p \in Procs : pc[p] = "wait" /\ ready[p] => child[p] # None
  BY BudgetStep DEF Undisturbed, NoStops, TypeInv, ServedInv
<1> SUFFICES /\ \A p \in Procs : pc'[p] = "wait" /\ ready'[p] => child'[p] # None
             /\ (\E s \in Procs : Serving(s)) => \E r \in Procs : Serving(r)'
  BY DEF ServedInv, Served
<1> USE DEF Serving, UpdatePcs, RollbackPcs
<1>1. CASE UNCHANGED <<pc, child, ready>> BY <1>0, <1>1
<1>2. ASSUME NEW p \in Procs, Own(p)
      PROVE  /\ \A q \in Procs : pc'[q] = "wait" /\ ready'[q] => child'[q] # None
             /\ (\E s \in Procs : Serving(s)) => \E r \in Procs : Serving(r)'
  <2>0. Moved(p) /\ Frame(p) /\ Moves(p) BY <1>2, OwnStep
  <2>1. child' = child /\ pc'[p] # "wait" /\ \A q \in Procs \ {p} : pc'[q] = pc[q]
    <3>1. pc'[p] # "wait" BY <2>0 DEF Moved, From
    <3>2. QED BY <1>0, <2>0, <3>1 DEF Frame, Moves, Parts
  <2>2. ASSUME NEW q \in Procs, pc'[q] = "wait", ready'[q] PROVE child'[q] # None
    <3>1. pc[q] = "wait" /\ q # p BY <2>1, <2>2
    <3>2. CASE ready' = ready BY <1>0, <2>1, <2>2, <3>1, <3>2
    <3>3. CASE ready' = [r \in Procs |-> ready[r] \/ child[r] = p]
      <4>1. ready[q] \/ child[q] = p BY <2>2, <3>3
      <4>2. QED BY <1>0, <2>1, <3>1, <4>1, SelfUpdateAssumption
    <3>4. QED BY <2>0, <3>2, <3>3 DEF Frame
  <2>3. ASSUME NEW s \in Procs, Serving(s) PROVE \E r \in Procs : Serving(r)'
    <3>1. CASE s # p BY <2>1, <2>3, <3>1
    <3>2. CASE s = p /\ pc'[p] # "drain"
      <4>1. Serving(p)' BY <2>0, <2>3, <3>2 DEF Moved, From
      <4>2. QED BY <4>1
    <3>3. CASE s = p /\ pc'[p] = "drain"
      <4>1. pc[p] = "wait" /\ ready[p] BY <2>0, <3>3 DEF Moved, From
      <4>2. child[p] \in Procs /\ pc[child[p]] = "poll" BY <1>0, <4>1 DEF FamilyInv, Parent, Parts
      <4>3. pc'[child[p]] = "poll" BY <2>1, <4>1, <4>2
      <4>4. QED BY <4>2, <4>3
    <3>4. QED BY <3>1, <3>2, <3>3
  <2>4. QED BY <2>2, <2>3
<1>3. CASE Ends
  <2>1. PICK x \in Procs : Gone(x) /\ pc[x] \in {"drain", "boot"} BY <1>0, <1>3, EndsIdle
  <2>2. /\ pc'[x] = "dead" /\ ready' = ready /\ \A q \in Procs \ {x} : pc'[q] = pc[q]
        /\ \A q \in Procs : child'[q] = (IF q = x \/ child[q] = x THEN None ELSE child[q])
    BY <1>0, <2>1 DEF Gone, Parts
  <2>3. ASSUME NEW q \in Procs, pc'[q] = "wait", ready'[q] PROVE child'[q] # None
    <3>1. q # x /\ pc[q] = "wait" /\ ready[q] BY <2>2, <2>3
    <3>2. child[q] # None /\ pc[child[q]] = "poll" BY <1>0, <3>1 DEF FamilyInv, Parent
    <3>3. QED BY <2>1, <2>2, <3>1, <3>2
  <2>4. ASSUME NEW s \in Procs, Serving(s) PROVE \E r \in Procs : Serving(r)'
    <3>1. s # x BY <2>1, <2>4
    <3>2. QED BY <2>2, <2>4, <3>1
  <2>5. QED BY <2>3, <2>4
<1>4. ASSUME NEW p \in Procs, NEW c \in Procs, Launch(c), pc[p] = "handoff",
             pc' = [pc EXCEPT ![p] = "wait", ![c] = "boot"],
             child' = [child EXCEPT ![p] = c], ready' = [ready EXCEPT ![p] = FALSE, ![c] = FALSE]
      PROVE  /\ \A q \in Procs : pc'[q] = "wait" /\ ready'[q] => child'[q] # None
             /\ (\E s \in Procs : Serving(s)) => \E r \in Procs : Serving(r)'
  <2>0. p # c BY <1>4 DEF Launch
  <2>1. /\ pc'[p] = "wait" /\ pc'[c] = "boot" /\ ready'[p] = FALSE
        /\ \A q \in Procs \ {p, c} : pc'[q] = pc[q] /\ ready'[q] = ready[q] /\ child'[q] = child[q]
    BY <1>0, <1>4, <2>0 DEF Parts
  <2>2. ASSUME NEW q \in Procs, pc'[q] = "wait", ready'[q] PROVE child'[q] # None BY <1>0, <2>1, <2>2
  <2>3. Serving(p)' BY <2>1
  <2>4. QED BY <2>2, <2>3
<1>5. CASE Supervisor
  <2>1. PICK c \in Procs : pc' = [pc EXCEPT ![c] = "check"] BY <1>5 DEF Supervisor
  <2>2. \A q \in Procs : pc[q] = "dead" /\ pc'[q] \in {"check", "dead"} BY <1>0, <1>5, <2>1 DEF Supervisor, Parts
  <2>3. QED BY <2>2
<1>6. CASE UNCHANGED vars BY <1>1, <1>6 DEF vars, procVars
<1>7. CASE Publish BY <1>1, <1>7 DEF Publish, procVars
<1>8. ASSUME NEW p \in Procs, EmbSyscall(p) \/ Stop(p)
      PROVE  UNCHANGED <<pc, child, ready>>
  BY <1>8 DEF EmbSyscall, Stop, procVars
<1>9. CASE PowerLoss BY <1>0, <1>9 DEF PowerLoss
<1>10. CASE \E p \in Procs : StartChild(p) BY <1>4, <1>10 DEF StartChild
<1>11. QED BY <1>1, <1>2, <1>3, <1>5, <1>6, <1>7, <1>8, <1>9, <1>10 DEF EmbNext, ProcNext, Own, Ends

(***************************************************************************)
(* README guarantee 6: once a process has called Ready() one that has      *)
(* keeps accepting, through any number of updates, good and bad, until     *)
(* something outside stops or kills a process.                             *)
(***************************************************************************)
THEOREM AlwaysStaysServed ==
    ASSUME ~Slow
    PROVE  EmbSpec => StaysServed
<1> DEFINE J == TypeInv /\ BudgetInv /\ (NoStops => FamilyInv) /\ ServedInv
<1>1. EmbInit => J
  <2>1. EmbInit => ServedInv BY DEF EmbInit, ServedInv
  <2>2. QED BY <2>1, TypeInvInit, FamilyInit
<1>2. J /\ [EmbNext]_vars => J'
  <2>1. J /\ [EmbNext]_vars => ServedInv' BY ServedStep DEF ServedInv
  <2>2. QED BY <2>1, TypeInvStep, BudgetStep, FamilyStep
<1>3. J /\ [EmbNext]_vars => (Served /\ Undisturbed' => Served') BY ServedStep
<1>4. QED BY <1>1, <1>2, <1>3, PTL DEF EmbSpec, StaysServed

-----------------------------------------------------------------------------
(***************************************************************************)
(* The files.                                                              *)
(***************************************************************************)
\* What a process can count on stays when others move and releases come up.
LEMMA FilesStay ==
    ASSUME NEW q \in Procs, Files(q), fs' = fs, confirmed \subseteq confirmed',
           pc'[q] = pc[q] \/ (pc'[q] = "wait" /\ pc[q] = "handoff"), call'[q] = call[q], exe'[q] = exe[q]
    PROVE  Files(q)'
<1>1. (Home(q) => Home(q)') /\ (Trial(q) => Trial(q)') BY DEF Home, Trial
<1>2. InstallFiles(q) => InstallFiles(q)' BY <1>1 DEF InstallFiles
<1>3. QED BY <1>1, <1>2 DEF Files

\* An image with nothing to go back to has a release that came up.
LEMMA NothingKept ==
    ASSUME TypeInv, FilesInv, fs.old = None
    PROVE  fs.path \in confirmed
<1>1. None \notin confirmed BY ValuesDistinct DEF TypeInv, Parts, Contents
<1>2. QED BY <1>1 DEF FilesInv, EmbRecoverable

\* A process's own steps.
LEMMA FilesOwn ==
    ASSUME TypeInv, FilesInv, NEW p \in Procs, Own(p)
    PROVE  FilesInv'
<1>0. Moved(p) /\ Frame(p) /\ Moves(p) /\ Parts /\ Files(p) BY OwnStep DEF TypeInv, FilesInv
<1>1. /\ fs' = fs /\ disk' = disk /\ confirmed \subseteq confirmed'
      /\ \A q \in Procs \ {p} : pc'[q] = pc[q] /\ call'[q] = call[q] /\ exe'[q] = exe[q]
      /\ pc[p] # "chkRevert" => exe'[p] = exe[p]
      /\ pc[p] = "boot" => exe[p] \in confirmed'
  BY <1>0 DEF Frame, Moves, Parts, TypeInv, InstInv, InstTypeOK
<1>2. OldConfirmed' /\ EmbRecoverable' BY <1>1 DEF FilesInv, OldConfirmed, EmbRecoverable
<1>3. \A q \in Procs \ {p} : Files(q)' BY <1>1, FilesStay DEF FilesInv
<1>h. (Home(p) /\ exe'[p] = exe[p] => Home(p)') /\ (Trial(p) /\ exe'[p] = exe[p] => Trial(p)') BY <1>1 DEF Home, Trial
<1>4. Files(p)'
  <2>1. CASE pc[p] = "check"
    <3>1. fs.path = exe[p] BY <1>0, <2>1 DEF Files
    <3>2. fs.old = None => Home(p) BY <3>1, NothingKept DEF Home
    <3>3. QED BY <1>0, <1>1, <1>h, <2>1, <3>1, <3>2 DEF Moved, From, Files
  <2>2. CASE pc[p] \in {"chkClear", "chkMark"} BY <1>0, <1>1, <1>h, <2>2 DEF Moved, From, Files, Home
  <2>3. CASE pc[p] = "chkRevert" BY <1>0, <1>1, <2>3 DEF Moved, From, Files, At
  <2>4. CASE pc[p] = "boot"
    <3>1. pc'[p] = "readyClear" /\ Home(p)' BY <1>0, <1>1, <2>4 DEF Moved, From, Files, Home
    <3>2. QED BY <3>1 DEF Files
  <2>5. CASE pc[p] \in {"readyClear", "readyByte", "poll", "skip"}
    <3>1. Home(p)' BY <1>0, <1>1, <1>h, <2>5 DEF Files
    <3>2. pc'[p] \in {"readyByte", "poll", "skip"} \/ (pc'[p] = "install" /\ call'[p].step = "stage")
      BY <1>0, <2>5 DEF Moved, From
    <3>3. QED BY <3>1, <3>2 DEF Files, InstallFiles
  <2>6. CASE pc[p] = "install"
    <3>1. \/ pc'[p] = "poll" /\ Home(p)
          \/ pc'[p] \in {"handoff", "agMark"} /\ Trial(p)
      BY <1>0, <2>6 DEF Moved, From, Files, InstallFiles, At
    <3>2. QED BY <1>1, <1>h, <2>6, <3>1 DEF Files
  <2>7. CASE pc[p] \in {"handoff", "wait", "term", "rbMark"}
    <3>1. Trial(p)' BY <1>0, <1>1, <1>h, <2>7 DEF Files
    <3>2. pc'[p] \in {"rbMark", "term", "drain"} \/ (pc'[p] = "rbRevert" /\ call'[p].step = "renameOld")
      BY <1>0, <2>7 DEF Moved, From
    <3>3. QED BY <3>1, <3>2 DEF Files
  <2>8. CASE pc[p] = "agMark"
    <3>1. Trial(p) BY <1>0, <2>8 DEF Files
    <3>2. \/ pc'[p] = "poll" /\ fs.old = None
          \/ pc'[p] = "agRevert" /\ call'[p].step = "renameOld"
      BY <1>0, <2>8 DEF Moved, From
    <3>3. fs.old = None => Home(p)
      <4>1. None \notin confirmed BY ValuesDistinct DEF TypeInv, Parts, Contents
      <4>2. QED BY <3>1, <4>1 DEF Trial
    <3>4. QED BY <1>1, <1>h, <2>8, <3>1, <3>2, <3>3 DEF Files
  <2>9. CASE pc[p] \in {"rbRevert", "agRevert"}
    <3>1. pc'[p] \in {"agMark", "poll", "handoff"} /\ At(p, "done") BY <1>0, <2>9 DEF Moved, From
    <3>2. fs.old = None /\ Home(p) BY <1>0, <2>9, <3>1 DEF Files, At
    <3>3. Trial(p) BY <3>2 DEF Trial
    <3>4. QED BY <1>1, <1>h, <2>9, <3>1, <3>2, <3>3 DEF Files
  <2>10. QED BY <1>0, <2>1, <2>2, <2>3, <2>4, <2>5, <2>6, <2>7, <2>8, <2>9 DEF Moved, From
<1>5. QED BY <1>2, <1>3, <1>4 DEF FilesInv

\* The end and the start of a process leave the files alone.
LEMMA FilesProcs ==
    ASSUME TypeInv, FilesInv, Ends \/ Supervisor \/ \E p \in Procs : StartChild(p)
    PROVE  FilesInv'
<1>0. Parts BY DEF TypeInv
<1>1. ASSUME NEW x \in Procs, Gone(x), confirmed' = confirmed PROVE FilesInv'
  <2>1. /\ fs' = fs /\ disk' = disk /\ pc'[x] = "dead" /\ exe' = exe
        /\ \A q \in Procs \ {x} : pc'[q] = pc[q] /\ call'[q] = call[q]
    BY <1>0, <1>1 DEF Gone, NoWrite, Parts, TypeInv, InstInv, InstTypeOK
  <2>2. Files(x)' BY <2>1 DEF Files
  <2>3. \A q \in Procs \ {x} : Files(q)' BY <1>1, <2>1, FilesStay DEF FilesInv
  <2>4. QED BY <1>1, <2>1, <2>2, <2>3 DEF FilesInv, OldConfirmed, EmbRecoverable
<1>2. ASSUME NEW c \in Procs, Launch(c), pc'[c] \in {"check", "boot"}, UNCHANGED <<fs, disk, call, confirmed>>,
             \A q \in Procs \ {c} : pc'[q] = pc[q] \/ (pc'[q] = "wait" /\ pc[q] = "handoff")
      PROVE  FilesInv'
  <2>1. exe'[c] = fs.path /\ \A q \in Procs \ {c} : exe'[q] = exe[q] BY <1>0, <1>2 DEF Launch, Parts
  <2>2. Files(c)' BY <1>2, <2>1 DEF Files
  <2>3. ASSUME NEW q \in Procs, q # c PROVE Files(q)'
    BY <1>2, <2>1, <2>3, FilesStay DEF FilesInv
  <2>4. QED BY <1>2, <2>2, <2>3 DEF FilesInv, OldConfirmed, EmbRecoverable
<1>3. CASE Ends BY <1>1, <1>3, EndsGone
<1>4. CASE Supervisor
  <2>1. PICK c \in Procs : Launch(c) /\ pc' = [pc EXCEPT ![c] = "check"] BY <1>4 DEF Supervisor
  <2>2. pc'[c] = "check" /\ \A q \in Procs \ {c} : pc'[q] = pc[q] BY <1>0, <2>1 DEF Parts
  <2>3. QED BY <1>2, <1>4, <2>1, <2>2 DEF Supervisor, instVars
<1>5. ASSUME NEW p \in Procs, StartChild(p) PROVE FilesInv'
  <2>1. PICK c \in Procs : Launch(c) /\ pc' = [pc EXCEPT ![p] = "wait", ![c] = "boot"] /\ pc[p] = "handoff"
    BY <1>5 DEF StartChild
  <2>2. p # c BY <2>1 DEF Launch
  <2>3. /\ pc'[c] = "boot" /\ pc'[p] = "wait" /\ \A q \in Procs \ {p, c} : pc'[q] = pc[q]
    BY <1>0, <2>1, <2>2 DEF Parts
  <2>4. QED BY <1>2, <1>5, <2>1, <2>3 DEF StartChild, instVars
<1>6. QED BY <1>3, <1>4, <1>5

\* What one system call does to the names the files' invariant speaks of.
Kept == fs'.path = fs.path /\ fs'.old = fs.old /\ fs'.linked = fs.linked

Wrote(p) ==
    LET s == call[p].step
        t == call'[p].step
        failed == t = "done" /\ ~call'[p].ok
    IN
    \/ s \in Faults /\ fs' = fs /\ (failed \/ (s = "renameNew" /\ t = "unmark"))
    \/ s = "stage" /\ fs' = fs /\ (t = "removeOld" \/ failed)
    \/ s = "removeOld" /\ t = "linkOld" /\ fs'.path = fs.path /\ fs'.old = None
    \/ s = "linkOld" /\ t = "truncPending" /\ fs'.path = fs.path /\ fs'.old = fs.path
    \/ s = "linkOld" /\ failed /\ fs' = fs
    \/ s = "truncPending" /\ t = "writePending" /\ Kept /\ fs'.pending # None
    \/ s = "writePending" /\ (t = "renameNew" \/ failed) /\ Kept /\ fs'.pending # None
    \/ s = "renameNew" /\ t = "syncInstall" /\ fs'.old = fs.old /\ ~fs'.linked /\ fs'.pending = fs.pending
    \/ s = "unmark" /\ failed /\ Kept
    \/ s = "renameOld" /\ fs' = fs /\ fs.old = None /\ (t = "removePending" \/ failed)
    \/ s = "renameOld" /\ fs' = fs /\ fs.old # None /\ fs.linked /\ t = "removePending"
    \/ s = "renameOld" /\ fs.old # None /\ ~fs.linked /\ fs'.path = fs.old /\ fs'.old = None /\ t = "removePending"
    \/ s = "removePending" /\ t = "syncRevert" /\ Kept
    \/ s = "clearPending" /\ t = "syncClear" /\ Kept
    \/ s \in {"syncInstall", "syncRevert", "syncClear"} /\ t = "done" /\ call'[p].ok /\ fs' = fs
    \/ s = "truncFailed" /\ t = "writeFailed" /\ Kept /\ fs'.pending = fs.pending
    \/ s \in {"writeFailed", "clearFailed"} /\ t = "done" /\ Kept /\ fs'.pending = fs.pending

\* Every system call is one of these.
LEMMA SyscallWrote ==
    ASSUME InstInv, NEW p \in Procs, Syscall(p)
    PROVE  Wrote(p)
<1> USE ValuesDistinct
<1>0. /\ call \in [Procs -> Call] /\ call[p] \in Call /\ fs \in Image /\ fs.path \in Releases /\ fs.path # None
      /\ call[p].step \in InstallSteps => call[p].want \in Releases /\ call[p].want # None
  BY DEF InstInv, InstTypeOK, WholeReleaseAtPath, CallsVerified, Contents
<1>1. ASSUME NEW s, Goto(p, s) PROVE call'[p].step = s BY <1>0, <1>1 DEF Goto, Call
<1>2. ASSUME NEW ok, Done(p, ok) PROVE call'[p].step = "done" /\ call'[p].ok = ok BY <1>0, <1>2 DEF Done, Call
<1>3. CASE Stage(p) \/ SyscallFails(p) \/ SyncDir(p)
  BY <1>1, <1>2, <1>3 DEF Stage, SyscallFails, SyncDir, NoWrite, Sync, At, Wrote
<1>4. CASE RemoveOld(p) BY <1>0, <1>1, <1>4 DEF RemoveOld, Write, At, Image, Wrote
<1>5. CASE LinkOld(p)
  <2>1. CASE Done(p, FALSE) /\ NoWrite BY <1>2, <1>5, <2>1 DEF LinkOld, NoWrite, At, Wrote
  <2>2. CASE Goto(p, "truncPending") /\ Write([fs EXCEPT !.old = fs.path, !.linked = TRUE])
    BY <1>0, <1>1, <1>5, <2>2 DEF LinkOld, Write, At, Image, Wrote
  <2>3. QED BY <1>0, <1>5, <2>1, <2>2 DEF LinkOld
<1>6. CASE TruncPending(p) BY <1>0, <1>1, <1>6 DEF TruncPending, Write, At, Image, Wrote, Kept
<1>7. CASE WritePending(p) BY <1>0, <1>1, <1>7 DEF WritePending, Write, At, Image, Wrote, Kept, InstallSteps
<1>8. CASE RenameNew(p) BY <1>0, <1>1, <1>8 DEF RenameNew, Write, At, Image, Wrote
<1>9. CASE Unmark(p) BY <1>0, <1>2, <1>9 DEF Unmark, Write, At, Image, Wrote, Kept
<1>10. CASE RenameOld(p)
  <2>1. CASE NoWrite /\ (fs.old = None \/ fs.linked) BY <1>1, <1>2, <1>10, <2>1 DEF RenameOld, NoWrite, At, Wrote
  <2>2. CASE Goto(p, "removePending") /\ Write([fs EXCEPT !.path = fs.old, !.old = None]) /\ fs.old # None /\ ~fs.linked
    BY <1>0, <1>1, <1>10, <2>2 DEF RenameOld, Write, At, Image, Wrote
  <2>3. QED BY <1>10, <2>1, <2>2 DEF RenameOld
<1>11. CASE RemovePending(p) BY <1>0, <1>1, <1>11 DEF RemovePending, Write, At, Image, Wrote, Kept
<1>12. CASE TruncFailed(p) BY <1>0, <1>1, <1>12 DEF TruncFailed, Write, At, Image, Wrote, Kept
<1>13. CASE WriteFailed(p) \/ RemoveFailed(p)
  BY <1>0, <1>2, <1>13 DEF WriteFailed, RemoveFailed, Write, At, Image, Wrote, Kept
<1>14. CASE WriteSyncFails(p)
  BY <1>0, <1>2, <1>14 DEF WriteSyncFails, Write, At, Image, Wrote, Kept, InstallSteps
<1>15. QED
  BY <1>3, <1>4, <1>5, <1>6, <1>7, <1>8, <1>9, <1>10, <1>11, <1>12, <1>13, <1>14 DEF Syscall

\* The process that makes a system call finds the files as it left them.
LEMMA FilesCaller ==
    ASSUME TypeInv, FilesInv, UndoWorks, NEW p \in Procs, EmbSyscall(p)
    PROVE  /\ Files(p)' /\ fs'.old \in confirmed \cup {None}
           /\ fs'.path \in confirmed \/ (fs'.pending # None /\ fs'.old \in confirmed /\ ~fs'.linked)
<1> USE DEF InstallSteps, RevertSteps, ClearPendingSteps, MarkFailedSteps, ClearFailedSteps
<1>0. /\ Syscall(p) /\ InstInv /\ CallOf(p) /\ Files(p) /\ pc[p] \in ProcPcs
      /\ UNCHANGED <<pc, exe, confirmed>>
      /\ fs.linked => fs.old = fs.path
  BY DEF EmbSyscall, procVars, TypeInv, Parts, Placed, FilesInv, InstInv, InstTypeOK
<1>1. /\ Wrote(p) /\ call[p].step \in Steps
  BY <1>0, SyscallWrote, SyscallCall DEF InstInv
<1>2. /\ fs.old \in confirmed \cup {None} /\ None \notin confirmed
      /\ fs.path \in confirmed \/ (fs.pending # None /\ fs.old \in confirmed /\ ~fs.linked)
  BY ValuesDistinct DEF FilesInv, OldConfirmed, EmbRecoverable, TypeInv, Parts, Contents
<1>3. call[p].step \notin {"idle", "done"} BY <1>1, StepNames
<1>u. call[p].step \in Faults => call[p].step \notin {"renameOld", "removePending", "syncRevert", "syncInstall"}
  BY DEF UndoWorks
<1> DEFINE G == /\ Files(p)' /\ fs'.old \in confirmed \cup {None}
                /\ fs'.path \in confirmed \/ (fs'.pending # None /\ fs'.old \in confirmed /\ ~fs'.linked)
<1>4. CASE pc[p] = "install"
  <2>1. InstallFiles(p) /\ call[p].step \in InstallSteps BY <1>0, <1>3, <1>4 DEF Files, CallOf
  <2>2. CASE call[p].step = "syncInstall"
    <3>1. Trial(p) /\ fs' = fs /\ call'[p].step = "done" /\ call'[p].ok BY <1>1, <1>u, <2>1, <2>2 DEF InstallFiles, Wrote
    <3>2. Trial(p)' BY <1>0, <3>1 DEF Trial, Home
    <3>3. QED BY <1>0, <1>2, <1>4, <3>1, <3>2 DEF Files, InstallFiles
  <2>3. CASE call[p].step = "renameNew" /\ call'[p].step = "syncInstall"
    <3>1. fs'.old = exe[p] /\ exe[p] \in confirmed /\ ~fs'.linked /\ fs'.pending # None
      BY <1>1, <2>1, <2>3 DEF InstallFiles, Wrote, Home
    <3>2. Trial(p)' BY <1>0, <3>1 DEF Trial
    <3>3. QED BY <1>0, <1>4, <2>3, <3>1, <3>2 DEF Files, InstallFiles
  <2>4. CASE call[p].step # "syncInstall" /\ ~(call[p].step = "renameNew" /\ call'[p].step = "syncInstall")
    <3>0. fs.path = exe[p] /\ exe[p] \in confirmed BY <2>1, <2>4 DEF InstallFiles, Home
    <3>1. /\ fs'.path = fs.path /\ fs'.old \in {fs.old, None, fs.path}
          /\ \/ call'[p].step = "done" /\ ~call'[p].ok
             \/ call'[p].step \in {"removeOld", "linkOld", "unmark"}
             \/ call'[p].step = "truncPending" /\ fs'.old = exe[p]
             \/ call'[p].step \in {"writePending", "renameNew"} /\ fs'.old = exe[p] /\ fs'.pending # None
      BY <1>1, <2>1, <2>4, <3>0 DEF InstallFiles, Wrote, Kept
    <3>2. Home(p)' BY <1>0, <3>0, <3>1 DEF Home
    <3>3. QED BY <1>0, <1>2, <1>4, <3>0, <3>1, <3>2 DEF Files, InstallFiles
  <2>5. QED BY <2>2, <2>3, <2>4
<1>5. CASE pc[p] \in {"chkClear", "readyClear", "skip"}
  <2>1. Home(p) /\ Kept BY <1>0, <1>1, <1>3, <1>5 DEF Files, CallOf, Wrote, Kept
  <2>2. Home(p)' BY <1>0, <2>1 DEF Home, Kept
  <2>3. QED BY <1>0, <1>2, <1>5, <2>1, <2>2 DEF Files, Home, Kept
<1>6. CASE pc[p] \in {"chkMark", "rbMark", "agMark"}
  <2>1. Kept /\ fs'.pending = fs.pending BY <1>0, <1>1, <1>3, <1>6 DEF CallOf, Wrote, Kept
  <2>2. Trial(p) => Trial(p)' BY <1>0, <2>1 DEF Trial, Home, Kept
  <2>3. Files(p)' BY <1>0, <1>6, <2>1, <2>2 DEF Files, Kept
  <2>4. QED BY <1>2, <2>1, <2>3 DEF Kept
<1>7. CASE pc[p] \in {"chkRevert", "rbRevert", "agRevert"} /\ call[p].step = "renameOld"
  <2>1. \/ fs' = fs /\ fs.old = None /\ (call'[p].step = "removePending" \/ (call'[p].step = "done" /\ ~call'[p].ok))
        \/ fs' = fs /\ fs.old # None /\ fs.linked /\ call'[p].step = "removePending"
        \/ fs.old # None /\ ~fs.linked /\ fs'.path = fs.old /\ fs'.old = None /\ call'[p].step = "removePending"
    BY <1>1, <1>7, <1>u DEF Wrote
  <2>2. CASE pc[p] = "chkRevert"
    <3>1. fs.old # None /\ fs.old \in confirmed BY <1>0, <1>2, <1>7, <2>2 DEF Files
    <3>2. fs'.path \in confirmed /\ call'[p].step = "removePending" /\ fs'.old \in {fs.old, None} BY <1>0, <2>1, <3>1
    <3>3. QED BY <1>0, <1>2, <2>2, <3>2 DEF Files
  <2>3. CASE pc[p] # "chkRevert"
    <3>1. Trial(p) BY <1>0, <1>7, <2>3 DEF Files
    <3>2. fs'.old = None /\ fs'.path = exe[p] /\ exe[p] \in confirmed BY <1>2, <2>1, <3>1 DEF Trial, Home
    <3>3. Home(p)' BY <1>0, <3>2 DEF Home
    <3>4. call'[p].step # "renameOld" BY <2>1
    <3>5. QED BY <1>0, <1>7, <2>3, <3>2, <3>3, <3>4 DEF Files
  <2>4. QED BY <2>2, <2>3
<1>8. CASE pc[p] \in {"chkRevert", "rbRevert", "agRevert"} /\ call[p].step # "renameOld"
  <2>1. /\ Kept /\ call'[p].step # "renameOld" /\ (call'[p].step = "done" => call'[p].ok)
    BY <1>0, <1>1, <1>3, <1>8, <1>u DEF CallOf, Wrote, Kept
  <2>2. Home(p) => Home(p)' BY <1>0, <2>1 DEF Home, Kept
  <2>3. fs.path \in confirmed BY <1>0, <1>8 DEF Files, Home
  <2>4. Files(p)' BY <1>0, <1>8, <2>1, <2>2, <2>3 DEF Files, Kept
  <2>5. QED BY <1>2, <2>1, <2>3, <2>4 DEF Kept
<1>9. QED BY <1>0, <1>3, <1>4, <1>5, <1>6, <1>7, <1>8 DEF ProcPcs, UpdatePcs, RollbackPcs, CallOf

\* The others: at most a parent waits, and its child only clears the marker.
LEMMA FilesOther ==
    ASSUME TypeInv, FamilyInv, FilesInv, NEW p \in Procs, EmbSyscall(p), NEW q \in Procs, q # p
    PROVE  Files(q)'
<1> USE DEF InstallSteps, RevertSteps, ClearPendingSteps, MarkFailedSteps, ClearFailedSteps
<1>0. Syscall(p) /\ InstInv /\ CallOf(p) /\ Files(q) /\ UNCHANGED <<pc, exe, confirmed>>
  BY DEF EmbSyscall, procVars, TypeInv, Parts, Placed, FilesInv
<1>1. Wrote(p) /\ call[p].step \in Steps /\ call'[q] = call[q] BY <1>0, SyscallWrote, SyscallCall DEF InstInv
<1>2. call[p].step \notin {"idle", "done"} BY <1>1, StepNames
<1>3. pc[p] \notin {"dead", "drain", "wait", "term"} BY <1>0, <1>2 DEF CallOf
<1>4. CASE ~Live(q) BY <1>0, <1>4 DEF Live, Files
<1>5. CASE Live(q)
  <2>1. Hands(q, p) BY <1>3, <1>5 DEF FamilyInv, Live, Hands
  <2>2. pc[p] = "readyClear" /\ pc[q] \in {"wait", "term"}
    <3>1. p # None /\ Parent(q) BY SelfUpdateAssumption DEF FamilyInv
    <3>2. pc[p] \in {"poll", "boot", "readyClear", "readyByte"} BY <2>1, <3>1 DEF Parent, Hands
    <3>3. QED BY <1>0, <1>2, <2>1, <3>2 DEF CallOf, Hands
  <2>3. Kept BY <1>0, <1>1, <1>2, <2>2 DEF CallOf, Wrote, Kept
  <2>4. Trial(q)' BY <1>0, <2>2, <2>3 DEF Files, Trial, Home, Kept
  <2>5. QED BY <1>0, <2>2, <2>4 DEF Files
<1>6. QED BY <1>4, <1>5

\* The files keep their invariant under every step of a target whose handoffs
\* are in time, that nobody stopped and whose undoing does not fail.
LEMMA FilesStep ==
    ASSUME TypeInv, FamilyInv, FilesInv, UndoWorks, ~Spend("stops"), [EmbNext]_vars
    PROVE  FilesInv'
<1>1. CASE UNCHANGED <<fs, disk, call, pc, exe, confirmed>>
  <2>1. \A q \in Procs : Files(q)' BY <1>1, FilesStay DEF FilesInv
  <2>2. QED BY <1>1, <2>1 DEF FilesInv, OldConfirmed, EmbRecoverable
<1>2. CASE UNCHANGED vars BY <1>1, <1>2 DEF vars, instVars, procVars
<1>3. ASSUME NEW p \in Procs, Own(p) PROVE FilesInv' BY <1>3, FilesOwn
<1>4. CASE Ends \/ Supervisor \/ \E p \in Procs : StartChild(p) BY <1>4, FilesProcs
<1>5. CASE Publish BY <1>1, <1>5 DEF Publish, instVars, procVars
<1>6. ASSUME NEW p \in Procs, Stop(p) PROVE FALSE BY <1>6 DEF Stop
<1>7. ASSUME NEW p \in Procs, EmbSyscall(p) PROVE FilesInv'
  <2>1. \A q \in Procs : Files(q)' BY <1>7, FilesCaller, FilesOther
  <2>2. confirmed' = confirmed /\ disk' \subseteq disk \cup {fs, fs'}
    BY <1>7, SyscallType DEF EmbSyscall, TypeInv, InstInv
  <2>3. /\ fs'.old \in confirmed \cup {None}
        /\ fs'.path \in confirmed \/ (fs'.pending # None /\ fs'.old \in confirmed /\ ~fs'.linked)
    BY <1>7, FilesCaller
  <2>4. OldConfirmed' BY <2>2, <2>3 DEF FilesInv, OldConfirmed
  <2>5. EmbRecoverable' BY <2>2, <2>3 DEF FilesInv, EmbRecoverable
  <2>6. QED BY <2>1, <2>4, <2>5 DEF FilesInv
<1>8. CASE PowerLoss
  <2>1. /\ \A q \in Procs : pc'[q] = "dead"
        /\ confirmed' = confirmed /\ fs' \in disk /\ disk' = {fs'}
    BY <1>8 DEF PowerLoss, PowerFails
  <2>2. \A q \in Procs : Files(q)' BY <2>1 DEF Files
  <2>3. QED BY <2>1, <2>2 DEF FilesInv, OldConfirmed, EmbRecoverable
<1>9. QED BY <1>2, <1>3, <1>4, <1>5, <1>6, <1>7, <1>8 DEF EmbNext, ProcNext, Own, Ends

\* The first release came up, and nothing is there to revert to.
LEMMA FilesInit == EmbInit => FilesInv
<1> SUFFICES ASSUME EmbInit PROVE FilesInv
  OBVIOUS
<1>1. PICK r \in Releases : fs = Fresh(r) /\ disk = {fs} /\ confirmed = {r} BY DEF EmbInit, InstInit
<1>2. fs.path = r /\ fs.old = None BY <1>1 DEF Fresh
<1>3. \A q \in Procs : pc[q] = "dead" BY DEF EmbInit
<1>4. \A q \in Procs : Files(q) BY <1>3 DEF Files
<1>5. QED BY <1>1, <1>2, <1>4 DEF FilesInv, OldConfirmed, EmbRecoverable

\* The inductive invariant of the last two theorems.
TargetInv == TypeInv /\ BudgetInv /\ (NoStops => FamilyInv) /\ FilesInv

\* It is inductive when handoffs are in time and undoing an install works.
LEMMA TargetInvStep ==
    ASSUME ~Slow, MaxStops = 0, UndoWorks
    PROVE  (EmbInit => TargetInv) /\ (TargetInv /\ [EmbNext]_vars => TargetInv')
<1>1. EmbInit => TargetInv BY TypeInvInit, FamilyInit, FilesInit DEF TargetInv
<1>2. ASSUME TargetInv, [EmbNext]_vars PROVE TargetInv'
  <2>1. NoStops /\ ~Spend("stops") BY <1>2 DEF TargetInv, TypeInv, Parts, BudgetInv, NoStops, Spend
  <2>2. TypeInv' /\ BudgetInv' /\ (NoStops => FamilyInv)' BY <1>2, TypeInvStep, BudgetStep, FamilyStep DEF TargetInv
  <2>3. FilesInv' BY <1>2, <2>1, FilesStep DEF TargetInv
  <2>4. QED BY <2>2, <2>3 DEF TargetInv
<1>3. QED BY <1>1, <1>2

(***************************************************************************)
(* README guarantee 7 and DESIGN 6.5, for any number of releases, heads,   *)
(* crashes and power losses: whatever image of the directory a death of    *)
(* the processes leaves, <path> is a release that called Ready(), or the   *)
(* marker and such a release at .old are there for selfCheck.              *)
(***************************************************************************)
THEOREM EmbAlwaysRecoverable ==
    ASSUME ~Slow, MaxStops = 0, UndoWorks
    PROVE  EmbSpec => []EmbRecoverable
<1>1. TargetInv => EmbRecoverable BY DEF TargetInv, FilesInv
<1>2. QED BY <1>1, TargetInvStep, PTL DEF EmbSpec

(***************************************************************************)
(* DESIGN 6.1: an update ends with the new release running or with the     *)
(* previous file back; the process that polls executes the file at <path>, *)
(* across every failed handoff, rollback and second handoff.               *)
(***************************************************************************)
THEOREM EmbAlwaysSettled ==
    ASSUME ~Slow, MaxStops = 0, UndoWorks
    PROVE  EmbSpec => []EmbSettled
<1>1. TargetInv => EmbSettled BY DEF TargetInv, FilesInv, Files, Home, EmbSettled
<1>2. QED BY <1>1, TargetInvStep, PTL DEF EmbSpec
=============================================================================
