-------------------------------- MODULE Build --------------------------------
(***************************************************************************)
(* One update cycle from the pointer to the head's bytes (build in         *)
(* agent/fetch.go): the plan, its patch chain, and the download of the     *)
(* blob, planned or as the fallback for a patch this build cannot read.    *)
(* Plan and BlobFetch take turns; fetchBlob is given the head and its blob *)
(* and nothing else of the plan.                                           *)
(***************************************************************************)
EXTENDS Plan, BlobFetch

vars == <<planVars, fetchVars>>

Init == PlanInit /\ FetchInit

\* a.fetchBlob(ctx, p.Head): the rest of the plan is forgotten.
StartBlob ==
    /\ pointer' = [pointer EXCEPT !.chain = <<>>]
    /\ current' = Zero /\ data' = Zero /\ applied' = 0
    /\ plan' = BlobPlan(pointer)
    /\ phase' = "blob" /\ pc' = "begin"
    /\ uploaded' \in BOOLEAN
    /\ UNCHANGED <<have, todo, worker, errs, cancelled, stopped, late, faults, outcome, seen>>

TakeBlob == phase = "apply" /\ plan.kind = "blob" /\ StartBlob

ChainRuns == phase = "apply" /\ plan.kind = "chain" /\ applied < Len(plan.edges)

\* build returns an error without having asked for the blob.
GiveUp(result) ==
    /\ phase' = "failed" /\ outcome' = result
    /\ UNCHANGED <<pointer, current, plan, data, applied, pc, have, todo, worker,
                   errs, cancelled, stopped, late, uploaded, faults>>

\* delta.Apply does not know a patch's transform: the blob, if there is one.
PatchUnsupported ==
    /\ ChainRuns
    /\ \/ pointer.blob # NoBlob /\ StartBlob
       \/ pointer.blob = NoBlob /\ GiveUp("noPath") /\ UNCHANGED seen

\* A patch cannot be fetched, or is not the one the pointer names.
PatchFails ==
    /\ ChainRuns
    /\ \/ GiveUp("error") /\ seen' = {"failed"}
       \/ GiveUp("verifyFailed") /\ seen' = {"wrong"}

BlobReturns ==
    /\ phase = "blob" /\ pc = "end"
    /\ phase' = IF outcome = "updated" THEN "done" ELSE "failed"
    /\ data' = IF outcome = "updated" THEN pointer.head ELSE Broken
    /\ UNCHANGED <<pointer, current, plan, applied, fetchVars>>

Cycle ==
    \/ PlanNext /\ UNCHANGED fetchVars
    \/ TakeBlob \/ BlobReturns

Next ==
    \/ Cycle \/ PatchUnsupported \/ PatchFails
    \/ FetchNext /\ UNCHANGED planVars

\* Every goroutine goes on and time passes; an upload need never come.
FairSpec ==
    /\ Init /\ [][Next]_vars
    /\ WF_vars(Cycle)
    /\ WF_vars(BlobNext /\ UNCHANGED planVars)
    /\ WF_vars(DeadlinePasses /\ UNCHANGED planVars)
    /\ \A w \in Workers : WF_vars(WorkerNext(w) /\ UNCHANGED planVars)

-----------------------------------------------------------------------------
(***************************************************************************)
(* Every cycle ends, whatever the store does: no worker waits for a frame  *)
(* nobody sends, and the wait for the publisher is bounded by blobWait.    *)
(***************************************************************************)
BuildEnds == <>(phase \in {"refused", "failed", "done"})
=============================================================================
