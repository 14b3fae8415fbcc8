------------------------------ MODULE BlobFetch ------------------------------
(***************************************************************************)
(* One download of a release blob (agent/fetch.go): fetchBlob runs passes  *)
(* of fetchFrames, whose workers take the frames still missing from a      *)
(* channel, fetch each with a ranged request and stop at the first         *)
(* failure; a blob the publisher has not uploaded yet is waited for.  The  *)
(* module ends with update's hash check of the assembled release.          *)
(***************************************************************************)
EXTENDS Naturals, FiniteSets

CONSTANTS
    NumFrames,      \* frames of the blob
    BlobWorkers,    \* blobWorkers: ranged requests in flight
    FetchTries,     \* fetchTries: attempts at one request
    MaxFaults,      \* bound: transport failures
    WrongBytes,     \* whether the store may serve bytes that fail a frame's hash
    MayStop         \* whether the agent's context may end during the download

ASSUME BlobFetchAssumption ==
    /\ {NumFrames, BlobWorkers, FetchTries} \subseteq Nat \ {0} /\ MaxFaults \in Nat
    /\ {WrongBytes, MayStop} \subseteq BOOLEAN

Frames  == 1..NumFrames
Workers == 1..BlobWorkers

NoErr == "nil"

VARIABLES
    pc,         \* fetchBlob: "idle", "begin", "run" (a pass), "wait", "assembled" or "end"
    have,       \* the frames verified and written at their offset
    todo,       \* the frames in the pass's channel, which gives out the lowest first
    worker,     \* each worker: where it is, its frame and its attempt
    errs,       \* the pass's error of each frame
    cancelled,  \* the pass's own context was cancelled
    stopped,    \* the agent's context is done
    late,       \* blobWait has passed
    uploaded,   \* the store holds the blob
    faults,     \* transport failures left
    outcome,    \* the cycle's outcome, or "none"
    seen        \* history: "wrong" bytes were served; a request "failed" FetchTries times

fetchVars == <<pc, have, todo, worker, errs, cancelled, stopped, late, uploaded, faults, outcome, seen>>
env  == <<stopped, late, uploaded>>

Off     == [at |-> "off", frame |-> 0, try |-> 0]
Busy(w) == worker[w].at \in {"get", "sleep"}

\* The variables have their types; while no pass runs no worker does.
FetchTypeOK ==
    /\ pc \in {"idle", "begin", "run", "wait", "assembled", "end"}
    /\ have \in [Frames -> BOOLEAN]
    /\ todo \subseteq Frames
    /\ worker \in [Workers -> [at: {"off", "take", "get", "sleep"}, frame: 0..NumFrames, try: 0..FetchTries]]
    /\ errs \in [Frames -> {NoErr, "notFound", "transport", "verify", "context"}]
    /\ {cancelled, stopped, late, uploaded} \subseteq BOOLEAN
    /\ faults \in 0..MaxFaults
    /\ outcome \in {"none", "updated", "error", "verifyFailed", "noPath"}
    /\ seen \subseteq {"wrong", "failed"}
    /\ pc # "run" => \A w \in Workers : worker[w] = Off

FetchInit ==
    /\ pc = "idle"
    /\ have = [f \in Frames |-> FALSE]
    /\ todo = {}
    /\ worker = [w \in Workers |-> Off]
    /\ errs = [f \in Frames |-> NoErr]
    /\ cancelled = FALSE /\ stopped = FALSE /\ late = FALSE
    /\ uploaded = FALSE
    /\ faults = MaxFaults
    /\ outcome = "none"
    /\ seen = {}

-----------------------------------------------------------------------------
(***************************************************************************)
(* fetchBlob.                                                              *)
(***************************************************************************)
\* The frame table is not one contiguous file, or not the release's size.
BadTable ==
    /\ pc = "begin"
    /\ pc' = "end" /\ outcome' = "error" /\ seen' = seen \cup {"failed"}
    /\ UNCHANGED <<have, todo, worker, errs, cancelled, env, faults>>

Missing == {f \in Frames : ~have[f]}

\* Mutant: one context for all passes, so that a failed pass cancels the next.
StartPassSameContext ==
    /\ pc \in {"begin", "wait"} /\ pc' = "run"
    /\ todo' = Missing
    /\ worker' = [w \in Workers |-> IF w <= Cardinality(Missing) THEN [Off EXCEPT !.at = "take"] ELSE Off]
    /\ errs' = [f \in Frames |-> NoErr]
    /\ UNCHANGED <<have, cancelled, env, faults, outcome, seen>>

\* Mutant: a retry starts over instead of resuming.
StartPassFromScratch ==
    /\ pc \in {"begin", "wait"} /\ pc' = "run"
    /\ todo' = Frames
    /\ worker' = [w \in Workers |-> [Off EXCEPT !.at = "take"]]
    /\ errs' = [f \in Frames |-> NoErr]
    /\ cancelled' = FALSE
    /\ UNCHANGED <<have, env, faults, outcome, seen>>

\* fetchFrames with a context of its own and the frames still missing: first
\* at once, then whenever the wait for the publisher ended by its timer.
StartPass ==
    /\ pc \in {"begin", "wait"} /\ pc' = "run"
    /\ todo' = Missing
    /\ worker' = [w \in Workers |-> IF w <= Cardinality(Missing) THEN [Off EXCEPT !.at = "take"] ELSE Off]
    /\ errs' = [f \in Frames |-> NoErr]
    /\ cancelled' = FALSE
    /\ UNCHANGED <<have, env, faults, outcome, seen>>

PassErrs == {errs[f] : f \in Frames} \ {NoErr}
Joined   == pc = "run" /\ \A w \in Workers : worker[w] = Off

\* build's outcomeFor: one errVerify in the join makes it OutcomeVerifyFailed.
Fail ==
    /\ pc' = "end"
    /\ outcome' = IF "verify" \in PassErrs THEN "verifyFailed" ELSE "error"

\* Mutant: the wait needs every failure of the pass to be ErrNotFound.
PassEndsEvery ==
    /\ Joined
    /\ \/ PassErrs = {} /\ pc' = "assembled" /\ UNCHANGED outcome
       \/ PassErrs = {"notFound"} /\ ~late /\ pc' = "wait" /\ UNCHANGED outcome
       \/ PassErrs # {} /\ (PassErrs # {"notFound"} \/ late) /\ Fail
    /\ UNCHANGED <<have, todo, worker, errs, cancelled, env, faults, seen>>

\* Mutant: blobWait is not looked at.
PassEndsForever ==
    /\ Joined
    /\ \/ PassErrs = {} /\ pc' = "assembled" /\ UNCHANGED outcome
       \/ "notFound" \in PassErrs /\ pc' = "wait" /\ UNCHANGED outcome
       \/ PassErrs # {} /\ "notFound" \notin PassErrs /\ Fail
    /\ UNCHANGED <<have, todo, worker, errs, cancelled, env, faults, seen>>

\* All workers returned: errors.Join, whose errors.Is finds any ErrNotFound.
PassEnds ==
    /\ Joined
    /\ \/ PassErrs = {} /\ pc' = "assembled" /\ UNCHANGED outcome
       \/ "notFound" \in PassErrs /\ ~late /\ pc' = "wait" /\ UNCHANGED outcome
       \/ PassErrs # {} /\ ("notFound" \notin PassErrs \/ late) /\ Fail
    /\ UNCHANGED <<have, todo, worker, errs, cancelled, env, faults, seen>>

WaitInterrupted ==
    /\ pc = "wait" /\ stopped /\ Fail
    /\ UNCHANGED <<have, todo, worker, errs, cancelled, env, faults, seen>>

\* update: the assembled bytes are the release only if no frame is missing.
Verify ==
    /\ pc = "assembled" /\ pc' = "end"
    /\ outcome' = IF \A f \in Frames : have[f] THEN "updated" ELSE "verifyFailed"
    /\ UNCHANGED <<have, todo, worker, errs, cancelled, env, faults, seen>>

-----------------------------------------------------------------------------
(***************************************************************************)
(* A worker of fetchFrames, and frame with its retries.                    *)
(***************************************************************************)
CtxDone == cancelled \/ stopped

\* The channel is drained, or a frame is taken from it and then the context is
\* looked at.
Take(w) ==
    /\ worker[w].at = "take"
    /\ \/ todo = {} /\ worker' = [worker EXCEPT ![w] = Off] /\ UNCHANGED todo
       \/ \E f \in todo :
            /\ \A g \in todo : f <= g
            /\ todo' = todo \ {f}
            /\ worker' = [worker EXCEPT ![w] = IF CtxDone THEN Off
                                               ELSE [at |-> "get", frame |-> f, try |-> 1]]
    /\ UNCHANGED <<pc, have, errs, cancelled, env, faults, outcome, seen>>

\* The bytes arrived and pass DecodeFrame.
GetOk(w) ==
    /\ worker[w].at = "get" /\ uploaded
    /\ have' = [have EXCEPT ![worker[w].frame] = TRUE]
    /\ worker' = [worker EXCEPT ![w] = [Off EXCEPT !.at = "take"]]
    /\ UNCHANGED <<pc, todo, errs, cancelled, env, faults, outcome, seen>>

\* frame returns err: the worker records it, cancels the pass and returns.
FrameFails(w, err) ==
    /\ errs' = [errs EXCEPT ![worker[w].frame] = err]
    /\ cancelled' = TRUE
    /\ worker' = [worker EXCEPT ![w] = Off]

GetWrong(w) ==
    /\ WrongBytes /\ worker[w].at = "get" /\ uploaded
    /\ FrameFails(w, "verify") /\ seen' = seen \cup {"wrong"}
    /\ UNCHANGED <<pc, have, todo, env, faults, outcome>>

GetNotFound(w) ==
    /\ worker[w].at = "get" /\ ~uploaded
    /\ FrameFails(w, "notFound")
    /\ UNCHANGED <<pc, have, todo, env, faults, outcome, seen>>

\* A request under a context that is done fails with it, and so does its retry.
GetCancelled(w) ==
    /\ worker[w].at = "get" /\ CtxDone
    /\ FrameFails(w, "context")
    /\ UNCHANGED <<pc, have, todo, env, faults, outcome, seen>>

\* The connection broke, or the body is too short or too long.
GetFault(w) ==
    /\ worker[w].at = "get" /\ faults > 0 /\ faults' = faults - 1
    /\ \/ /\ worker[w].try = FetchTries
          /\ FrameFails(w, "transport") /\ seen' = seen \cup {"failed"}
       \/ /\ worker[w].try < FetchTries
          /\ worker' = [worker EXCEPT ![w].at = "sleep"]
          /\ UNCHANGED <<errs, cancelled, seen>>
    /\ UNCHANGED <<pc, have, todo, env, outcome>>

\* The pause before the next attempt, cut short when the context ends.
SleepEnds(w) ==
    /\ worker[w].at = "sleep"
    /\ worker' = [worker EXCEPT ![w].at = "get", ![w].try = @ + 1]
    /\ UNCHANGED <<pc, have, todo, errs, cancelled, env, faults, outcome, seen>>

SleepInterrupted(w) ==
    /\ worker[w].at = "sleep" /\ CtxDone
    /\ FrameFails(w, "transport")
    /\ UNCHANGED <<pc, have, todo, env, faults, outcome, seen>>

-----------------------------------------------------------------------------
(***************************************************************************)
(* The environment: the publisher's upload, the clock, SIGTERM.            *)
(***************************************************************************)
Upload ==
    /\ ~uploaded /\ pc # "idle" /\ uploaded' = TRUE
    /\ UNCHANGED <<pc, have, todo, worker, errs, cancelled, stopped, late, faults, outcome, seen>>

DeadlinePasses ==
    /\ ~late /\ pc \notin {"idle", "end"} /\ late' = TRUE
    /\ UNCHANGED <<pc, have, todo, worker, errs, cancelled, stopped, uploaded, faults, outcome, seen>>

Stop ==
    /\ MayStop /\ ~stopped /\ pc \notin {"idle", "end"} /\ stopped' = TRUE
    /\ UNCHANGED <<pc, have, todo, worker, errs, cancelled, late, uploaded, faults, outcome, seen>>

WorkerNext(w) ==
    \/ Take(w) \/ GetOk(w) \/ GetWrong(w) \/ GetNotFound(w) \/ GetCancelled(w) \/ GetFault(w)
    \/ SleepEnds(w) \/ SleepInterrupted(w)

BlobNext == StartPass \/ PassEnds \/ WaitInterrupted \/ Verify

FetchNext ==
    \/ BadTable \/ BlobNext \/ (\E w \in Workers : WorkerNext(w))
    \/ Upload \/ DeadlinePasses \/ Stop

-----------------------------------------------------------------------------
(***************************************************************************)
(* fetchFrames: "Every frame is dispatched once, so the writes to have and *)
(* errs below are to elements no other worker touches", and fetchBlob:     *)
(* "Frames already in hand are not fetched again".                         *)
(***************************************************************************)
DispatchedOnce ==
    \A w \in Workers : Busy(w) =>
        /\ ~have[worker[w].frame]
        /\ \A v \in Workers \ {w} : Busy(v) => worker[v].frame # worker[w].frame

(***************************************************************************)
(* errVerify "marks the failures that mean the bytes were not what the     *)
(* pointer promised" (README exit code 3): a download ends that way only   *)
(* if the store served bytes that fail their hash.  An agent that is being *)
(* stopped is exempt: its workers return without an error (fetch.go:162),  *)
(* and the bytes are refused because frames are missing.                   *)
(***************************************************************************)
VerifyMeansWrong == outcome = "verifyFailed" => "wrong" \in seen \/ stopped

(***************************************************************************)
(* "A blob the pointer names but the store does not hold yet is not an     *)
(* error": unless a request failed for good, the download gives up only    *)
(* when blobWait has passed or the agent is stopped.                       *)
(***************************************************************************)
WaitsForBlob == outcome = "error" => late \/ stopped \/ "failed" \in seen
=============================================================================
