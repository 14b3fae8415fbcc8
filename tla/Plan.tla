-------------------------------- MODULE Plan --------------------------------
(***************************************************************************)
(* What a target makes of a pointer it read: ParsePointer                  *)
(* (release/pointer.go) accepts or refuses it, MakePlan (release/plan.go)  *)
(* decides between the patch chain, the blob and nothing, and the chain is *)
(* applied oldest edge first (agent/fetch.go).  The pointer is any object  *)
(* of the right shape, linked or not; sizes are in units of bytes.  The    *)
(* blob, and a chain that fails, are Build's.                              *)
(***************************************************************************)
EXTENDS Naturals, Sequences

CONSTANTS
    Releases,   \* the releases, named by their hash
    Zero,       \* the zero hash: no release, and what a missing file hashes to
    Broken,     \* bytes that are no release: a patch applied to the wrong file
    NoBlob,     \* a pointer without a blob
    Sizes,      \* sizes a patch or a blob may have
    MaxChain,   \* release.MaxChain
    MaxEdges    \* bound: edges of the pointers enumerated

ASSUME PlanAssumption ==
    /\ Zero \notin Releases /\ Broken \notin Releases \cup {Zero}
    /\ Sizes \subseteq Nat /\ NoBlob \notin Nat
    /\ MaxChain \in Nat \ {0} /\ MaxEdges \in Nat

Hashes == Releases \cup {Zero}
Edge   == [from: Hashes, to: Hashes, size: Sizes]

\* A pointer; blob is the size of the head's blob, or no blob at all.
Pointer == [head: Hashes, blob: Sizes \cup {NoBlob}, chain: Seq(Edge)]

VARIABLES
    pointer,    \* latest.json as read
    current,    \* the hash of the target's file
    plan,       \* the plan MakePlan returned
    data,       \* the bytes the target holds while it applies the plan
    applied,    \* edges applied so far
    phase       \* "parse", "plan", "apply", "blob", then "refused", "failed" or "done"

planVars == <<pointer, current, plan, data, applied, phase>>

-----------------------------------------------------------------------------
\* ParsePointer's checks: a head, complete edges, each linked to the newer one.
Parses(p) ==
    /\ p.head # Zero
    /\ \A i \in 1..Len(p.chain) :
        /\ p.chain[i].from # Zero /\ p.chain[i].to # Zero
        /\ p.chain[i].to = IF i = 1 THEN p.head ELSE p.chain[i - 1].from

\* The bytes of the k newest edges.
ChainBytes(p, k) ==
    LET sum[i \in 0..Len(p.chain)] == IF i = 0 THEN 0 ELSE sum[i - 1] + p.chain[i].size
    IN  sum[k]

NoPlan(p, atHead) == [kind |-> "none", edges |-> <<>>, bytes |-> 0, atHead |-> atHead]
BlobPlan(p)       == [kind |-> "blob", edges |-> <<>>, bytes |-> p.blob, atHead |-> FALSE]
\* Mutant: the newest-first chain is not turned around.
ChainPlanNewestFirst(p, k) ==
    [kind |-> "chain", edges |-> [j \in 1..k |-> p.chain[j]],
     bytes |-> ChainBytes(p, k), atHead |-> FALSE]

ChainPlan(p, k)   == [kind |-> "chain", edges |-> [j \in 1..k |-> p.chain[k + 1 - j]],
                      bytes |-> ChainBytes(p, k), atHead |-> FALSE]

\* The edges, among those MakePlan looks at, that start at the target's release.
Matches(p, h) == {k \in 1..Len(p.chain) : k <= MaxChain /\ p.chain[k].from = h}
\* Mutant: the match farthest from the head wins.
FarthestMatch(S) == CHOOSE k \in S : \A j \in S : k >= j

First(S)      == CHOOSE k \in S : \A j \in S : k <= j

ChainPays(p, k) == p.blob = NoBlob \/ ChainBytes(p, k) < p.blob

MakePlan(p, h) ==
    IF h = p.head THEN NoPlan(p, TRUE)
    ELSE IF Matches(p, h) # {} /\ ChainPays(p, First(Matches(p, h)))
         THEN ChainPlan(p, First(Matches(p, h)))
    ELSE IF p.blob # NoBlob THEN BlobPlan(p)
    ELSE NoPlan(p, FALSE)

-----------------------------------------------------------------------------
Pointers == [head: Hashes, blob: Sizes \cup {NoBlob},
             chain: UNION {[1..n -> Edge] : n \in 0..MaxEdges}]

PlanInit ==
    /\ pointer \in Pointers
    /\ current \in Hashes
    /\ plan = NoPlan(pointer, FALSE)
    /\ data = current
    /\ applied = 0
    /\ phase = "parse"

Parse ==
    /\ phase = "parse"
    /\ phase' = IF Parses(pointer) THEN "plan" ELSE "refused"
    /\ UNCHANGED <<pointer, current, plan, data, applied>>

Decide ==
    /\ phase = "plan"
    /\ plan' = MakePlan(pointer, current)
    /\ phase' = IF plan'.kind = "none" THEN "done" ELSE "apply"
    /\ UNCHANGED <<pointer, current, data, applied>>

\* applyChain: one patch; on any other bytes than from's it yields nothing usable.
ApplyEdge ==
    /\ phase = "apply" /\ plan.kind = "chain" /\ applied < Len(plan.edges)
    /\ LET e == plan.edges[applied + 1]
       IN  data' = IF e.from = data THEN e.to ELSE Broken
    /\ applied' = applied + 1
    /\ UNCHANGED <<pointer, current, plan, phase>>

ChainDone ==
    /\ phase = "apply" /\ plan.kind = "chain" /\ applied = Len(plan.edges)
    /\ phase' = "done"
    /\ UNCHANGED <<pointer, current, plan, data, applied>>

PlanNext == Parse \/ Decide \/ ApplyEdge \/ ChainDone

-----------------------------------------------------------------------------
\* The pointer, the plan and the bytes at hand have their types.
PlanTypeOK ==
    /\ pointer \in Pointer
    /\ current \in Hashes /\ data \in Hashes \cup {Broken}
    /\ plan \in [kind: {"none", "chain", "blob"}, edges: Seq(Edge), bytes: Nat, atHead: BOOLEAN]
    /\ applied \in Nat
    /\ phase \in {"parse", "plan", "apply", "blob", "refused", "failed", "done"}

(***************************************************************************)
(* README guarantees 1 and 3: a plan carried out leaves the head's bytes,  *)
(* for every pointer ParsePointer accepts and every file the target may    *)
(* hold; a plan that does nothing has a reason: the target is at the head, *)
(* or nothing published reaches it.                                        *)
(***************************************************************************)
PlanReachesHead ==
    phase = "done" =>
        \/ data = pointer.head
        \/ /\ plan.kind = "none" /\ ~plan.atHead
           /\ pointer.blob = NoBlob /\ Matches(pointer, current) = {}

(***************************************************************************)
(* README guarantee 3, "minimal transfer": no blob and no run of chain     *)
(* edges from the target's release to the head costs less than the plan.   *)
(* Chains that pass through one release twice are among the pointers.      *)
(***************************************************************************)
PlanIsCheapest ==
    phase \in {"apply", "done"} /\ plan.kind # "none" =>
        /\ pointer.blob # NoBlob => plan.bytes <= pointer.blob
        /\ \A k \in Matches(pointer, current) : plan.bytes <= ChainBytes(pointer, k)
=============================================================================
