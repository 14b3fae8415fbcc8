---------------------------- MODULE Build_proofs ----------------------------
(***************************************************************************)
(* Proofs about one update cycle, for pointers of any length, blobs of any *)
(* number of frames and any number of workers, attempts and faults.        *)
(***************************************************************************)
EXTENDS Build, FiniteSetTheorems, SequenceTheorems, WellFoundedInduction, TLAPS

(***************************************************************************)
(* The plan: what MakePlan decided, and how far its chain is applied.      *)
(***************************************************************************)
Chained(k) ==
    /\ k \in Matches(pointer, current) /\ plan = ChainPlan(pointer, k) /\ applied <= k
    /\ data = IF applied = 0 THEN current ELSE pointer.chain[k + 1 - applied].to

PlanOK ==
    /\ phase \in {"parse", "plan"} => data = current /\ applied = 0
    /\ phase \in {"plan", "apply"} => Parses(pointer)
    /\ phase = "apply" =>
         \/ plan = BlobPlan(pointer) /\ pointer.blob # NoBlob
         \/ \E k \in 1..Len(pointer.chain) : Chained(k)
    /\ phase = "blob" => plan = BlobPlan(pointer) /\ pointer.blob # NoBlob /\ pointer.chain = <<>>

(***************************************************************************)
(* The download: who has each frame, and why a pass fails.                 *)
(***************************************************************************)
Dispatch ==
    /\ \A f \in todo : ~have[f] /\ errs[f] = NoErr
    /\ \A w \in Workers : Busy(w) =>
         /\ worker[w].frame \in Frames \ todo /\ errs[worker[w].frame] = NoErr
         /\ worker[w].at = "sleep" => worker[w].try < FetchTries

(* Something cancelled the pass, and what is to blame is not lost.         *)
Err(e) == \E f \in Frames : errs[f] = e
Failed == \E f \in Frames : errs[f] # NoErr

Cause ==
    /\ cancelled => Failed
    /\ Err("verify") => "wrong" \in seen
    /\ Failed => stopped \/ "failed" \in seen \/ Err("notFound") \/ Err("verify")

(* Unless the pass is being cut short, no frame is lost and somebody is    *)
(* there to take the frames left.                                          *)
Accounted ==
    pc = "run" /\ ~cancelled /\ ~stopped =>
        /\ \A f \in Frames : have[f] \/ f \in todo \/ \E w \in Workers : Busy(w) /\ worker[w].frame = f
        /\ todo # {} => \E w \in Workers : worker[w].at # "off"

Assembled == pc = "assembled" => stopped \/ \A f \in Frames : have[f]

(* Plan and BlobFetch take turns.                                          *)
Turns ==
    /\ phase \in {"parse", "plan", "apply", "refused"} => pc = "idle"
    /\ pc = "idle" => ~Failed /\ ~cancelled

PlanInv  == PlanTypeOK /\ PlanOK /\ PlanReachesHead /\ PlanIsCheapest
FetchInv == /\ FetchTypeOK /\ Dispatch /\ Cause /\ Accounted /\ Assembled
            /\ DispatchedOnce /\ VerifyMeansWrong /\ WaitsForBlob
BuildInv == PlanInv /\ FetchInv /\ Turns

-----------------------------------------------------------------------------
(***************************************************************************)
(* The bytes of a chain.                                                   *)
(***************************************************************************)
\* A nonempty set of numbers has a least one: induction, for what follows.
LEMMA LeastNat ==
    ASSUME NEW T, T \subseteq Nat, T # {}
    PROVE  \E n \in T : \A m \in T : n <= m
<1>1. IsWellFoundedOn(OpToRel(<, Nat), Nat) BY NatLessThanWellFounded
<1>2. PICK n \in T : \A m \in T : ~(<<m, n>> \in OpToRel(<, Nat)) BY <1>1, WFMin
<1>3. \A m \in T : ~(m < n)
  <2> TAKE m \in T
  <2>1. <<m, n>> \notin OpToRel(<, Nat) BY <1>2
  <2>2. QED BY <2>1 DEF OpToRel
<1>4. QED BY <1>3

\* The partial sums of a chain's patch sizes exist.
LEMMA SumsExist ==
    ASSUME NEW c \in Seq(Edge), NEW n \in 0..Len(c)
    PROVE  \E f \in [0..n -> Nat] : f[0] = 0 /\ \A i \in 1..n : f[i] = f[i - 1] + c[i].size
<1> DEFINE Sums(m) == {f \in [0..m -> Nat] : f[0] = 0 /\ \A i \in 1..m : f[i] = f[i - 1] + c[i].size}
           T       == {m \in 0..Len(c) : Sums(m) = {}}
<1>0. Len(c) \in Nat BY LenProperties
<1>1. SUFFICES T = {} BY DEF Sums
<1>2. SUFFICES ASSUME T # {} PROVE FALSE OBVIOUS
<1>3. PICK m \in T : \A k \in T : m <= k
  <2>1. T \subseteq Nat BY <1>0
  <2> HIDE DEF T
  <2>2. QED BY <1>2, <2>1, LeastNat
<1>4. m \in 0..Len(c) /\ m \in Nat /\ Sums(m) = {} BY <1>0, <1>3
<1>5. CASE m = 0
  <2>1. [i \in 0..0 |-> 0] \in Sums(0) OBVIOUS
  <2>2. QED BY <1>4, <1>5, <2>1
<1>6. CASE m # 0
  <2>1. m - 1 \in 0..Len(c) /\ ~(m <= m - 1) /\ m \in 1..Len(c) BY <1>0, <1>4, <1>6
  <2>2. Sums(m - 1) # {}
    <3>1. m - 1 \notin T BY <1>3, <2>1
    <3>2. QED BY <2>1, <3>1
  <2>3. PICK f : f \in Sums(m - 1) BY <2>2
  <2>4. f \in [0..(m - 1) -> Nat] /\ f[0] = 0 /\ \A i \in 1..(m - 1) : f[i] = f[i - 1] + c[i].size
    BY <2>3
  <2>5. c[m].size \in Nat
    <3>1. c[m] \in Edge BY <2>1, ElementOfSeq
    <3>2. QED BY <3>1, PlanAssumption DEF Edge
  <2> DEFINE g == [i \in 0..m |-> IF i = m THEN f[m - 1] + c[m].size ELSE f[i]]
  <2>6. f[m - 1] \in Nat BY <1>4, <2>1, <2>4
  <2>7. g \in [0..m -> Nat]
    <3>1. \A i \in 0..m : i = m \/ i \in 0..(m - 1) BY <1>4
    <3>2. QED BY <2>4, <2>5, <2>6, <3>1
  <2>8. g[0] = 0
    <3>1. 0 \in 0..m BY <1>4
    <3>2. QED BY <1>6, <2>4, <3>1
  <2>9. ASSUME NEW i \in 1..m PROVE g[i] = g[i - 1] + c[i].size
    <3>1. i \in 0..m /\ i - 1 \in 0..m /\ i - 1 # m BY <1>4
    <3>2. g[i - 1] = f[i - 1] BY <3>1
    <3>3. CASE i = m BY <3>1, <3>2, <3>3
    <3>4. CASE i # m
      <4>1. i \in 1..(m - 1) BY <1>4, <3>4
      <4>2. g[i] = f[i] BY <3>1, <3>4
      <4>3. QED BY <2>4, <3>2, <4>1, <4>2
    <3>5. QED BY <3>3, <3>4
  <2>10. g \in Sums(m) BY <2>7, <2>8, <2>9
  <2>11. QED BY <1>4, <2>10
<1>7. QED BY <1>5, <1>6

\* A longer run of a chain's edges costs at least as much.
LEMMA ChainBytesGrow ==
    ASSUME NEW p \in Pointer
    PROVE  /\ \A k \in 0..Len(p.chain) : ChainBytes(p, k) \in Nat
           /\ \A j, k \in 0..Len(p.chain) : j <= k => ChainBytes(p, j) <= ChainBytes(p, k)
<1> DEFINE c    == p.chain
           L    == Len(c)
           Is(f) == f = [i \in 0..L |-> IF i = 0 THEN 0 ELSE f[i - 1] + c[i].size]
           sum  == CHOOSE f : Is(f)
<1>0. c \in Seq(Edge) /\ L \in Nat
  <2>1. c \in Seq(Edge) BY DEF Pointer
  <2>2. QED BY <2>1, LenProperties
<1>1. \E f : Is(f)
  <2>1. L \in 0..L BY <1>0
  <2>2. PICK f \in [0..L -> Nat] : f[0] = 0 /\ \A i \in 1..L : f[i] = f[i - 1] + c[i].size
    BY <1>0, <2>1, SumsExist
  <2>3. \A i \in 0..L : f[i] = IF i = 0 THEN 0 ELSE f[i - 1] + c[i].size
    <3>1. \A i \in 0..L : i = 0 \/ i \in 1..L BY <1>0
    <3>2. QED BY <2>2, <3>1
  <2>4. Is(f) BY <2>2, <2>3
  <2>5. QED BY <2>4
<1>2. Is(sum) BY <1>1
<1>3. \A k : ChainBytes(p, k) = sum[k] BY DEF ChainBytes
<1> HIDE DEF sum
<1>4. sum[0] = 0 /\ \A i \in 1..L : sum[i] = sum[i - 1] + c[i].size
  <2>1. 0 \in 0..L /\ \A i \in 1..L : i \in 0..L /\ i # 0 BY <1>0
  <2>2. QED BY <1>2, <2>1
<1>5. \A i \in 1..L : c[i].size \in Nat
  <2>1. \A i \in 1..L : c[i] \in Edge BY <1>0, ElementOfSeq
  <2>2. QED BY <2>1, PlanAssumption DEF Edge
<1> HIDE DEF c, L
<1>6. \A i \in 0..L : sum[i] \in Nat
  <2> DEFINE T == {i \in 0..L : sum[i] \notin Nat}
  <2>1. SUFFICES ASSUME T # {} PROVE FALSE OBVIOUS
  <2>2. T \subseteq Nat BY <1>0
  <2>3. PICK n \in T : \A m \in T : n <= m
    <3> HIDE DEF T
    <3>1. QED BY <2>1, <2>2, LeastNat
  <2>4. n \in 0..L /\ sum[n] \notin Nat /\ n \in Nat /\ n # 0 BY <1>0, <1>4, <2>3
  <2>5. n \in 1..L /\ n - 1 \in 0..L /\ ~(n <= n - 1) BY <1>0, <2>4
  <2>6. n - 1 \notin T BY <2>3, <2>5
  <2>7. sum[n - 1] \in Nat BY <2>5, <2>6
  <2>8. sum[n] \in Nat BY <1>4, <1>5, <2>5, <2>7
  <2>9. QED BY <2>4, <2>8
<1>7. ASSUME NEW j \in 0..L, NEW k \in 0..L, j <= k PROVE sum[j] <= sum[k]
  <2> DEFINE T == {i \in j..L : ~(sum[j] <= sum[i])}
  <2>1. SUFFICES ASSUME T # {} PROVE FALSE
    <3>1. k \in j..L BY <1>0, <1>7
    <3>2. QED BY <3>1
  <2>2. T \subseteq Nat BY <1>0
  <2>3. PICK n \in T : \A m \in T : n <= m
    <3> HIDE DEF T
    <3>1. QED BY <2>1, <2>2, LeastNat
  <2>4. n \in j..L /\ n \in Nat /\ j \in Nat /\ ~(sum[j] <= sum[n]) BY <1>0, <2>3
  <2>5. n # j BY <1>6, <2>4
  <2>6. n \in 1..L /\ n - 1 \in j..L /\ n - 1 \in 0..L /\ ~(n <= n - 1) BY <1>0, <2>4, <2>5
  <2>7. sum[j] <= sum[n - 1]
    <3>1. n - 1 \notin T BY <2>3, <2>6
    <3>2. QED BY <2>6, <3>1
  <2>8. sum[n] = sum[n - 1] + c[n].size /\ c[n].size \in Nat BY <1>4, <1>5, <2>6
  <2>9. sum[j] \in Nat /\ sum[n - 1] \in Nat BY <1>6, <2>6
  <2>10. QED BY <2>4, <2>7, <2>8, <2>9
<1>8. QED BY <1>3, <1>6, <1>7 DEF L, c

-----------------------------------------------------------------------------
(***************************************************************************)
(* The plan.                                                               *)
(***************************************************************************)
\* MakePlan's match is the one nearest to the head, and the cheapest.
LEMMA FirstMatch ==
    ASSUME NEW p \in Pointer, NEW h, Matches(p, h) # {}
    PROVE  /\ First(Matches(p, h)) \in Matches(p, h)
           /\ First(Matches(p, h)) \in 1..Len(p.chain)
           /\ \A k \in Matches(p, h) : ChainBytes(p, First(Matches(p, h))) <= ChainBytes(p, k)
<1> DEFINE M == Matches(p, h)
<1>0. Len(p.chain) \in Nat
  <2>1. p.chain \in Seq(Edge) BY DEF Pointer
  <2>2. QED BY <2>1, LenProperties
<1>1. M \subseteq 1..Len(p.chain) BY DEF Matches
<1>2. M \subseteq Nat BY <1>0, <1>1
<1> HIDE DEF M
<1>3. \E n \in M : \A m \in M : n <= m BY <1>2, LeastNat DEF M
<1>4. First(M) \in M /\ \A m \in M : First(M) <= m BY <1>3 DEF First
<1>5. \A k \in M : ChainBytes(p, First(M)) <= ChainBytes(p, k)
  <2> TAKE k \in M
  <2> DEFINE n == First(M)
  <2>0. n \in 1..Len(p.chain) /\ k \in 1..Len(p.chain) /\ n <= k BY <1>1, <1>4
  <2> HIDE DEF n
  <2>1. n \in 0..Len(p.chain) /\ k \in 0..Len(p.chain) /\ n <= k BY <1>0, <2>0
  <2>2. QED BY <2>1, ChainBytesGrow DEF n
<1>6. QED BY <1>1, <1>4, <1>5 DEF M

\* The plans have their types; a chain plan lists its edges oldest first.
LEMMA PlanTyped ==
    ASSUME NEW p \in Pointer
    PROVE  /\ \A b \in BOOLEAN : NoPlan(p, b) \in [kind: {"none", "chain", "blob"}, edges: Seq(Edge), bytes: Nat, atHead: BOOLEAN]
           /\ p.blob # NoBlob => BlobPlan(p) \in [kind: {"none", "chain", "blob"}, edges: Seq(Edge), bytes: Nat, atHead: BOOLEAN]
           /\ \A k \in 1..Len(p.chain) :
                /\ ChainPlan(p, k) \in [kind: {"none", "chain", "blob"}, edges: Seq(Edge), bytes: Nat, atHead: BOOLEAN]
                /\ Len(ChainPlan(p, k).edges) = k
                /\ \A j \in 1..k : ChainPlan(p, k).edges[j] = p.chain[k + 1 - j]
<1>1. <<>> \in Seq(Edge) BY EmptySeq
<1>2. p.blob # NoBlob => p.blob \in Nat BY PlanAssumption DEF Pointer
<1>3. p.chain \in Seq(Edge) BY DEF Pointer
<1>4. Len(p.chain) \in Nat BY <1>3, LenProperties
<1>5. ASSUME NEW k \in 1..Len(p.chain)
      PROVE  /\ ChainPlan(p, k) \in [kind: {"none", "chain", "blob"}, edges: Seq(Edge), bytes: Nat, atHead: BOOLEAN]
             /\ Len(ChainPlan(p, k).edges) = k
             /\ \A j \in 1..k : ChainPlan(p, k).edges[j] = p.chain[k + 1 - j]
  <2> DEFINE e == [j \in 1..k |-> p.chain[k + 1 - j]]
  <2>1. k \in Nat BY <1>4
  <2>2. \A j \in 1..k : p.chain[k + 1 - j] \in Edge
    <3>1. \A j \in 1..k : k + 1 - j \in 1..Len(p.chain) BY <1>4
    <3>2. QED BY <1>3, <3>1, ElementOfSeq
  <2>3. e \in Seq(Edge) /\ Len(e) = k
    <3>1. e \in [1..k -> Edge] BY <2>2
    <3>2. e \in Seq(Edge)
      <4>1. Seq(Edge) = UNION {[1..n -> Edge] : n \in Nat} BY SeqDef
      <4>2. [1..k -> Edge] \in {[1..n -> Edge] : n \in Nat} BY <2>1
      <4>3. QED BY <3>1, <4>1, <4>2, Zenon
    <3>3. DOMAIN e = 1..k OBVIOUS
    <3> HIDE DEF e
    <3>4. Len(e) = k BY <2>1, <3>2, <3>3
    <3>5. QED BY <3>2, <3>4
  <2>4. ChainBytes(p, k) \in Nat
    <3>1. k \in 0..Len(p.chain) BY <1>4
    <3>2. QED BY <3>1, ChainBytesGrow
  <2>5. ChainPlan(p, k) = [kind |-> "chain", edges |-> e, bytes |-> ChainBytes(p, k), atHead |-> FALSE]
    BY DEF ChainPlan
  <2>6. \A j \in 1..k : e[j] = p.chain[k + 1 - j] OBVIOUS
  <2> HIDE DEF e
  <2>7. QED BY <2>3, <2>4, <2>5, <2>6
<1>6. QED BY <1>1, <1>2, <1>5 DEF NoPlan, BlobPlan

\* A blob plan and an empty plan are what they say.
LEMMA MakePlanIs ==
    ASSUME NEW p \in Pointer, NEW h
    PROVE  \/ h = p.head /\ MakePlan(p, h) = NoPlan(p, TRUE)
           \/ \E k \in Matches(p, h) :
                MakePlan(p, h) = ChainPlan(p, k) /\ k \in 1..Len(p.chain)
                /\ (p.blob # NoBlob => ChainBytes(p, k) < p.blob)
                /\ \A j \in Matches(p, h) : ChainBytes(p, k) <= ChainBytes(p, j)
           \/ /\ p.blob # NoBlob /\ MakePlan(p, h) = BlobPlan(p)
              /\ \A j \in Matches(p, h) : p.blob <= ChainBytes(p, j)
           \/ /\ p.blob = NoBlob /\ Matches(p, h) = {} /\ MakePlan(p, h) = NoPlan(p, FALSE)
<1> DEFINE M == Matches(p, h)
           k == First(Matches(p, h))
<1>1. CASE h = p.head BY <1>1 DEF MakePlan
<1>2. CASE h # p.head /\ M # {} /\ ChainPays(p, k)
  <2>1. MakePlan(p, h) = ChainPlan(p, k) BY <1>2 DEF MakePlan
  <2>2. p.blob # NoBlob => ChainBytes(p, k) < p.blob BY <1>2 DEF ChainPays
  <2>3. k \in M /\ k \in 1..Len(p.chain) /\ \A j \in M : ChainBytes(p, k) <= ChainBytes(p, j)
    BY <1>2, FirstMatch
  <2>4. QED BY <2>1, <2>2, <2>3
<1>3. CASE h # p.head /\ ~(M # {} /\ ChainPays(p, k)) /\ p.blob # NoBlob
  <2>1. MakePlan(p, h) = BlobPlan(p) BY <1>3 DEF MakePlan
  <2>2. ASSUME NEW j \in M PROVE p.blob <= ChainBytes(p, j)
    <3>1. ~(ChainBytes(p, k) < p.blob) BY <1>3, <2>2 DEF ChainPays
    <3>2. k \in 1..Len(p.chain) /\ ChainBytes(p, k) <= ChainBytes(p, j) BY <2>2, FirstMatch
    <3>3. j \in 1..Len(p.chain) BY <2>2 DEF Matches
    <3>4. Len(p.chain) \in Nat
      <4>1. p.chain \in Seq(Edge) BY DEF Pointer
      <4>2. QED BY <4>1, LenProperties
    <3>5. k \in 0..Len(p.chain) /\ j \in 0..Len(p.chain) BY <3>2, <3>3, <3>4
    <3>6. ChainBytes(p, k) \in Nat /\ ChainBytes(p, j) \in Nat BY <3>5, ChainBytesGrow
    <3>7. p.blob \in Nat BY <1>3, PlanAssumption DEF Pointer
    <3>8. QED BY <3>1, <3>2, <3>6, <3>7
  <2>3. QED BY <1>3, <2>1, <2>2
<1>4. CASE h # p.head /\ ~(M # {} /\ ChainPays(p, k)) /\ p.blob = NoBlob
  <2>1. M = {} BY <1>4 DEF ChainPays
  <2>2. QED BY <1>4, <2>1 DEF MakePlan
<1>5. QED BY <1>1, <1>2, <1>3, <1>4

\* The initial state: a pointer as read, and nothing decided.
LEMMA PlanInitOK == PlanInit => PlanInv
<1> SUFFICES ASSUME PlanInit PROVE PlanInv
  OBVIOUS
<1>1. pointer \in Pointer
  <2>1. pointer.head \in Hashes /\ pointer.blob \in Sizes \cup {NoBlob}
        /\ pointer.chain \in UNION {[1..n -> Edge] : n \in 0..MaxEdges}
        /\ pointer = [head |-> pointer.head, blob |-> pointer.blob, chain |-> pointer.chain]
    BY DEF PlanInit, Pointers
  <2>2. pointer.chain \in Seq(Edge)
    <3>1. 0..MaxEdges \subseteq Nat BY PlanAssumption
    <3>2. Seq(Edge) = UNION {[1..n -> Edge] : n \in Nat} BY SeqDef
    <3>3. QED BY <2>1, <3>1, <3>2, Zenon
  <2>3. QED BY <2>1, <2>2 DEF Pointer
<1>2. plan \in [kind: {"none", "chain", "blob"}, edges: Seq(Edge), bytes: Nat, atHead: BOOLEAN]
  BY <1>1, PlanTyped DEF PlanInit
<1>3. PlanTypeOK BY <1>1, <1>2 DEF PlanInit, PlanTypeOK
<1>4. PlanOK /\ PlanReachesHead /\ PlanIsCheapest BY DEF PlanInit, PlanOK, PlanReachesHead, PlanIsCheapest
<1>5. QED BY <1>3, <1>4 DEF PlanInv

\* Decide: the plan has its reason, and nothing published is cheaper.
LEMMA DecideOK ==
    ASSUME PlanInv, Decide
    PROVE  PlanInv'
<1>0. PlanTypeOK /\ pointer \in Pointer /\ Parses(pointer) /\ data = current /\ applied = 0
  BY DEF PlanInv, PlanTypeOK, PlanOK, Decide
<1>1. /\ plan' = MakePlan(pointer, current) /\ UNCHANGED <<pointer, current, data, applied>>
      /\ phase' = IF plan'.kind = "none" THEN "done" ELSE "apply"
  BY DEF Decide
<1>2. pointer.chain \in Seq(Edge) /\ Len(pointer.chain) \in Nat
  <2>1. pointer.chain \in Seq(Edge) BY <1>0 DEF Pointer
  <2>2. QED BY <2>1, LenProperties
<1>3. CASE current = pointer.head /\ plan' = NoPlan(pointer, TRUE)
  <2>1. plan'.kind = "none" BY <1>3 DEF NoPlan
  <2>2. PlanTypeOK' BY <1>0, <1>1, <1>3, <2>1, PlanTyped DEF PlanTypeOK
  <2>3. QED BY <1>0, <1>1, <1>3, <2>1, <2>2 DEF PlanInv, PlanOK, PlanReachesHead, PlanIsCheapest
<1>4. CASE \E k \in Matches(pointer, current) :
              plan' = ChainPlan(pointer, k) /\ k \in 1..Len(pointer.chain)
              /\ (pointer.blob # NoBlob => ChainBytes(pointer, k) < pointer.blob)
              /\ \A j \in Matches(pointer, current) : ChainBytes(pointer, k) <= ChainBytes(pointer, j)
  <2>1. PICK k \in Matches(pointer, current) :
              plan' = ChainPlan(pointer, k) /\ k \in 1..Len(pointer.chain)
              /\ (pointer.blob # NoBlob => ChainBytes(pointer, k) < pointer.blob)
              /\ \A j \in Matches(pointer, current) : ChainBytes(pointer, k) <= ChainBytes(pointer, j)
    BY <1>4
  <2>2. plan'.kind = "chain" /\ plan'.bytes = ChainBytes(pointer, k) BY <2>1 DEF ChainPlan
  <2>3. PlanTypeOK' BY <1>0, <1>1, <2>1, <2>2, PlanTyped DEF PlanTypeOK
  <2>4. Chained(k)'
    <3>1. applied' <= k /\ applied' = 0 /\ data' = current' BY <1>0, <1>1, <1>2, <2>1
    <3>2. QED BY <1>1, <2>1, <3>1 DEF Chained
  <2>5. PlanOK' BY <1>0, <1>1, <2>1, <2>2, <2>4 DEF PlanOK
  <2>6. PlanReachesHead' BY <1>1, <2>2 DEF PlanReachesHead
  <2>7. PlanIsCheapest'
    <3>1. k \in 0..Len(pointer.chain) BY <1>2, <2>1
    <3>2. ChainBytes(pointer, k) \in Nat BY <1>0, <3>1, ChainBytesGrow
    <3>3. pointer.blob # NoBlob => pointer.blob \in Nat BY <1>0, PlanAssumption DEF Pointer
    <3>4. pointer.blob # NoBlob => ChainBytes(pointer, k) <= pointer.blob BY <2>1, <3>2, <3>3
    <3>5. QED BY <1>1, <2>1, <2>2, <3>4 DEF PlanIsCheapest
  <2>8. QED BY <2>3, <2>5, <2>6, <2>7 DEF PlanInv
<1>5. CASE /\ pointer.blob # NoBlob /\ plan' = BlobPlan(pointer)
           /\ \A j \in Matches(pointer, current) : pointer.blob <= ChainBytes(pointer, j)
  <2>1. plan'.kind = "blob" /\ plan'.bytes = pointer.blob BY <1>5 DEF BlobPlan
  <2>2. PlanTypeOK' BY <1>0, <1>1, <1>5, <2>1, PlanTyped DEF PlanTypeOK
  <2>3. PlanOK' BY <1>0, <1>1, <1>5, <2>1 DEF PlanOK
  <2>4. PlanReachesHead' BY <1>1, <2>1 DEF PlanReachesHead
  <2>5. PlanIsCheapest'
    <3>1. pointer.blob \in Nat BY <1>0, <1>5, PlanAssumption DEF Pointer
    <3>2. pointer.blob <= pointer.blob BY <3>1
    <3>3. QED BY <1>1, <1>5, <2>1, <3>2 DEF PlanIsCheapest
  <2>6. QED BY <2>2, <2>3, <2>4, <2>5 DEF PlanInv
<1>6. CASE pointer.blob = NoBlob /\ Matches(pointer, current) = {} /\ plan' = NoPlan(pointer, FALSE)
  <2>1. plan'.kind = "none" /\ ~plan'.atHead BY <1>6 DEF NoPlan
  <2>2. PlanTypeOK' BY <1>0, <1>1, <1>6, <2>1, PlanTyped DEF PlanTypeOK
  <2>3. PlanOK' /\ PlanIsCheapest' BY <1>1, <2>1 DEF PlanOK, PlanIsCheapest
  <2>4. PlanReachesHead' BY <1>1, <1>6, <2>1 DEF PlanReachesHead
  <2>5. QED BY <2>2, <2>3, <2>4 DEF PlanInv
<1>7. QED BY <1>0, <1>1, <1>3, <1>4, <1>5, <1>6, MakePlanIs

\* One patch takes the bytes from one release of the chain to the next.
LEMMA ApplyEdgeOK ==
    ASSUME PlanInv, ApplyEdge
    PROVE  PlanInv'
<1>0. PlanTypeOK /\ pointer \in Pointer /\ Parses(pointer) /\ PlanIsCheapest /\ phase = "apply" /\ plan.kind = "chain"
  BY DEF PlanInv, PlanTypeOK, PlanOK, ApplyEdge
<1>1. /\ UNCHANGED <<pointer, current, plan, phase>> /\ applied' = applied + 1 /\ applied < Len(plan.edges)
      /\ data' = IF plan.edges[applied + 1].from = data THEN plan.edges[applied + 1].to ELSE Broken
  BY DEF ApplyEdge
<1>2. PICK k \in 1..Len(pointer.chain) : Chained(k)
  <2>1. plan # BlobPlan(pointer) BY <1>0 DEF BlobPlan
  <2>2. QED BY <1>0, <2>1 DEF PlanInv, PlanOK
<1> DEFINE c == pointer.chain
           e == plan.edges[applied + 1]
<1>3. c \in Seq(Edge) /\ Len(c) \in Nat
  <2>1. c \in Seq(Edge) BY <1>0 DEF Pointer
  <2>2. QED BY <2>1, LenProperties
<1>4. applied \in Nat /\ k \in Nat BY <1>0, <1>2, <1>3 DEF PlanTypeOK
<1>5. Len(plan.edges) = k /\ \A j \in 1..k : plan.edges[j] = c[k + 1 - j]
  BY <1>0, <1>2, PlanTyped DEF Chained
<1>6. applied < k /\ applied + 1 \in 1..k /\ k - applied \in 1..Len(c) /\ k + 1 - (applied + 1) = k - applied
  BY <1>1, <1>2, <1>3, <1>4, <1>5
<1>7. e = c[k - applied] BY <1>5, <1>6
<1>8. e.from = data
  <2>1. CASE applied = 0
    <3>1. data = current /\ c[k].from = current BY <1>2, <2>1 DEF Chained, Matches
    <3>2. k - applied = k BY <1>4, <2>1
    <3>3. QED BY <1>7, <3>1, <3>2
  <2>2. CASE applied # 0
    <3>1. data = c[k + 1 - applied].to BY <1>2, <2>2 DEF Chained
    <3>2. k + 1 - applied \in 1..Len(c) /\ k + 1 - applied # 1 /\ (k + 1 - applied) - 1 = k - applied
      BY <1>2, <1>3, <1>4, <1>6, <2>2
    <3>3. c[k + 1 - applied].to = c[(k + 1 - applied) - 1].from BY <1>0, <3>2 DEF Parses
    <3>4. QED BY <1>7, <3>1, <3>2, <3>3
  <2>3. QED BY <2>1, <2>2
<1>9. data' = c[k + 1 - (applied + 1)].to BY <1>1, <1>6, <1>7, <1>8
<1>10. Chained(k)'
  <2>1. applied' <= k /\ applied' # 0 BY <1>1, <1>4, <1>6
  <2>2. data' = pointer'.chain[k + 1 - applied'].to BY <1>1, <1>9
  <2>3. QED BY <1>1, <1>2, <2>1, <2>2 DEF Chained
<1>11. PlanTypeOK'
  <2>1. c[k - applied] \in Edge BY <1>3, <1>6, ElementOfSeq
  <2>2. data' \in Hashes BY <1>6, <1>9, <2>1 DEF Edge
  <2>3. applied' \in Nat BY <1>1, <1>4
  <2>4. QED BY <1>0, <1>1, <2>2, <2>3 DEF PlanTypeOK
<1>12. PlanOK' BY <1>0, <1>1, <1>2, <1>10 DEF PlanOK
<1>13. PlanReachesHead' /\ PlanIsCheapest' BY <1>0, <1>1 DEF PlanReachesHead, PlanIsCheapest
<1>14. QED BY <1>11, <1>12, <1>13 DEF PlanInv

\* The last patch of the chain ends at the head.
LEMMA ChainDoneOK ==
    ASSUME PlanInv, ChainDone
    PROVE  PlanInv'
<1>0. PlanTypeOK /\ pointer \in Pointer /\ Parses(pointer) /\ PlanIsCheapest /\ phase = "apply" /\ plan.kind = "chain"
  BY DEF PlanInv, PlanTypeOK, PlanOK, ChainDone
<1>1. UNCHANGED <<pointer, current, plan, data, applied>> /\ phase' = "done" /\ applied = Len(plan.edges)
  BY DEF ChainDone
<1>2. PICK k \in 1..Len(pointer.chain) : Chained(k)
  <2>1. plan # BlobPlan(pointer) BY <1>0 DEF BlobPlan
  <2>2. QED BY <1>0, <2>1 DEF PlanInv, PlanOK
<1>3. Len(plan.edges) = k BY <1>0, <1>2, PlanTyped DEF Chained
<1>4. Len(pointer.chain) \in Nat
  <2>1. pointer.chain \in Seq(Edge) BY <1>0 DEF Pointer
  <2>2. QED BY <2>1, LenProperties
<1>5. k # 0 /\ k + 1 - applied = 1 /\ 1 \in 1..Len(pointer.chain) BY <1>1, <1>2, <1>3, <1>4
<1>6. data = pointer.chain[1].to BY <1>1, <1>2, <1>3, <1>5 DEF Chained
<1>7. data' = pointer'.head BY <1>0, <1>1, <1>5, <1>6 DEF Parses
<1>8. PlanTypeOK' BY <1>0, <1>1 DEF PlanTypeOK
<1>9. PlanOK' /\ PlanReachesHead' /\ PlanIsCheapest' BY <1>0, <1>1, <1>7 DEF PlanOK, PlanReachesHead, PlanIsCheapest
<1>10. QED BY <1>8, <1>9 DEF PlanInv

\* The blob is asked for: the rest of the plan is forgotten.
LEMMA StartBlobPlanOK ==
    ASSUME PlanInv, phase = "apply", pointer.blob # NoBlob, StartBlob
    PROVE  PlanInv'
<1>0. PlanTypeOK /\ pointer \in Pointer BY DEF PlanInv, PlanTypeOK
<1>1. /\ pointer' = [pointer EXCEPT !.chain = <<>>] /\ current' = Zero /\ data' = Zero /\ applied' = 0
      /\ plan' = BlobPlan(pointer) /\ phase' = "blob"
  BY DEF StartBlob
<1>2. /\ pointer'.blob = pointer.blob /\ pointer'.chain = <<>> /\ pointer' \in Pointer
  <2>1. <<>> \in Seq(Edge) BY EmptySeq
  <2>2. QED BY <1>0, <1>1, <2>1 DEF Pointer
<1>3. PlanTypeOK'
  <2>1. plan' \in [kind: {"none", "chain", "blob"}, edges: Seq(Edge), bytes: Nat, atHead: BOOLEAN]
    BY <1>0, <1>1, PlanTyped
  <2>2. QED BY <1>1, <1>2, <2>1 DEF PlanTypeOK, Hashes
<1>4. plan' = BlobPlan(pointer') BY <1>1, <1>2 DEF BlobPlan
<1>5. PlanOK' BY <1>1, <1>2, <1>4 DEF PlanOK
<1>6. PlanReachesHead' /\ PlanIsCheapest' BY <1>1 DEF PlanReachesHead, PlanIsCheapest
<1>7. QED BY <1>3, <1>5, <1>6 DEF PlanInv

\* Whichever way the cycle goes, the plan's part of the invariant is kept.
LEMMA PlanStep ==
    ASSUME PlanInv, [Next]_vars
    PROVE  PlanInv'
<1>0. PlanTypeOK /\ PlanOK BY DEF PlanInv
<1>1. CASE UNCHANGED planVars
  <2>1. PlanTypeOK' BY <1>0, <1>1 DEF PlanTypeOK, planVars
  <2>2. PlanOK' BY <1>0, <1>1 DEF PlanOK, Chained, planVars
  <2>3. PlanReachesHead' /\ PlanIsCheapest' BY <1>1 DEF PlanInv, PlanReachesHead, PlanIsCheapest, planVars
  <2>4. QED BY <2>1, <2>2, <2>3 DEF PlanInv
<1>2. CASE Parse
  <2>1. UNCHANGED <<pointer, current, plan, data, applied>> /\ phase = "parse"
        /\ phase' = IF Parses(pointer) THEN "plan" ELSE "refused"
    BY <1>2 DEF Parse
  <2>2. PlanTypeOK' BY <1>0, <2>1 DEF PlanTypeOK
  <2>3. PlanOK' BY <1>0, <2>1 DEF PlanOK, Parses
  <2>4. PlanReachesHead' /\ PlanIsCheapest' BY <2>1 DEF PlanReachesHead, PlanIsCheapest
  <2>5. QED BY <2>2, <2>3, <2>4 DEF PlanInv
<1>3. CASE Decide BY <1>3, DecideOK
<1>4. CASE ApplyEdge BY <1>4, ApplyEdgeOK
<1>5. CASE ChainDone BY <1>5, ChainDoneOK
<1>6. CASE TakeBlob
  <2>1. phase = "apply" /\ plan.kind = "blob" /\ StartBlob BY <1>6 DEF TakeBlob
  <2>2. pointer.blob # NoBlob BY <1>0, <2>1 DEF PlanOK, Chained, ChainPlan
  <2>3. QED BY <2>1, <2>2, StartBlobPlanOK
<1>7. CASE (\E result : GiveUp(result))
  <2>1. UNCHANGED <<pointer, current, plan, data, applied>> /\ phase' = "failed" BY <1>7 DEF GiveUp
  <2>2. PlanTypeOK' BY <1>0, <2>1 DEF PlanTypeOK
  <2>3. PlanOK' /\ PlanReachesHead' /\ PlanIsCheapest' BY <2>1 DEF PlanOK, PlanReachesHead, PlanIsCheapest
  <2>4. QED BY <2>2, <2>3 DEF PlanInv
<1>8. CASE PatchUnsupported
  <2>1. CASE pointer.blob # NoBlob /\ StartBlob BY <1>8, <2>1, StartBlobPlanOK DEF PatchUnsupported, ChainRuns
  <2>2. QED BY <1>7, <1>8, <2>1 DEF PatchUnsupported
<1>9. CASE PatchFails BY <1>7, <1>9 DEF PatchFails
<1>10. CASE BlobReturns
  <2>1. /\ UNCHANGED <<pointer, current, plan, applied>> /\ phase = "blob"
        /\ phase' = IF outcome = "updated" THEN "done" ELSE "failed"
        /\ data' = IF outcome = "updated" THEN pointer.head ELSE Broken
    BY <1>10 DEF BlobReturns
  <2>2. plan = BlobPlan(pointer) /\ pointer.blob # NoBlob /\ pointer.chain = <<>> BY <1>0, <2>1 DEF PlanOK
  <2>3. PlanTypeOK'
    <3>1. pointer.head \in Hashes BY <1>0 DEF PlanTypeOK, Pointer
    <3>2. QED BY <1>0, <2>1, <3>1 DEF PlanTypeOK
  <2>4. PlanOK' /\ PlanReachesHead' BY <2>1 DEF PlanOK, PlanReachesHead
  <2>5. PlanIsCheapest'
    <3>1. Matches(pointer, current) = {} BY <2>2 DEF Matches
    <3>2. pointer.blob \in Nat BY <1>0, <2>2, PlanAssumption DEF PlanTypeOK, Pointer
    <3>3. pointer.blob <= pointer.blob BY <3>2
    <3>4. plan.bytes = pointer.blob BY <2>2 DEF BlobPlan
    <3>5. QED BY <2>1, <3>1, <3>3, <3>4 DEF PlanIsCheapest
  <2>6. QED BY <2>3, <2>4, <2>5 DEF PlanInv
<1>11. QED BY <1>1, <1>2, <1>3, <1>4, <1>5, <1>6, <1>8, <1>9, <1>10 DEF Next, Cycle, PlanNext, vars

-----------------------------------------------------------------------------
(***************************************************************************)
(* The download.                                                           *)
(***************************************************************************)
\* What a pass found wrong, as the errors that were joined.
LEMMA PassErrors ==
    ASSUME FetchTypeOK
    PROVE  /\ PassErrs = {} <=> ~Failed
           /\ "notFound" \in PassErrs <=> Err("notFound")
           /\ "verify" \in PassErrs <=> Err("verify")
BY DEF PassErrs, Failed, Err, NoErr

\* A pass starts with every frame that is missing and, if there is one, a worker.
LEMMA StartPassOK ==
    ASSUME FetchInv, StartPass
    PROVE  FetchInv'
<1>0. FetchTypeOK BY DEF FetchInv
<1>1. /\ pc' = "run" /\ todo' = Missing /\ errs' = [f \in Frames |-> NoErr] /\ cancelled' = FALSE
      /\ worker' = [w \in Workers |-> IF w <= Cardinality(Missing) THEN [Off EXCEPT !.at = "take"] ELSE Off]
      /\ UNCHANGED <<have, stopped, late, uploaded, faults, outcome, seen>>
  BY DEF StartPass, env
<1>2. \A w \in Workers : worker'[w] \in {Off, [at |-> "take", frame |-> 0, try |-> 0]} BY <1>1 DEF Off
<1>3. \A w \in Workers : ~Busy(w)' /\ worker'[w].at \in {"off", "take"}
  <2> TAKE w \in Workers
  <2>1. worker'[w].at = "off" \/ worker'[w].at = "take" BY <1>2 DEF Off
  <2>2. QED BY <2>1 DEF Busy
<1>4. FetchTypeOK'
  <2>1. worker' \in [Workers -> [at: {"off", "take", "get", "sleep"}, frame: 0..NumFrames, try: 0..FetchTries]]
    <3>1. 0 \in 0..NumFrames /\ 0 \in 0..FetchTries BY BlobFetchAssumption
    <3>2. \A w \in Workers : worker'[w] \in [at: {"off", "take", "get", "sleep"}, frame: 0..NumFrames, try: 0..FetchTries]
      BY <1>2, <3>1 DEF Off
    <3>3. QED BY <1>1, <3>2
  <2>2. errs' \in [Frames -> {NoErr, "notFound", "transport", "verify", "context"}] BY <1>1
  <2>3. todo' \subseteq Frames BY <1>1 DEF Missing
  <2>4. QED BY <1>0, <1>1, <2>1, <2>2, <2>3 DEF FetchTypeOK
<1>5. Dispatch' /\ DispatchedOnce' BY <1>1, <1>3 DEF Dispatch, DispatchedOnce, Missing
<1>6. ~Failed' /\ ~Err("verify")' BY <1>1 DEF Failed, Err, NoErr
<1>7. Cause' BY <1>1, <1>6 DEF Cause
<1>8. Accounted'
  <2>1. \A f \in Frames : have'[f] \/ f \in todo' BY <1>1 DEF Missing
  <2>2. ASSUME todo' # {} PROVE \E w \in Workers : worker'[w].at # "off"
    <3>1. IsFiniteSet(Missing)
      <4>1. IsFiniteSet(Frames) BY FS_Interval, BlobFetchAssumption DEF Frames
      <4>2. Missing \subseteq Frames BY DEF Missing
      <4>3. QED BY <4>1, <4>2, FS_Subset
    <3>2. Cardinality(Missing) \in Nat /\ Cardinality(Missing) # 0
      BY <1>1, <2>2, <3>1, FS_CardinalityType, FS_EmptySet
    <3>3. 1 \in Workers /\ 1 <= Cardinality(Missing) BY <3>2, BlobFetchAssumption DEF Workers
    <3>4. worker'[1].at = "take" BY <1>1, <3>3 DEF Off
    <3>5. QED BY <3>3, <3>4
  <2>3. QED BY <2>1, <2>2 DEF Accounted
<1>9. Assembled' /\ VerifyMeansWrong' /\ WaitsForBlob'
  BY <1>1 DEF FetchInv, Assembled, VerifyMeansWrong, WaitsForBlob
<1>10. QED BY <1>4, <1>5, <1>7, <1>8, <1>9 DEF FetchInv

\* A pass that ends without an error has every frame, unless the agent is stopped.
LEMMA PassEndsOK ==
    ASSUME FetchInv, PassEnds
    PROVE  FetchInv'
<1>0. FetchTypeOK /\ Dispatch /\ Cause /\ Accounted /\ DispatchedOnce /\ VerifyMeansWrong /\ WaitsForBlob
  BY DEF FetchInv
<1>1. /\ UNCHANGED <<have, todo, worker, errs, cancelled, stopped, late, uploaded, faults, seen>> /\ pc = "run"
      /\ \A w \in Workers : worker[w] = Off
      /\ \/ PassErrs = {} /\ pc' = "assembled" /\ outcome' = outcome
         \/ pc' = "wait" /\ outcome' = outcome
         \/ /\ PassErrs # {} /\ ("notFound" \notin PassErrs \/ late) /\ pc' = "end"
            /\ outcome' = IF "verify" \in PassErrs THEN "verifyFailed" ELSE "error"
  BY DEF PassEnds, Joined, Fail, env
<1>2. FetchTypeOK' BY <1>0, <1>1 DEF FetchTypeOK
<1>3. Dispatch' /\ Cause' /\ DispatchedOnce'
  BY <1>0, <1>1 DEF Dispatch, Cause, DispatchedOnce, Failed, Err, Busy
<1>4. Accounted' BY <1>1 DEF Accounted
<1>5. Assembled'
  <2> SUFFICES ASSUME pc' = "assembled", ~stopped PROVE \A f \in Frames : have[f]
    BY <1>1 DEF Assembled
  <2>1. ~Failed /\ ~cancelled BY <1>0, <1>1, PassErrors DEF Cause
  <2>2. \A w \in Workers : worker[w].at = "off" /\ ~Busy(w) BY <1>1 DEF Off, Busy
  <2>3. QED BY <1>0, <1>1, <2>1, <2>2 DEF Accounted
<1>6. VerifyMeansWrong' /\ WaitsForBlob'
  BY <1>0, <1>1, PassErrors DEF VerifyMeansWrong, WaitsForBlob, Cause
<1>7. QED BY <1>2, <1>3, <1>4, <1>5, <1>6 DEF FetchInv

\* The other ends of a download: a table that is not one file, a stop while
\* waiting, and the hash of what was assembled.
LEMMA DownloadEndsOK ==
    ASSUME FetchInv, BadTable \/ WaitInterrupted \/ Verify
    PROVE  FetchInv'
<1>0. FetchTypeOK /\ Dispatch /\ Cause /\ Assembled /\ DispatchedOnce /\ VerifyMeansWrong /\ WaitsForBlob
  BY DEF FetchInv
<1>1. /\ UNCHANGED <<have, todo, worker, errs, cancelled, stopped, late, uploaded, faults>>
      /\ pc # "run" /\ pc' = "end" /\ seen \subseteq seen' /\ seen' \subseteq seen \cup {"failed"}
      /\ outcome' \in {"updated", "error", "verifyFailed"}
      /\ outcome' = "verifyFailed" => stopped
      /\ outcome' = "error" => stopped \/ "failed" \in seen'
  BY <1>0 DEF BadTable, WaitInterrupted, Verify, Fail, env, Assembled
<1>2. FetchTypeOK' BY <1>0, <1>1 DEF FetchTypeOK
<1>3. Dispatch' /\ Cause' /\ DispatchedOnce'
  BY <1>0, <1>1 DEF Dispatch, Cause, DispatchedOnce, Failed, Err, Busy
<1>4. Accounted' /\ Assembled' BY <1>1 DEF Accounted, Assembled
<1>5. VerifyMeansWrong' /\ WaitsForBlob' BY <1>1 DEF VerifyMeansWrong, WaitsForBlob
<1>6. QED BY <1>2, <1>3, <1>4, <1>5 DEF FetchInv

\* A worker takes the lowest frame, or leaves.
LEMMA TakeOK ==
    ASSUME FetchInv, NEW w \in Workers, Take(w)
    PROVE  FetchInv'
<1>0. /\ FetchTypeOK /\ Dispatch /\ Cause /\ Accounted /\ Assembled
      /\ DispatchedOnce /\ VerifyMeansWrong /\ WaitsForBlob
  BY DEF FetchInv
<1>1. /\ UNCHANGED <<pc, have, errs, cancelled, stopped, late, uploaded, faults, outcome, seen>>
      /\ worker[w].at = "take" /\ ~Busy(w)
  BY DEF Take, env, Busy
<1>2. pc = "run" BY <1>0, <1>1 DEF FetchTypeOK, Off
<1>3. Cause' /\ Assembled' /\ VerifyMeansWrong' /\ WaitsForBlob'
  BY <1>0, <1>1 DEF Cause, Failed, Err, Assembled, VerifyMeansWrong, WaitsForBlob
<1>4. CASE (CtxDone \/ todo = {}) /\ worker' = [worker EXCEPT ![w] = Off] /\ todo' \subseteq todo
  <2>1. \A v \in Workers : worker'[v] = IF v = w THEN Off ELSE worker[v] BY <1>0, <1>4 DEF FetchTypeOK
  <2>2. \A v \in Workers : Busy(v)' <=> (v # w /\ Busy(v)) BY <2>1 DEF Busy, Off
  <2>3. FetchTypeOK'
    <3>1. Off \in [at: {"off", "take", "get", "sleep"}, frame: 0..NumFrames, try: 0..FetchTries]
      BY BlobFetchAssumption DEF Off
    <3>2. worker' \in [Workers -> [at: {"off", "take", "get", "sleep"}, frame: 0..NumFrames, try: 0..FetchTries]]
      BY <1>0, <1>4, <3>1 DEF FetchTypeOK
    <3>3. QED BY <1>0, <1>1, <1>2, <1>4, <3>2 DEF FetchTypeOK
  <2>4. Dispatch' /\ DispatchedOnce' BY <1>0, <1>1, <1>4, <2>1, <2>2 DEF Dispatch, DispatchedOnce
  <2>5. Accounted'
    <3> SUFFICES ASSUME ~cancelled, ~stopped
                 PROVE  /\ \A f \in Frames : have'[f] \/ f \in todo' \/ \E v \in Workers : Busy(v)' /\ worker'[v].frame = f
                        /\ todo' = {}
      BY <1>1 DEF Accounted
    <3>1. todo = {} /\ todo' = {} BY <1>4 DEF CtxDone
    <3>2. ASSUME NEW f \in Frames PROVE have[f] \/ \E v \in Workers : Busy(v)' /\ worker'[v].frame = f
      <4>1. have[f] \/ \E v \in Workers : Busy(v) /\ worker[v].frame = f BY <1>0, <1>2, <3>1 DEF Accounted
      <4>2. QED BY <1>1, <2>1, <2>2, <4>1
    <3>3. QED BY <1>1, <3>1, <3>2
  <2>6. QED BY <1>3, <2>3, <2>4, <2>5 DEF FetchInv
<1>5. CASE \E f \in todo : /\ ~CtxDone /\ todo' = todo \ {f}
                           /\ worker' = [worker EXCEPT ![w] = [at |-> "get", frame |-> f, try |-> 1]]
  <2>1. PICK f \in todo : /\ ~CtxDone /\ todo' = todo \ {f}
                          /\ worker' = [worker EXCEPT ![w] = [at |-> "get", frame |-> f, try |-> 1]]
    BY <1>5
  <2>2. \A v \in Workers : worker'[v] = IF v = w THEN [at |-> "get", frame |-> f, try |-> 1] ELSE worker[v]
    BY <1>0, <2>1 DEF FetchTypeOK
  <2>3. /\ \A v \in Workers : Busy(v)' <=> (v = w \/ Busy(v))
        /\ worker'[w].frame = f /\ worker'[w].at = "get"
        /\ \A v \in Workers \ {w} : worker'[v] = worker[v]
    BY <2>2 DEF Busy
  <2>4. f \in Frames /\ todo \subseteq Frames /\ ~have[f] /\ errs[f] = NoErr BY <1>0, <2>1 DEF FetchTypeOK, Dispatch
  <2>5. FetchTypeOK'
    <3>1. f \in 0..NumFrames /\ 1 \in 0..FetchTries BY <2>4, BlobFetchAssumption DEF Frames
    <3>2. worker' \in [Workers -> [at: {"off", "take", "get", "sleep"}, frame: 0..NumFrames, try: 0..FetchTries]]
      BY <1>0, <2>1, <3>1 DEF FetchTypeOK
    <3>3. QED BY <1>0, <1>1, <1>2, <2>1, <3>2 DEF FetchTypeOK
  <2>6. Dispatch' BY <1>0, <1>1, <2>1, <2>3, <2>4 DEF Dispatch
  <2>7. DispatchedOnce'
    <3>1. \A v \in Workers \ {w} : Busy(v) => worker[v].frame # f BY <1>0, <2>1 DEF Dispatch
    <3>2. QED BY <1>0, <1>1, <2>3, <2>4, <3>1 DEF DispatchedOnce
  <2>8. Accounted'
    <3>1. ASSUME ~cancelled, ~stopped, NEW g \in Frames
          PROVE  have[g] \/ g \in todo' \/ \E v \in Workers : Busy(v)' /\ worker'[v].frame = g
      <4>1. have[g] \/ g \in todo \/ \E v \in Workers : Busy(v) /\ worker[v].frame = g
        BY <1>0, <1>2, <3>1 DEF Accounted
      <4>2. QED BY <1>1, <2>1, <2>3, <4>1
    <3>2. QED BY <1>1, <2>3, <3>1 DEF Accounted
  <2>9. QED BY <1>3, <2>5, <2>6, <2>7, <2>8 DEF FetchInv
<1>6. QED BY <1>4, <1>5 DEF Take

\* The record of a worker that leaves, or goes for the next frame.
LEMMA IdleWorker ==
    ASSUME FetchTypeOK, NEW w \in Workers, NEW at \in {"off", "take"},
           worker' = [worker EXCEPT ![w] = [Off EXCEPT !.at = at]]
    PROVE  /\ worker' \in [Workers -> [at: {"off", "take", "get", "sleep"}, frame: 0..NumFrames, try: 0..FetchTries]]
           /\ worker'[w].at = at
           /\ \A v \in Workers \ {w} : worker'[v] = worker[v]
           /\ \A v \in Workers : Busy(v)' <=> (v # w /\ Busy(v))
<1>1. 0 \in 0..NumFrames /\ 0 \in 0..FetchTries BY BlobFetchAssumption
<1>2. [Off EXCEPT !.at = at] = [at |-> at, frame |-> 0, try |-> 0] BY DEF Off
<1>3. [Off EXCEPT !.at = at] \in [at: {"off", "take", "get", "sleep"}, frame: 0..NumFrames, try: 0..FetchTries]
  BY <1>1, <1>2
<1>4. worker' \in [Workers -> [at: {"off", "take", "get", "sleep"}, frame: 0..NumFrames, try: 0..FetchTries]]
  BY <1>3 DEF FetchTypeOK
<1>5. worker'[w] = [at |-> at, frame |-> 0, try |-> 0] BY <1>2 DEF FetchTypeOK
<1>6. \A v \in Workers \ {w} : worker'[v] = worker[v] BY DEF FetchTypeOK
<1>7. worker'[w].at = at /\ ~Busy(w)' BY <1>5 DEF Busy
<1>8. \A v \in Workers : Busy(v)' <=> (v # w /\ Busy(v)) BY <1>6, <1>7 DEF Busy
<1>9. QED BY <1>4, <1>6, <1>7, <1>8

\* A frame arrived: it is in hand, and nobody else is after it.
LEMMA GetOkOK ==
    ASSUME FetchInv, NEW w \in Workers, GetOk(w)
    PROVE  FetchInv'
<1>0. /\ FetchTypeOK /\ Dispatch /\ Cause /\ Accounted /\ Assembled
      /\ DispatchedOnce /\ VerifyMeansWrong /\ WaitsForBlob
  BY DEF FetchInv
<1> DEFINE g == worker[w].frame
<1>1. /\ UNCHANGED <<pc, todo, errs, cancelled, stopped, late, uploaded, faults, outcome, seen>>
      /\ worker[w].at = "get" /\ Busy(w) /\ have' = [have EXCEPT ![g] = TRUE]
      /\ worker' = [worker EXCEPT ![w] = [Off EXCEPT !.at = "take"]]
  BY DEF GetOk, env, Busy
<1>2. pc = "run" BY <1>0, <1>1 DEF FetchTypeOK, Off
<1>3. g \in Frames /\ g \notin todo BY <1>0, <1>1 DEF Dispatch
<1>4. /\ worker' \in [Workers -> [at: {"off", "take", "get", "sleep"}, frame: 0..NumFrames, try: 0..FetchTries]]
      /\ worker'[w].at = "take" /\ \A v \in Workers \ {w} : worker'[v] = worker[v]
      /\ \A v \in Workers : Busy(v)' <=> (v # w /\ Busy(v))
  BY <1>0, <1>1, IdleWorker
<1>5. /\ have' \in [Frames -> BOOLEAN] /\ have'[g] = TRUE
      /\ \A f \in Frames : f # g => have'[f] = have[f]
  BY <1>0, <1>1, <1>3 DEF FetchTypeOK
<1> HIDE DEF g
<1>6. FetchTypeOK' BY <1>0, <1>1, <1>2, <1>4, <1>5 DEF FetchTypeOK
<1>7. Cause' /\ Assembled' /\ VerifyMeansWrong' /\ WaitsForBlob'
  BY <1>0, <1>1, <1>2 DEF Cause, Failed, Err, Assembled, VerifyMeansWrong, WaitsForBlob
<1>8. todo \subseteq Frames BY <1>0 DEF FetchTypeOK
<1>9. Dispatch' BY <1>0, <1>1, <1>3, <1>4, <1>5, <1>8 DEF Dispatch
<1>10. DispatchedOnce'
  <2>1. \A v \in Workers \ {w} : Busy(v) => worker[v].frame # g /\ worker[v].frame \in Frames /\ ~have[worker[v].frame]
    BY <1>0, <1>1 DEF DispatchedOnce, Dispatch, g
  <2>2. \A v \in Workers : Busy(v)' => ~have'[worker'[v].frame] BY <1>4, <1>5, <2>1
  <2>3. ASSUME NEW u \in Workers, Busy(u)', NEW v \in Workers \ {u}, Busy(v)'
        PROVE  worker'[v].frame # worker'[u].frame
    BY <1>0, <1>4, <2>3 DEF DispatchedOnce
  <2>4. QED BY <2>2, <2>3 DEF DispatchedOnce
<1>11. Accounted'
  <2>1. ASSUME ~cancelled, ~stopped, NEW f \in Frames
        PROVE  have'[f] \/ f \in todo \/ \E v \in Workers : Busy(v)' /\ worker'[v].frame = f
    <3>1. CASE f = g BY <1>5, <3>1
    <3>2. CASE f # g
      <4>1. have[f] \/ f \in todo \/ \E v \in Workers : Busy(v) /\ worker[v].frame = f
        BY <1>0, <1>2, <2>1 DEF Accounted
      <4>2. \A v \in Workers : Busy(v) /\ worker[v].frame = f => v # w BY <3>2 DEF g
      <4>3. QED BY <1>4, <1>5, <3>2, <4>1, <4>2
    <3>3. QED BY <3>1, <3>2
  <2>2. \E v \in Workers : worker'[v].at # "off" BY <1>4
  <2>3. QED BY <1>1, <2>1, <2>2 DEF Accounted
<1>12. QED BY <1>6, <1>7, <1>9, <1>10, <1>11 DEF FetchInv

\* frame returns an error: it is recorded, and the pass is cancelled.
LEMMA FrameFailsOK ==
    ASSUME FetchInv, NEW w \in Workers, Busy(w),
           NEW err \in {"notFound", "transport", "verify", "context"}, FrameFails(w, err),
           UNCHANGED <<pc, have, todo, stopped, late, uploaded, outcome>>,
           faults' \in 0..MaxFaults, seen \subseteq seen', seen' \subseteq {"wrong", "failed"},
           err = "verify" => "wrong" \in seen',
           err \in {"transport", "context"} => cancelled \/ stopped \/ "failed" \in seen'
    PROVE  FetchInv'
<1>0. /\ FetchTypeOK /\ Dispatch /\ Cause /\ Assembled
      /\ DispatchedOnce /\ VerifyMeansWrong /\ WaitsForBlob
  BY DEF FetchInv
<1> DEFINE g == worker[w].frame
<1>1. errs' = [errs EXCEPT ![g] = err] /\ cancelled' = TRUE /\ worker' = [worker EXCEPT ![w] = Off]
  BY DEF FrameFails
<1>2. pc = "run" BY <1>0 DEF FetchTypeOK, Off, Busy
<1>3. g \in Frames \ todo /\ errs[g] = NoErr BY <1>0 DEF Dispatch
<1>4. /\ worker' \in [Workers -> [at: {"off", "take", "get", "sleep"}, frame: 0..NumFrames, try: 0..FetchTries]]
      /\ \A v \in Workers \ {w} : worker'[v] = worker[v]
      /\ \A v \in Workers : Busy(v)' <=> (v # w /\ Busy(v))
  <2>1. [Off EXCEPT !.at = "off"] = Off BY DEF Off
  <2>2. QED BY <1>0, <1>1, <2>1, IdleWorker
<1>5. /\ errs' \in [Frames -> {NoErr, "notFound", "transport", "verify", "context"}]
      /\ errs'[g] = err /\ \A f \in Frames : f # g => errs'[f] = errs[f]
  BY <1>0, <1>1, <1>3 DEF FetchTypeOK
<1>6. \A v \in Workers \ {w} : Busy(v) => worker[v].frame # g BY <1>0 DEF DispatchedOnce
<1> HIDE DEF g
<1>7. FetchTypeOK' BY <1>0, <1>1, <1>2, <1>4, <1>5 DEF FetchTypeOK
<1>8. Dispatch'
  <2>1. todo \subseteq Frames BY <1>0 DEF FetchTypeOK
  <2>2. \A f \in todo' : ~have'[f] /\ errs'[f] = NoErr BY <1>0, <1>3, <1>5, <2>1 DEF Dispatch
  <2>3. ASSUME NEW v \in Workers, Busy(v)'
        PROVE  /\ worker'[v].frame \in Frames \ todo' /\ errs'[worker'[v].frame] = NoErr
               /\ worker'[v].at = "sleep" => worker'[v].try < FetchTries
    <3>1. v # w /\ Busy(v) /\ worker'[v] = worker[v] BY <1>4, <2>3
    <3>2. worker[v].frame # g /\ worker[v].frame \in Frames \ todo /\ errs[worker[v].frame] = NoErr
          /\ (worker[v].at = "sleep" => worker[v].try < FetchTries)
      BY <1>0, <1>6, <3>1 DEF Dispatch
    <3>3. QED BY <1>5, <3>1, <3>2
  <2>4. QED BY <2>2, <2>3 DEF Dispatch
<1>9. DispatchedOnce' BY <1>0, <1>4 DEF DispatchedOnce
<1>10. Cause'
  <2>1. err # NoErr BY DEF NoErr
  <2>2. Failed' BY <1>3, <1>5, <2>1 DEF Failed
  <2>3. Err("verify")' => "wrong" \in seen'
    <3>1. ASSUME NEW f \in Frames, errs'[f] = "verify" PROVE "wrong" \in seen'
      <4>1. CASE f = g BY <1>5, <3>1, <4>1
      <4>2. CASE f # g BY <1>0, <1>5, <3>1, <4>2 DEF Cause, Err
      <4>3. QED BY <4>1, <4>2
    <3>2. QED BY <3>1 DEF Err
  <2>4. stopped' \/ "failed" \in seen' \/ Err("notFound")' \/ Err("verify")'
    <3>1. CASE err \in {"notFound", "verify"} BY <1>3, <1>5, <3>1 DEF Err
    <3>2. CASE stopped \/ "failed" \in seen' BY <3>2
    <3>3. CASE cancelled
      <4>1. stopped \/ "failed" \in seen \/ Err("notFound") \/ Err("verify") BY <1>0, <3>3 DEF Cause
      <4>2. (Err("notFound") => Err("notFound")') /\ (Err("verify") => Err("verify")')
        BY <1>3, <1>5 DEF Err, NoErr
      <4>3. QED BY <4>1, <4>2
    <3>4. QED BY <3>1, <3>2, <3>3
  <2>5. QED BY <2>2, <2>3, <2>4 DEF Cause
<1>11. Accounted' /\ Assembled' BY <1>1, <1>2 DEF Accounted, Assembled
<1>12. VerifyMeansWrong' /\ WaitsForBlob' BY <1>0 DEF VerifyMeansWrong, WaitsForBlob
<1>13. QED BY <1>7, <1>8, <1>9, <1>10, <1>11, <1>12 DEF FetchInv

\* A pause or a new attempt: the worker keeps its frame.
LEMMA RetryOK ==
    ASSUME FetchInv, NEW w \in Workers, Busy(w), NEW r,
           r \in [at: {"get", "sleep"}, frame: {worker[w].frame}, try: 0..FetchTries],
           r.at = "sleep" => r.try < FetchTries,
           worker' = [worker EXCEPT ![w] = r], faults' \in 0..MaxFaults,
           UNCHANGED <<pc, have, todo, errs, cancelled, stopped, late, uploaded, outcome, seen>>
    PROVE  FetchInv'
<1>0. /\ FetchTypeOK /\ Dispatch /\ Cause /\ Accounted /\ Assembled
      /\ DispatchedOnce /\ VerifyMeansWrong /\ WaitsForBlob
  BY DEF FetchInv
<1>1. pc = "run" BY <1>0 DEF FetchTypeOK, Off, Busy
<1>2. /\ worker'[w] = r /\ r.at \in {"get", "sleep"} /\ r.frame = worker[w].frame
      /\ \A v \in Workers \ {w} : worker'[v] = worker[v]
  BY <1>0 DEF FetchTypeOK
<1>3. \A v \in Workers : /\ Busy(v)' <=> Busy(v)
                         /\ Busy(v) => worker'[v].frame = worker[v].frame
  BY <1>2 DEF Busy
<1>4. FetchTypeOK'
  <2>1. worker[w] \in [at: {"off", "take", "get", "sleep"}, frame: 0..NumFrames, try: 0..FetchTries]
    BY <1>0 DEF FetchTypeOK
  <2>2. r \in [at: {"off", "take", "get", "sleep"}, frame: 0..NumFrames, try: 0..FetchTries] BY <2>1
  <2>3. worker' \in [Workers -> [at: {"off", "take", "get", "sleep"}, frame: 0..NumFrames, try: 0..FetchTries]]
    BY <1>0, <2>2 DEF FetchTypeOK
  <2>4. QED BY <1>0, <1>1, <2>3 DEF FetchTypeOK
<1>5. Dispatch' BY <1>0, <1>2, <1>3 DEF Dispatch
<1>6. DispatchedOnce' BY <1>0, <1>3 DEF DispatchedOnce
<1>7. Cause' /\ Assembled' /\ VerifyMeansWrong' /\ WaitsForBlob'
  BY <1>0 DEF Cause, Failed, Err, Assembled, VerifyMeansWrong, WaitsForBlob
<1>8. Accounted'
  <2>1. worker'[w].at # "off" BY <1>2
  <2>2. \A f \in Frames : (\E v \in Workers : Busy(v) /\ worker[v].frame = f)
                          => \E v \in Workers : Busy(v)' /\ worker'[v].frame = f
    BY <1>3
  <2>3. QED BY <1>0, <2>1, <2>2 DEF Accounted
<1>9. QED BY <1>4, <1>5, <1>6, <1>7, <1>8 DEF FetchInv

\* Every step of a worker.
LEMMA WorkerOK ==
    ASSUME FetchInv, NEW w \in Workers, WorkerNext(w)
    PROVE  FetchInv'
<1>0. FetchTypeOK /\ Dispatch BY DEF FetchInv
<1>1. faults \in 0..MaxFaults /\ seen \subseteq {"wrong", "failed"} BY <1>0 DEF FetchTypeOK
<1>2. CASE Take(w) BY <1>2, TakeOK
<1>3. CASE GetOk(w) BY <1>3, GetOkOK
<1>4. CASE GetWrong(w)
  <2>1. /\ Busy(w) /\ FrameFails(w, "verify") /\ seen' = seen \cup {"wrong"}
        /\ UNCHANGED <<pc, have, todo, stopped, late, uploaded, faults, outcome>>
    BY <1>4 DEF GetWrong, Busy, env
  <2>2. QED BY <1>1, <2>1, FrameFailsOK
<1>5. CASE GetNotFound(w)
  <2>1. /\ Busy(w) /\ FrameFails(w, "notFound")
        /\ UNCHANGED <<pc, have, todo, stopped, late, uploaded, faults, outcome, seen>>
    BY <1>5 DEF GetNotFound, Busy, env
  <2>2. QED BY <1>1, <2>1, FrameFailsOK
<1>6. CASE GetCancelled(w) \/ SleepInterrupted(w)
  <2>1. PICK err \in {"context", "transport"} :
        /\ Busy(w) /\ FrameFails(w, err) /\ (cancelled \/ stopped)
        /\ UNCHANGED <<pc, have, todo, stopped, late, uploaded, faults, outcome, seen>>
    BY <1>6 DEF GetCancelled, SleepInterrupted, CtxDone, Busy, env
  <2>2. QED BY <1>1, <2>1, FrameFailsOK
<1>7. CASE GetFault(w)
  <2>1. /\ Busy(w) /\ faults > 0 /\ faults' = faults - 1
        /\ UNCHANGED <<pc, have, todo, stopped, late, uploaded, outcome>>
    BY <1>7 DEF GetFault, Busy, env
  <2>2. faults' \in 0..MaxFaults BY <1>1, <2>1, BlobFetchAssumption
  <2>3. CASE FrameFails(w, "transport") /\ seen' = seen \cup {"failed"}
    BY <1>1, <2>1, <2>2, <2>3, FrameFailsOK
  <2>4. CASE /\ worker[w].try < FetchTries /\ worker' = [worker EXCEPT ![w].at = "sleep"]
             /\ UNCHANGED <<errs, cancelled, seen>>
    <3> DEFINE r == [worker[w] EXCEPT !.at = "sleep"]
    <3>1. worker[w] \in [at: {"off", "take", "get", "sleep"}, frame: 0..NumFrames, try: 0..FetchTries]
      BY <1>0 DEF FetchTypeOK
    <3>2. /\ r \in [at: {"get", "sleep"}, frame: {worker[w].frame}, try: 0..FetchTries]
          /\ r.at = "sleep" /\ r.try = worker[w].try
      BY <3>1
    <3>3. worker' = [worker EXCEPT ![w] = r] BY <2>4
    <3> HIDE DEF r
    <3>4. QED BY <2>1, <2>2, <2>4, <3>2, <3>3, RetryOK
  <2>5. QED BY <1>7, <2>3, <2>4 DEF GetFault
<1>8. CASE SleepEnds(w)
  <2>1. /\ Busy(w) /\ worker[w].at = "sleep"
        /\ worker' = [worker EXCEPT ![w].at = "get", ![w].try = @ + 1]
        /\ UNCHANGED <<pc, have, todo, errs, cancelled, stopped, late, uploaded, faults, outcome, seen>>
    BY <1>8 DEF SleepEnds, Busy, env
  <2>2. worker[w] \in [at: {"off", "take", "get", "sleep"}, frame: 0..NumFrames, try: 0..FetchTries]
    BY <1>0 DEF FetchTypeOK
  <2>3. worker[w].try + 1 \in 0..FetchTries
    <3>1. worker[w].try < FetchTries BY <1>0, <2>1 DEF Dispatch
    <3>2. QED BY <2>2, <3>1, BlobFetchAssumption
  <2> DEFINE r == [worker[w] EXCEPT !.at = "get", !.try = worker[w].try + 1]
  <2>4. r \in [at: {"get", "sleep"}, frame: {worker[w].frame}, try: 0..FetchTries] /\ r.at = "get"
    BY <2>2, <2>3
  <2>5. worker' = [worker EXCEPT ![w] = r] BY <1>0, <2>1 DEF FetchTypeOK
  <2>6. /\ Busy(w) /\ faults' \in 0..MaxFaults /\ r.at # "sleep"
        /\ UNCHANGED <<pc, have, todo, errs, cancelled, stopped, late, uploaded, outcome, seen>>
    BY <1>1, <2>1, <2>4
  <2> HIDE DEF r
  <2>7. QED BY <2>4, <2>5, <2>6, RetryOK
<1>9. QED BY <1>2, <1>3, <1>4, <1>5, <1>6, <1>7, <1>8 DEF WorkerNext

\* The upload, the clock and the stop: they excuse more, and disturb nothing.
LEMMA EnvOK ==
    ASSUME FetchInv, Upload \/ DeadlinePasses \/ Stop
    PROVE  FetchInv'
<1>0. /\ FetchTypeOK /\ Dispatch /\ Cause /\ Accounted /\ Assembled
      /\ DispatchedOnce /\ VerifyMeansWrong /\ WaitsForBlob
  BY DEF FetchInv
<1>1. /\ UNCHANGED <<pc, have, todo, worker, errs, cancelled, faults, outcome, seen>>
      /\ {stopped', late', uploaded'} \subseteq BOOLEAN /\ (stopped => stopped') /\ (late => late')
  <2>1. {stopped, late, uploaded} \subseteq BOOLEAN BY <1>0 DEF FetchTypeOK
  <2>2. CASE Upload BY <2>1, <2>2 DEF Upload
  <2>3. CASE DeadlinePasses BY <2>1, <2>3 DEF DeadlinePasses
  <2>4. CASE Stop BY <2>1, <2>4 DEF Stop
  <2>5. QED BY <2>2, <2>3, <2>4
<1>2. FetchTypeOK' BY <1>0, <1>1 DEF FetchTypeOK
<1>3. Dispatch' /\ Cause' /\ DispatchedOnce'
  BY <1>0, <1>1 DEF Dispatch, Cause, DispatchedOnce, Failed, Err, Busy
<1>4. Accounted' BY <1>0, <1>1 DEF Accounted, Busy
<1>5. Assembled' /\ VerifyMeansWrong' /\ WaitsForBlob'
  BY <1>0, <1>1 DEF Assembled, VerifyMeansWrong, WaitsForBlob
<1>6. QED BY <1>2, <1>3, <1>4, <1>5 DEF FetchInv

\* Every step of the download; and none of them is taken before it begins.
LEMMA FetchStep ==
    ASSUME FetchInv, FetchNext
    PROVE  FetchInv' /\ pc # "idle" /\ pc' # "idle"
<1>0. FetchTypeOK BY DEF FetchInv
<1>1. FetchInv' BY StartPassOK, PassEndsOK, DownloadEndsOK, WorkerOK, EnvOK DEF FetchNext, BlobNext
<1>2. \A w \in Workers : WorkerNext(w) => pc # "idle" /\ pc' = pc
  <2> SUFFICES ASSUME NEW w \in Workers, WorkerNext(w) PROVE pc # "idle" /\ pc' = pc
    OBVIOUS
  <2>1. worker[w].at # "off" /\ pc' = pc
    BY DEF WorkerNext, Take, GetOk, GetWrong, GetNotFound, GetCancelled, GetFault, SleepEnds, SleepInterrupted
  <2>2. QED BY <1>0, <2>1 DEF FetchTypeOK, Off
<1>3. pc # "idle" /\ pc' # "idle"
  BY <1>2 DEF FetchNext, BlobNext, BadTable, StartPass, PassEnds, Joined, Fail, WaitInterrupted, Verify,
              Upload, DeadlinePasses, Stop
<1>4. QED BY <1>1, <1>3

-----------------------------------------------------------------------------
(***************************************************************************)
(* The whole cycle.                                                        *)
(***************************************************************************)
\* Initially nothing is fetched and nothing failed.
LEMMA BuildInit == Init => BuildInv
<1> SUFFICES ASSUME Init PROVE BuildInv
  OBVIOUS
<1>1. PlanInv BY PlanInitOK DEF Init
<1>2. FetchInit /\ phase = "parse" BY DEF Init, PlanInit
<1>3. FetchTypeOK
  <2>1. Off \in [at: {"off", "take", "get", "sleep"}, frame: 0..NumFrames, try: 0..FetchTries]
    BY BlobFetchAssumption DEF Off
  <2>2. faults \in 0..MaxFaults BY <1>2, BlobFetchAssumption DEF FetchInit
  <2>3. QED BY <1>2, <2>1, <2>2 DEF FetchInit, FetchTypeOK
<1>4. ~Failed /\ ~Err("verify") /\ \A w \in Workers : ~Busy(w)
  BY <1>2 DEF FetchInit, Failed, Err, Busy, Off, NoErr
<1>5. FetchInv
  BY <1>2, <1>3, <1>4 DEF FetchInit, FetchInv, Dispatch, Cause, Accounted, Assembled, DispatchedOnce,
                          VerifyMeansWrong, WaitsForBlob
<1>6. Turns BY <1>2, <1>4 DEF FetchInit, Turns
<1>7. QED BY <1>1, <1>5, <1>6 DEF BuildInv

\* Before a download begins and after it ended, the cycle leaves it alone.
LEMMA OutsideFetch ==
    ASSUME FetchInv, pc # "run", pc' \in {pc, "begin"}, {uploaded'} \subseteq BOOLEAN,
           UNCHANGED <<have, todo, worker, errs, cancelled, stopped, late, faults>>,
           \/ UNCHANGED <<outcome, seen>>
           \/ outcome' = "noPath" /\ UNCHANGED seen
           \/ outcome' = "error" /\ seen' = {"failed"} /\ ~Failed
           \/ outcome' = "verifyFailed" /\ seen' = {"wrong"} /\ ~Failed
    PROVE  FetchInv'
<1>0. /\ FetchTypeOK /\ Dispatch /\ Cause /\ Assembled
      /\ DispatchedOnce /\ VerifyMeansWrong /\ WaitsForBlob
  BY DEF FetchInv
<1>1. FetchTypeOK' BY <1>0 DEF FetchTypeOK
<1>2. Dispatch' /\ DispatchedOnce' BY <1>0 DEF Dispatch, DispatchedOnce, Busy
<1>3. Failed' <=> Failed BY DEF Failed
<1>4. Err("verify") => Failed BY DEF Failed, Err, NoErr
<1>5. Cause' BY <1>0, <1>3, <1>4 DEF Cause, Err
<1>6. Accounted' /\ Assembled' BY <1>0 DEF Accounted, Assembled
<1>7. VerifyMeansWrong' /\ WaitsForBlob' BY <1>0 DEF VerifyMeansWrong, WaitsForBlob
<1>8. QED BY <1>1, <1>2, <1>5, <1>6, <1>7 DEF FetchInv

\* Every step keeps the invariant.
LEMMA BuildStep ==
    ASSUME BuildInv, [Next]_vars
    PROVE  BuildInv'
<1>0. PlanInv /\ FetchInv /\ Turns BY DEF BuildInv
<1>1. PlanInv' BY <1>0, PlanStep
<1>2. PlanTypeOK /\ FetchTypeOK BY <1>0 DEF PlanInv, FetchInv
<1>3. CASE UNCHANGED fetchVars /\ (UNCHANGED planVars \/ PlanNext \/ BlobReturns)
  <2>1. UNCHANGED <<pc, have, todo, worker, errs, cancelled, stopped, late, uploaded, faults, outcome, seen>>
    BY <1>3 DEF fetchVars
  <2>2. FetchInv'
    <3>1. FetchTypeOK' /\ Dispatch' /\ Cause' BY <1>0, <2>1 DEF FetchInv, FetchTypeOK, Dispatch, Cause, Failed, Err, Busy
    <3>2. Accounted' /\ Assembled' /\ DispatchedOnce' /\ VerifyMeansWrong' /\ WaitsForBlob'
      BY <1>0, <2>1 DEF FetchInv, Accounted, Assembled, DispatchedOnce, VerifyMeansWrong, WaitsForBlob, Busy
    <3>3. QED BY <3>1, <3>2 DEF FetchInv
  <2>3. phase' \in {"parse", "plan", "apply", "refused"} => phase \in {"parse", "plan", "apply", "refused"}
    BY <1>3 DEF planVars, PlanNext, Parse, Decide, ApplyEdge, ChainDone, BlobReturns
  <2>4. Turns' BY <1>0, <2>1, <2>3 DEF Turns, Failed
  <2>5. QED BY <1>1, <2>2, <2>4 DEF BuildInv
<1>4. CASE TakeBlob \/ PatchUnsupported \/ PatchFails
  <2>1. phase = "apply" BY <1>4 DEF TakeBlob, PatchUnsupported, PatchFails, ChainRuns
  <2>2. pc = "idle" /\ ~Failed /\ ~cancelled BY <1>0, <2>1 DEF Turns
  <2>3. /\ pc' \in {pc, "begin"} /\ {uploaded'} \subseteq BOOLEAN /\ phase' \in {"blob", "failed"}
        /\ UNCHANGED <<have, todo, worker, errs, cancelled, stopped, late, faults>>
        /\ \/ UNCHANGED <<outcome, seen>>
           \/ outcome' = "noPath" /\ UNCHANGED seen
           \/ outcome' = "error" /\ seen' = {"failed"}
           \/ outcome' = "verifyFailed" /\ seen' = {"wrong"}
    BY <1>2, <1>4 DEF TakeBlob, PatchUnsupported, PatchFails, StartBlob, GiveUp, FetchTypeOK
  <2>4. FetchInv' BY <1>0, <2>2, <2>3, OutsideFetch
  <2>5. Turns' BY <2>2, <2>3 DEF Turns, Failed
  <2>6. QED BY <1>1, <2>4, <2>5 DEF BuildInv
<1>5. CASE FetchNext /\ UNCHANGED planVars
  <2>1. FetchInv' /\ pc # "idle" /\ pc' # "idle" BY <1>0, <1>5, FetchStep
  <2>2. Turns' BY <1>0, <1>5, <2>1 DEF Turns, planVars
  <2>3. QED BY <1>1, <2>1, <2>2 DEF BuildInv
<1>6. BlobReturns => UNCHANGED fetchVars BY DEF BlobReturns, fetchVars
<1>7. QED BY <1>3, <1>4, <1>5, <1>6 DEF Next, Cycle, vars

\* The download and the plan keep their invariant in every cycle.
THEOREM BuildInvariant == FairSpec => []BuildInv
<1>1. BuildInv /\ [Next]_vars => BuildInv' BY BuildStep
<1>2. QED BY BuildInit, <1>1, PTL DEF FairSpec

\* The variables of the cycle have their types; while no pass runs no worker does.
THEOREM BuildTypeCorrect == FairSpec => [](PlanTypeOK /\ FetchTypeOK)
<1>1. BuildInv => PlanTypeOK /\ FetchTypeOK BY DEF BuildInv, PlanInv, FetchInv
<1>2. QED BY <1>1, BuildInvariant, PTL

\* README guarantees 1 and 3: a plan carried out leaves the head's bytes, for
\* every pointer ParsePointer accepts, whatever its length and sizes, and every
\* file; a plan that does nothing has a reason.
THEOREM PlanAlwaysReachesHead == FairSpec => []PlanReachesHead
<1>1. BuildInv => PlanReachesHead BY DEF BuildInv, PlanInv
<1>2. QED BY <1>1, BuildInvariant, PTL

\* README guarantee 3: neither the blob nor another run of edges from the
\* target's release to the head would have cost less than MakePlan's choice.
THEOREM PlanIsAlwaysCheapest == FairSpec => []PlanIsCheapest
<1>1. BuildInv => PlanIsCheapest BY DEF BuildInv, PlanInv
<1>2. QED BY <1>1, BuildInvariant, PTL

\* fetchFrames dispatches every frame once: no two workers are after one frame,
\* and none after a frame in hand, in every pass.
THEOREM FramesDispatchedOnce == FairSpec => []DispatchedOnce
<1>1. BuildInv => DispatchedOnce BY DEF BuildInv, FetchInv
<1>2. QED BY <1>1, BuildInvariant, PTL

\* A download ends with OutcomeVerifyFailed only if the store served bytes that
\* fail their hash, or the agent is being stopped.
THEOREM VerifyAlwaysMeansWrong == FairSpec => []VerifyMeansWrong
<1>1. BuildInv => VerifyMeansWrong BY DEF BuildInv, FetchInv
<1>2. QED BY <1>1, BuildInvariant, PTL

\* fetchBlob gives up on a blob that is not uploaded yet only after blobWait, or
\* when a request failed for good or the agent is stopped.
THEOREM AlwaysWaitsForBlob == FairSpec => []WaitsForBlob
<1>1. BuildInv => WaitsForBlob BY DEF BuildInv, FetchInv
<1>2. QED BY <1>1, BuildInvariant, PTL
=============================================================================
