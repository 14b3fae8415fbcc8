-------------------------- MODULE Publisher_proofs --------------------------
(***************************************************************************)
(* Proofs about publishing, for any number of machines, releases, publish  *)
(* runs, attempts and clocks, on a store with an atomic compare-and-swap   *)
(* and on the ssh store with its one publisher.                            *)
(***************************************************************************)
EXTENDS Publisher, SequenceTheorems, TLAPS

(* What a run has decided: the edge leads from the head it read to its own *)
(* release, and the ssh store's unconditional rename replaces the pointer  *)
(* that was read.                                                          *)
LocalOK ==
    \A p \in Publishers :
        /\ pc[p] # "idle" => bin[p] # None
        /\ pc[p] \in {"pointer", "putPointer"} /\ edge[p] # None =>
             /\ prev[p] # None
             /\ edge[p].from = prev[p].head /\ edge[p].to = bin[p]
        /\ pc[p] = "putPointer" => ~atomicCAS /\ pointer = prev[p]

(* Over ssh only one machine ever publishes.                               *)
OneOverSsh ==
    ~atomicCAS => \A p, q \in Publishers : bin[p] # None /\ bin[q] # None => p = q

PubInv == TypeOK /\ LocalOK /\ OneOverSsh /\ ChainIsHistory

-----------------------------------------------------------------------------
\* What the length limits of the chain and of a cache leave.
LEMMA TruncateKeeps ==
    ASSUME NEW S, NEW s \in Seq(S), NEW n \in Nat
    PROVE  /\ Truncate(s, n) \in Seq(S)
           /\ Len(Truncate(s, n)) <= n /\ Len(Truncate(s, n)) <= Len(s)
           /\ \A i \in 1..Len(Truncate(s, n)) : Truncate(s, n)[i] = s[i]
<1> DEFINE m == IF Len(s) < n THEN Len(s) ELSE n
<1>1. m \in Nat /\ m <= n /\ m <= Len(s) /\ Len(s) \in Nat BY LenProperties
<1>2. \A i \in 1..m : s[i] \in S BY <1>1, ElementOfSeq
<1>3. /\ SubSeq(s, 1, m) \in Seq(S)
      /\ Len(SubSeq(s, 1, m)) = IF 1 <= m THEN m - 1 + 1 ELSE 0
      /\ \A i \in 1..(m - 1 + 1) : SubSeq(s, 1, m)[i] = s[1 + i - 1]
  <2> HIDE DEF m
  <2>1. 1 \in Int /\ m \in Int BY <1>1
  <2>2. QED BY <1>2, <2>1, SubSeqProperties
<1>4. Truncate(s, n) = SubSeq(s, 1, m) BY DEF Truncate
<1> HIDE DEF m
<1>5. Len(SubSeq(s, 1, m)) = m BY <1>1, <1>3
<1>6. \A i \in 1..m : SubSeq(s, 1, m)[i] = s[i]
  <2>1. \A i \in 1..m : 1 + i - 1 = i /\ i \in 1..(m - 1 + 1) BY <1>1
  <2>2. QED BY <1>3, <2>1
<1>7. QED BY <1>1, <1>3, <1>4, <1>5, <1>6

\* A cache's list without one release is a list of releases.
LEMMA WithoutTyped ==
    ASSUME NEW S, NEW s \in Seq(S), NEW r
    PROVE  Without(s, r) \in Seq(S)
<1>1. CASE \A i \in 1..Len(s) : s[i] # r BY <1>1 DEF Without
<1>2. CASE \E i \in 1..Len(s) : s[i] = r
  <2> DEFINE i == CHOOSE i \in 1..Len(s) : s[i] = r
  <2>1. i \in 1..Len(s) BY <1>2
  <2> HIDE DEF i
  <2>2. Len(s) \in Nat /\ i \in Nat BY <2>1, LenProperties
  <2>3. \A j \in 1..(i - 1) : s[j] \in S
    <3>1. \A j \in 1..(i - 1) : j \in 1..Len(s) BY <2>1, <2>2
    <3>2. QED BY <3>1, ElementOfSeq
  <2>4. \A j \in (i + 1)..Len(s) : s[j] \in S
    <3>1. \A j \in (i + 1)..Len(s) : j \in 1..Len(s) BY <2>1, <2>2
    <3>2. QED BY <3>1, ElementOfSeq
  <2>5. 1 \in Int /\ i - 1 \in Int /\ i + 1 \in Int /\ Len(s) \in Int BY <2>2
  <2>6. SubSeq(s, 1, i - 1) \in Seq(S) BY <2>3, <2>5, SubSeqProperties
  <2>7. SubSeq(s, i + 1, Len(s)) \in Seq(S) BY <2>4, <2>5, SubSeqProperties
  <2>8. SubSeq(s, 1, i - 1) \o SubSeq(s, i + 1, Len(s)) \in Seq(S)
    BY <2>6, <2>7, ConcatProperties
  <2>9. QED BY <1>2, <2>8 DEF Without, i
<1>3. QED BY <1>1, <1>2

\* A list with one more element in front.
LEMMA PushTyped ==
    ASSUME NEW S, NEW x \in S, NEW s \in Seq(S)
    PROVE  /\ <<x>> \o s \in Seq(S) /\ Len(<<x>> \o s) = Len(s) + 1
           /\ (<<x>> \o s)[1] = x
           /\ \A i \in 2..(Len(s) + 1) : (<<x>> \o s)[i] = s[i - 1]
<1>1. <<x>> \in Seq(S) /\ Len(<<x>>) = 1 /\ <<x>>[1] = x OBVIOUS
<1>2. /\ <<x>> \o s \in Seq(S) /\ Len(<<x>> \o s) = Len(<<x>>) + Len(s)
      /\ \A i \in 1..(Len(<<x>>) + Len(s)) : (<<x>> \o s)[i] = IF i <= Len(<<x>>) THEN <<x>>[i] ELSE s[i - Len(<<x>>)]
  BY <1>1, ConcatProperties
<1>3. Len(s) \in Nat BY LenProperties
<1> DEFINE t == <<x>> \o s
           y == <<x>>
<1>4. y[1] = x /\ Len(y) = 1 BY <1>1
<1>5. /\ t \in Seq(S) /\ Len(t) = 1 + Len(s)
      /\ \A i \in 1..(1 + Len(s)) : t[i] = IF i <= 1 THEN y[i] ELSE s[i - 1]
  BY <1>1, <1>2
<1> HIDE DEF t, y
<1>6. Len(t) = Len(s) + 1 BY <1>3, <1>5
<1>7. t[1] = x
  <2>1. 1 \in 1..(1 + Len(s)) /\ 1 <= 1 BY <1>3
  <2>2. QED BY <1>4, <1>5, <2>1
<1>8. \A i \in 2..(Len(s) + 1) : t[i] = s[i - 1]
  <2>1. \A i \in 2..(Len(s) + 1) : i \in 1..(1 + Len(s)) /\ ~(i <= 1) BY <1>3
  <2>2. QED BY <1>5, <2>1
<1>9. QED BY <1>5, <1>6, <1>7, <1>8 DEF t

CacheOK(c) == c \in [Publishers -> Seq(Releases)] /\ \A q \in Publishers : Len(c[q]) <= CacheLimit

\* releaseCache.put leaves a list of releases within the limit.
LEMMA CachePutTyped ==
    ASSUME TypeOK, NEW p \in Publishers, NEW r \in Releases, CachePut(p, r)
    PROVE  CacheOK(cache')
<1>1. cache[p] \in Seq(Releases) /\ CacheLimit \in Nat BY PublisherAssumption DEF TypeOK
<1>2. Without(cache[p], r) \in Seq(Releases) BY <1>1, WithoutTyped
<1>3. <<r>> \o Without(cache[p], r) \in Seq(Releases) BY <1>2, PushTyped
<1> DEFINE t == Truncate(<<r>> \o Without(cache[p], r), CacheLimit)
<1>4. t \in Seq(Releases) /\ Len(t) <= CacheLimit BY <1>1, <1>3, TruncateKeeps
<1>5. cache' = [cache EXCEPT ![p] = t] BY DEF CachePut
<1> HIDE DEF t
<1>6. QED BY <1>4, <1>5 DEF CacheOK, TypeOK

-----------------------------------------------------------------------------
\* The pointer a run writes over the one it read: of the right type, its seq
\* greater whatever the clock says, its chain the history of the heads.
LEMMA Replaces ==
    ASSUME PubInv, NEW p \in Publishers, pc[p] \in {"pointer", "putPointer"},
           pointer = prev[p], ReplacePointer(p)
    PROVE  /\ pointer' \in Pointer /\ heads' \in Seq(Releases) /\ ChainIsHistory'
           /\ pointer # None => pointer'.seq > pointer.seq
<1>0. /\ TypeOK /\ bin[p] \in Releases /\ Encoder[p] \in Versions /\ Clocks \subseteq Nat
      /\ MaxChain \in Nat /\ heads \in Seq(Releases)
  BY PublisherAssumption DEF PubInv, TypeOK, LocalOK
<1> DEFINE c == NewChain(p)
<1>1. PICK clock \in Clocks :
        pointer' = [seq |-> NewSeq(p, clock), head |-> bin[p], blobVer |-> Encoder[p], chain |-> c]
  BY DEF ReplacePointer
<1>2. heads' = <<bin[p]>> \o heads BY DEF ReplacePointer
<1>3. /\ heads' \in Seq(Releases) /\ Len(heads') = Len(heads) + 1 /\ heads'[1] = bin[p]
      /\ \A i \in 2..(Len(heads) + 1) : heads'[i] = heads[i - 1]
      /\ Len(heads) \in Nat
  BY <1>0, <1>2, PushTyped, LenProperties
<1>4. /\ NewSeq(p, clock) \in Nat
      /\ pointer # None => NewSeq(p, clock) > pointer.seq
  <2>1. clock \in Nat BY <1>0
  <2>2. CASE prev[p] = None BY <2>1, <2>2 DEF NewSeq
  <2>3. CASE prev[p] # None
    <3>1. prev[p].seq \in Nat /\ pointer.seq = prev[p].seq BY <1>0, <2>3 DEF TypeOK, Pointer
    <3>2. QED BY <2>1, <2>3, <3>1 DEF NewSeq
  <2>4. QED BY <2>2, <2>3
<1>5. /\ c \in Seq(Edge) /\ Len(c) <= MaxChain /\ Len(c) < Len(heads')
      /\ \A k \in 1..Len(c) : c[k].to = heads'[k] /\ c[k].from = heads'[k + 1]
  <2>1. CASE prev[p] = None \/ edge[p] = None
    <3>1. c = <<>> BY <2>1 DEF NewChain
    <3>2. c \in Seq(Edge) /\ Len(c) = 0 BY <3>1, EmptySeq
    <3>3. QED BY <1>0, <1>3, <3>2
  <2>2. CASE prev[p] # None /\ edge[p] # None
    <3>1. edge[p] \in Edge /\ prev[p] \in Pointer /\ prev[p].chain \in Seq(Edge)
      BY <1>0, <2>2 DEF TypeOK, Pointer
    <3> DEFINE old == prev[p].chain
               s   == <<edge[p]>> \o old
    <3>2. old \in Seq(Edge) /\ Len(old) \in Nat BY <3>1, LenProperties
    <3>3. s \in Seq(Edge) /\ Len(s) = Len(old) + 1 /\ s[1] = edge[p] /\ \A i \in 2..(Len(old) + 1) : s[i] = old[i - 1]
      BY <3>1, <3>2, PushTyped
    <3>4. c = Truncate(s, MaxChain) BY <2>2 DEF NewChain
    <3> HIDE DEF c, s, old
    <3>5. /\ c \in Seq(Edge) /\ Len(c) <= MaxChain /\ Len(c) <= Len(s)
          /\ \A i \in 1..Len(c) : c[i] = s[i]
      BY <1>0, <3>3, <3>4, TruncateKeeps
    <3>6. Len(c) \in Nat BY <3>5, LenProperties
    <3>7. /\ Len(old) < Len(heads) /\ prev[p].head = heads[1]
          /\ \A k \in 1..Len(old) : old[k].to = heads[k] /\ old[k].from = heads[k + 1]
      <4>1. pointer # None /\ pointer.chain = old /\ pointer.head = prev[p].head BY <2>2 DEF old
      <4>2. ChainIsHistory BY DEF PubInv
      <4>3. QED BY <4>1, <4>2 DEF ChainIsHistory
    <3>8. edge[p].from = prev[p].head /\ edge[p].to = bin[p] BY <2>2 DEF PubInv, LocalOK
    <3>9. Len(c) < Len(heads') BY <1>3, <3>2, <3>3, <3>5, <3>6, <3>7
    <3>10. ASSUME NEW k \in 1..Len(c) PROVE c[k].to = heads'[k] /\ c[k].from = heads'[k + 1]
      <4>1. c[k] = s[k] BY <3>5
      <4>2. CASE k = 1
        <5>1. heads'[2] = heads[1]
          <6>1. 2 \in 2..(Len(heads) + 1) /\ 2 - 1 = 1 BY <1>3, <3>2, <3>7
          <6>2. QED BY <1>3, <6>1
        <5>2. c[1].to = bin[p] /\ c[1].from = heads[1] BY <3>3, <3>7, <3>8, <4>1, <4>2
        <5>3. k + 1 = 2 BY <4>2
        <5>4. QED BY <1>3, <4>2, <5>1, <5>2, <5>3
      <4>3. CASE k # 1
        <5>1. /\ k \in 2..(Len(old) + 1) /\ k - 1 \in 1..Len(old) /\ (k - 1) + 1 = k
              /\ k \in 2..(Len(heads) + 1) /\ k + 1 \in 2..(Len(heads) + 1) /\ (k + 1) - 1 = k
          BY <1>3, <3>2, <3>3, <3>5, <3>6, <3>7, <4>3
        <5>2. c[k] = old[k - 1] BY <3>3, <4>1, <5>1
        <5>3. old[k - 1].to = heads[k - 1] /\ old[k - 1].from = heads[k] BY <3>7, <5>1
        <5>4. heads'[k] = heads[k - 1] /\ heads'[k + 1] = heads[k] BY <1>3, <5>1
        <5>5. QED BY <5>2, <5>3, <5>4
      <4>4. QED BY <4>2, <4>3
    <3>11. QED BY <3>5, <3>9, <3>10
  <2>3. QED BY <2>1, <2>2
<1> HIDE DEF c
<1>6. pointer' \in Pointer BY <1>0, <1>1, <1>4, <1>5 DEF Pointer
<1>7. pointer'.chain = c /\ pointer'.head = bin[p] /\ pointer'.seq = NewSeq(p, clock) BY <1>1
<1>8. ChainIsHistory' BY <1>3, <1>5, <1>7 DEF ChainIsHistory
<1>9. QED BY <1>3, <1>4, <1>6, <1>7, <1>8

(* The four ways out of the compare-and-swap.                              *)
Replaced(p) ==
    /\ pc[p] \in {"pointer", "putPointer"} /\ pointer = prev[p] /\ ReplacePointer(p)
    /\ \E next \in {"putBlob", "read", "idle"} : pc' = [pc EXCEPT ![p] = next]
    /\ attempt' = attempt \/ attempt' = [attempt EXCEPT ![p] = @ + 1]
    /\ UNCHANGED <<atomicCAS, patches, blobs, cache, bin, prev, edge, runs>>

Refused(p) == Retry(p) /\ pc[p] = "pointer" /\ UNCHANGED <<pointer, heads>>

Checked(p) ==
    /\ pc[p] = "pointer" /\ pointer = prev[p] /\ ~atomicCAS
    /\ pc' = [pc EXCEPT ![p] = "putPointer"]
    /\ UNCHANGED <<store, cache, bin, prev, edge, attempt, runs, heads>>

\* Whoever replaces the pointer replaces the one it read.
LEMMA WaysOut ==
    ASSUME PubInv, NEW p \in Publishers, CompareAndSwap(p) \/ LostAnswer(p) \/ SshRename(p)
    PROVE  Replaced(p) \/ Refused(p) \/ Checked(p)
<1>1. CASE CompareAndSwap(p) BY <1>1 DEF CompareAndSwap, WritePointer, Replaced, Refused, Checked
<1>2. CASE LostAnswer(p) BY <1>2 DEF LostAnswer, Retry, Replaced
<1>3. CASE SshRename(p)
  <2>1. pc[p] = "putPointer" /\ WritePointer(p) BY <1>3 DEF SshRename
  <2>2. pointer = prev[p] BY <2>1 DEF PubInv, LocalOK
  <2>3. QED BY <2>1, <2>2 DEF WritePointer, Replaced
<1>4. QED BY <1>1, <1>2, <1>3

\* The initial state: an empty store and idle machines.
LEMMA PubInit == Init => PubInv
<1> SUFFICES ASSUME Init PROVE PubInv
  OBVIOUS
<1>1. <<>> \in Seq(Releases) /\ Len(<<>>) = 0 BY EmptySeq
<1>2. 0 <= CacheLimit BY PublisherAssumption
<1>3. TypeOK
  <2>1. cache \in [Publishers -> Seq(Releases)] /\ \A p \in Publishers : Len(cache[p]) <= CacheLimit
    BY <1>1, <1>2 DEF Init
  <2>2. heads \in Seq(Releases) BY <1>1 DEF Init
  <2>3. atomicCAS \in BOOLEAN BY DEF Init
  <2>4. QED BY <2>1, <2>2, <2>3 DEF Init, TypeOK, Pcs
<1>4. LocalOK /\ OneOverSsh /\ ChainIsHistory BY DEF Init, LocalOK, OneOverSsh, ChainIsHistory
<1>5. QED BY <1>3, <1>4 DEF PubInv

\* Every step keeps the types.
LEMMA PubTypeStep ==
    ASSUME PubInv, NEW p \in Publishers, Publish(p) \/ Step(p) \/ Abort(p)
    PROVE  TypeOK'
<1>0. /\ TypeOK /\ PublisherAssumption BY PublisherAssumption DEF PubInv
<1>a. CacheOK(cache) BY <1>0 DEF TypeOK, CacheOK
<1>b. prev[p] # None => prev[p].head \in Releases BY <1>0 DEF TypeOK, Pointer
<1>c. pc[p] # "idle" => bin[p] \in Releases BY <1>0 DEF PubInv, LocalOK, TypeOK
<1>d. attempt \in [Publishers -> Nat] /\ attempt[p] + 1 \in Nat BY <1>0 DEF TypeOK
<1> USE DEF TypeOK, Pcs, store
<1>1. CASE Publish(p) BY <1>0, <1>1 DEF Publish
<1>2. CASE ReadPointer(p) BY <1>0, <1>2 DEF ReadPointer, Goto
<1>3. CASE FinishBlob(p)
  <2>1. CacheOK(cache') BY <1>0, <1>3, <1>a, <1>b, CachePutTyped DEF FinishBlob, CacheGet
  <2>2. QED BY <1>0, <1>3, <2>1 DEF FinishBlob, Goto, AfterFinish, CacheOK
<1>4. CASE PutOldBlob(p)
  <2>1. Encoder[p] \in Versions BY <1>0 DEF PublisherAssumption
  <2>2. blobs' \in [Releases -> Versions \cup {None}] BY <1>0, <1>4, <2>1 DEF PutOldBlob
  <2>3. QED BY <1>0, <1>4, <2>2 DEF PutOldBlob, Goto, AfterFinish
<1>5. CASE BlobOnly(p)
  <2>1. CacheOK(cache') BY <1>0, <1>5, <1>a, <1>b, CachePutTyped DEF BlobOnly, OldBytes
  <2>2. QED BY <1>0, <1>5, <2>1 DEF BlobOnly, Goto, CacheOK
<1>6. CASE PutPatch(p)
  <2>1. CacheOK(cache') BY <1>0, <1>6, <1>a, <1>b, CachePutTyped DEF PutPatch, OldBytes
  <2>2. Encoder[p] \in Versions BY <1>0 DEF PublisherAssumption
  <2>3. patches' \in [Releases \X Releases -> Versions \cup {None}] BY <1>0, <1>6, <2>2 DEF PutPatch
  <2>4. bin[p] \in Releases /\ prev[p].head \in Releases BY <1>6, <1>b, <1>c DEF PutPatch, Goto
  <2>5. edge' \in [Publishers -> Edge \cup {None}] BY <1>0, <1>6, <2>2, <2>4 DEF PutPatch, Edge
  <2>6. QED BY <1>0, <1>6, <2>1, <2>3, <2>5 DEF PutPatch, Goto, CacheOK
<1>7. CASE Replaced(p)
  <2>1. pointer' \in Pointer /\ heads' \in Seq(Releases) BY <1>7, Replaces DEF Replaced
  <2>2. attempt' \in [Publishers -> Nat]
    <3>1. attempt' = attempt \/ attempt' = [attempt EXCEPT ![p] = attempt[p] + 1] BY <1>7 DEF Replaced
    <3>2. QED BY <1>d, <3>1
  <2>3. pc' \in [Publishers -> Pcs] BY <1>0, <1>7 DEF Replaced
  <2>4. UNCHANGED <<atomicCAS, patches, blobs, cache, bin, prev, edge, runs>> BY <1>7 DEF Replaced
  <2>5. QED BY <1>0, <2>1, <2>2, <2>3, <2>4
<1>8. CASE Refused(p)
  <2>1. attempt' \in [Publishers -> Nat]
    <3>1. attempt' = attempt \/ attempt' = [attempt EXCEPT ![p] = attempt[p] + 1]
      BY <1>8 DEF Refused, Retry
    <3>2. QED BY <1>d, <3>1
  <2>2. pc' \in [Publishers -> Pcs]
    <3>1. pc' = [pc EXCEPT ![p] = "read"] \/ pc' = [pc EXCEPT ![p] = "idle"]
      BY <1>8 DEF Refused, Retry
    <3>2. QED BY <1>0, <3>1
  <2>3. UNCHANGED <<pointer, heads, atomicCAS, patches, blobs, cache, bin, prev, edge, runs>>
    BY <1>8 DEF Refused, Retry
  <2>4. QED BY <1>0, <2>1, <2>2, <2>3
<1>9. CASE Checked(p) BY <1>0, <1>9 DEF Checked
<1>10. CASE PutBlob(p)
  <2>1. Encoder[p] \in Versions BY <1>0 DEF PublisherAssumption
  <2>2. blobs' \in [Releases -> Versions \cup {None}] BY <1>0, <1>10, <2>1 DEF PutBlob
  <2>3. QED BY <1>0, <1>10, <2>2 DEF PutBlob, Goto
<1>11. CASE CacheBin(p)
  <2>1. CacheOK(cache') BY <1>0, <1>11, <1>a, <1>c, CachePutTyped DEF CacheBin, Goto
  <2>2. QED BY <1>0, <1>11, <2>1 DEF CacheBin, Goto, CacheOK
<1>12. CASE Abort(p) BY <1>0, <1>12 DEF Abort
<1>13. QED BY <1>1, <1>2, <1>3, <1>4, <1>5, <1>6, <1>7, <1>8, <1>9, <1>10, <1>11, <1>12, WaysOut DEF Step

\* A run touches only its own variables and the store; the kind of store is fixed.
LEMMA Others ==
    ASSUME PubInv, NEW p \in Publishers, Publish(p) \/ Step(p) \/ Abort(p)
    PROVE  /\ atomicCAS' = atomicCAS
           /\ \A q \in Publishers \ {p} :
                pc'[q] = pc[q] /\ bin'[q] = bin[q] /\ prev'[q] = prev[q] /\ edge'[q] = edge[q]
<1>0. TypeOK BY DEF PubInv
<1> USE DEF TypeOK, store
<1>1. CASE Publish(p) BY <1>0, <1>1 DEF Publish
<1>2. CASE ReadPointer(p) BY <1>0, <1>2 DEF ReadPointer, Goto
<1>3. CASE FinishBlob(p) \/ PutOldBlob(p) BY <1>0, <1>3 DEF FinishBlob, PutOldBlob, Goto
<1>4. CASE BlobOnly(p) BY <1>0, <1>4 DEF BlobOnly, Goto
<1>5. CASE PutPatch(p) BY <1>0, <1>5 DEF PutPatch, Goto
<1>6. CASE Replaced(p) BY <1>0, <1>6 DEF Replaced
<1>7. CASE Refused(p)
  <2>1. pc' = [pc EXCEPT ![p] = "read"] \/ pc' = [pc EXCEPT ![p] = "idle"] BY <1>7 DEF Refused, Retry
  <2>2. UNCHANGED <<atomicCAS, bin, prev, edge>> BY <1>7 DEF Refused, Retry
  <2>3. QED BY <1>0, <2>1, <2>2
<1>8. CASE Checked(p) BY <1>0, <1>8 DEF Checked
<1>9. CASE PutBlob(p) \/ CacheBin(p) \/ Abort(p) BY <1>0, <1>9 DEF PutBlob, CacheBin, Abort, Goto
<1>10. QED BY <1>1, <1>2, <1>3, <1>4, <1>5, <1>6, <1>7, <1>8, <1>9, WaysOut DEF Step

\* Every step keeps the invariant.
LEMMA PubStep ==
    ASSUME PubInv, NEW p \in Publishers, Publish(p) \/ Step(p) \/ Abort(p)
    PROVE  PubInv'
<1>0. TypeOK /\ LocalOK /\ OneOverSsh /\ ChainIsHistory /\ TypeOK' BY PubTypeStep DEF PubInv
<1>1. /\ atomicCAS' = atomicCAS
      /\ \A q \in Publishers \ {p} :
           pc'[q] = pc[q] /\ bin'[q] = bin[q] /\ prev'[q] = prev[q] /\ edge'[q] = edge[q]
  BY Others
<1>2. Replaced(p) \/ UNCHANGED <<pointer, heads>>
  BY WaysOut DEF Step, Refused, Checked, Publish, Abort, ReadPointer, FinishBlob, PutOldBlob, BlobOnly,
                 PutPatch, PutBlob, CacheBin, store
<1>3. ChainIsHistory'
  <2>1. CASE Replaced(p) BY <2>1, Replaces DEF Replaced
  <2>2. CASE UNCHANGED <<pointer, heads>> BY <1>0, <2>2 DEF ChainIsHistory
  <2>3. QED BY <1>2, <2>1, <2>2
<1>4. OneOverSsh'
  <2>1. CASE Publish(p)
    <3>1. atomicCAS \/ \A q \in Publishers \ {p} : bin[q] = None BY <2>1 DEF Publish
    <3>2. QED BY <1>1, <3>1 DEF OneOverSsh
  <2>2. CASE UNCHANGED bin BY <1>0, <1>1, <2>2 DEF OneOverSsh
  <2>3. QED BY <2>1, <2>2, WaysOut DEF Step, Replaced, Refused, Retry, Checked, Abort, ReadPointer, FinishBlob,
                                        PutOldBlob, BlobOnly, PutPatch, PutBlob, CacheBin
<1>5. LocalOK'
  <2> DEFINE OK(q) == /\ pc'[q] # "idle" => bin'[q] # None
                      /\ pc'[q] \in {"pointer", "putPointer"} /\ edge'[q] # None =>
                           /\ prev'[q] # None
                           /\ edge'[q].from = prev'[q].head /\ edge'[q].to = bin'[q]
                      /\ pc'[q] = "putPointer" => ~atomicCAS' /\ pointer' = prev'[q]
  <2>1. ASSUME NEW q \in Publishers \ {p} PROVE OK(q)
    <3>1. pc[q] = "putPointer" => pointer' = pointer
      <4>1. CASE Replaced(p)
        <5>1. bin[p] # None BY <1>0, <4>1 DEF Replaced, LocalOK
        <5>2. pc[q] = "putPointer" => bin[q] # None /\ ~atomicCAS BY <1>0 DEF LocalOK
        <5>3. QED BY <1>0, <5>1, <5>2 DEF OneOverSsh
      <4>2. QED BY <1>2, <4>1
    <3>2. QED BY <1>0, <1>1, <2>1, <3>1 DEF LocalOK
  <2>2. OK(p)
    <3> USE DEF LocalOK
    <3>1. CASE Publish(p)
      <4>1. pc'[p] = "read" /\ bin'[p] \in Releases BY <1>0, <3>1 DEF Publish, TypeOK
      <4>2. QED BY <4>1, PublisherAssumption
    <3>2. CASE ReadPointer(p) \/ FinishBlob(p) \/ PutOldBlob(p) \/ PutBlob(p) \/ CacheBin(p) \/ Abort(p)
      <4>1. pc'[p] \notin {"pointer", "putPointer"} /\ bin' = bin
        BY <1>0, <3>2 DEF ReadPointer, FinishBlob, PutOldBlob, PutBlob, CacheBin, Abort, Goto, AfterFinish, TypeOK
      <4>2. pc'[p] # "idle" => pc[p] # "idle"
        BY <1>0, <3>2 DEF ReadPointer, FinishBlob, PutOldBlob, PutBlob, CacheBin, Abort, Goto, TypeOK
      <4>3. QED BY <1>0, <4>1, <4>2
    <3>3. CASE BlobOnly(p)
      <4>1. pc[p] = "patch" /\ pc'[p] = "pointer" /\ edge'[p] = None /\ bin' = bin
        BY <1>0, <3>3 DEF BlobOnly, Goto, TypeOK
      <4>2. QED BY <1>0, <4>1
    <3>4. CASE PutPatch(p)
      <4>1. /\ pc[p] = "patch" /\ pc'[p] = "pointer" /\ prev[p] # None
            /\ edge'[p] = [from |-> prev[p].head, to |-> bin[p], ver |-> Encoder[p]]
            /\ UNCHANGED <<bin, prev>>
        BY <1>0, <3>4 DEF PutPatch, Goto, TypeOK
      <4>2. QED BY <1>0, <4>1
    <3>5. CASE Replaced(p)
      <4>1. /\ pc[p] # "idle" /\ pc'[p] \in {"putBlob", "read", "idle"} /\ bin' = bin
        BY <1>0, <3>5 DEF Replaced, TypeOK
      <4>2. QED BY <1>0, <4>1
    <3>6. CASE Refused(p)
      <4>1. pc' = [pc EXCEPT ![p] = "read"] \/ pc' = [pc EXCEPT ![p] = "idle"] BY <3>6 DEF Refused, Retry
      <4>2. pc'[p] \in {"read", "idle"} /\ bin' = bin /\ pc[p] = "pointer" BY <1>0, <3>6, <4>1 DEF Refused, Retry, TypeOK
      <4>3. QED BY <1>0, <4>2
    <3>7. CASE Checked(p)
      <4>1. /\ pc[p] = "pointer" /\ pc'[p] = "putPointer" /\ pointer = prev[p] /\ ~atomicCAS
            /\ UNCHANGED <<pointer, bin, prev, edge>>
        BY <1>0, <3>7 DEF Checked, TypeOK, store
      <4>2. QED BY <1>0, <1>1, <4>1
    <3>8. QED BY <3>1, <3>2, <3>3, <3>4, <3>5, <3>6, <3>7, WaysOut DEF Step
  <2> HIDE DEF OK
  <2>3. \A q \in Publishers : OK(q) BY <2>1, <2>2
  <2>4. QED BY <2>3 DEF LocalOK, OK
<1>6. QED BY <1>0, <1>3, <1>4, <1>5 DEF PubInv

\* No step at all changes nothing of it.
LEMMA PubStutter == PubInv /\ UNCHANGED vars => PubInv'
<1> SUFFICES ASSUME PubInv, UNCHANGED vars PROVE PubInv'
  OBVIOUS
<1>1. TypeOK' BY DEF PubInv, TypeOK, vars
<1>2. LocalOK' /\ OneOverSsh' /\ ChainIsHistory'
  BY DEF PubInv, LocalOK, OneOverSsh, ChainIsHistory, vars
<1>3. QED BY <1>1, <1>2 DEF PubInv

-----------------------------------------------------------------------------
(* The invariant of publishing holds in every behaviour.                   *)
THEOREM PubInvariant == Spec => []PubInv
<1>1. Init => PubInv BY PubInit
<1>2. PubInv /\ [Next]_vars => PubInv' BY PubStep, PubStutter DEF Next
<1>3. QED BY <1>1, <1>2, PTL DEF Spec

(* Type correctness of the store, the caches (cache.go evict keeps at most *)
(* cacheLimit releases) and the publish runs.                              *)
THEOREM PubTypeCorrect == Spec => []TypeOK
<1>1. PubInv => TypeOK BY DEF PubInv
<1>2. QED BY <1>1, PubInvariant, PTL

(* putPointer: two publishers cannot fork the chain.  It is the recent     *)
(* history of the heads and fits ParsePointer's limit, whichever runs      *)
(* race, die, or see the answer to their own write lost.                   *)
THEOREM ChainIsAlwaysHistory == Spec => []ChainIsHistory
<1>1. PubInv => ChainIsHistory BY DEF PubInv
<1>2. QED BY <1>1, PubInvariant, PTL

(* putPointer: every replacement of the pointer raises its seq, whatever   *)
(* the publishers' clocks say.                                             *)
THEOREM SeqAlwaysGrows == Spec => SeqGrows
<1>1. PubInv /\ [Next]_vars => [pointer' # pointer /\ pointer # None => pointer'.seq > pointer.seq]_vars
  <2> SUFFICES ASSUME PubInv, Next, pointer' # pointer, pointer # None
               PROVE  pointer'.seq > pointer.seq
    BY DEF vars
  <2>1. PICK p \in Publishers : Publish(p) \/ Step(p) \/ Abort(p) BY DEF Next
  <2>2. Replaced(p)
    BY <2>1, WaysOut DEF Step, Refused, Checked, Publish, Abort, ReadPointer, FinishBlob, PutOldBlob, BlobOnly,
                         PutPatch, PutBlob, CacheBin, store
  <2>3. QED BY <2>2, Replaces DEF Replaced
<1>2. QED BY <1>1, PubInvariant, PTL DEF Spec, SeqGrows

-----------------------------------------------------------------------------
(***************************************************************************)
(* With one encoder version on every machine, an object under a key is the *)
(* one every pointer names.                                                *)
(***************************************************************************)
SameVersion == \A p, q \in Publishers : Encoder[p] = Encoder[q]

(* An edge's patch is in the store, as any machine would have made it.     *)
Made(e) == patches[<<e.from, e.to>>] = e.ver /\ \A q \in Publishers : e.ver = Encoder[q]

(* So are all edges of a pointer, and any machine can make its blob.       *)
GoodPointer(x) ==
    x # None => /\ \A q \in Publishers : x.blobVer = Encoder[q]
                /\ \A k \in 1..Len(x.chain) : Made(x.chain[k])

StoreOK ==
    /\ GoodPointer(pointer)
    /\ \A p \in Publishers :
        /\ GoodPointer(prev[p])
        /\ edge[p] # None => Made(edge[p])
        /\ pc[p] \in {"cache", "done"} => blobs[bin[p]] # None

(* The same of an edge and a pointer, about the store after a step.        *)
StaysMade(e) == patches'[<<e.from, e.to>>] = e.ver /\ \A q \in Publishers : e.ver = Encoder[q]

StaysGood(x) ==
    x # None => /\ \A q \in Publishers : x.blobVer = Encoder[q]
                /\ \A k \in 1..Len(x.chain) : StaysMade(x.chain[k])

\* A patch is only ever replaced by the same one.
LEMMA MadeStays ==
    ASSUME SameVersion, PubInv, NEW p \in Publishers, Publish(p) \/ Step(p) \/ Abort(p),
           NEW e \in Edge, Made(e)
    PROVE  StaysMade(e)
<1>1. CASE UNCHANGED patches BY <1>1 DEF Made, StaysMade
<1>2. CASE PutPatch(p)
  <2>1. patches' = [patches EXCEPT ![<<prev[p].head, bin[p]>>] = Encoder[p]] BY <1>2 DEF PutPatch
  <2>2. <<e.from, e.to>> \in Releases \X Releases /\ e.ver = Encoder[p] BY DEF Edge, Made
  <2>3. patches \in [Releases \X Releases -> Versions \cup {None}] BY DEF PubInv, TypeOK
  <2>4. patches'[<<e.from, e.to>>] = e.ver
    <3> DEFINE k == <<e.from, e.to>>
               j == <<prev[p].head, bin[p]>>
    <3>1. k \in Releases \X Releases /\ patches' = [patches EXCEPT ![j] = Encoder[p]] /\ patches[k] = e.ver
      BY <2>1, <2>2 DEF Made
    <3> HIDE DEF k, j
    <3>2. patches'[k] = e.ver BY <2>2, <2>3, <3>1
    <3>3. QED BY <3>2 DEF k
  <2>5. QED BY <2>4 DEF Made, StaysMade
<1>3. QED BY <1>1, <1>2, WaysOut DEF Step, Replaced, Refused, Retry, Checked, Publish, Abort, ReadPointer,
                                 FinishBlob, PutOldBlob, BlobOnly, PutBlob, CacheBin, store

\* A pointer that was good stays good.
LEMMA GoodStays ==
    ASSUME SameVersion, PubInv, NEW p \in Publishers, Publish(p) \/ Step(p) \/ Abort(p),
           NEW x \in Pointer \cup {None}, GoodPointer(x)
    PROVE  StaysGood(x)
<1> SUFFICES ASSUME x # None, NEW k \in 1..Len(x.chain) PROVE StaysMade(x.chain[k])
  BY DEF GoodPointer, StaysGood
<1>1. x.chain \in Seq(Edge) BY DEF Pointer
<1>2. x.chain[k] \in Edge BY <1>1, ElementOfSeq
<1>3. Made(x.chain[k]) BY DEF GoodPointer
<1>4. QED BY <1>2, <1>3, MadeStays

\* The chain of the new pointer: the run's edge, then the chain it read.
LEMMA NewChainMade ==
    ASSUME SameVersion, PubInv, StoreOK, NEW p \in Publishers
    PROVE  \A k \in 1..Len(NewChain(p)) : NewChain(p)[k] \in Edge /\ Made(NewChain(p)[k])
<1>1. CASE prev[p] = None \/ edge[p] = None
  <2>1. NewChain(p) = <<>> BY <1>1 DEF NewChain
  <2>2. QED BY <2>1
<1>2. CASE prev[p] # None /\ edge[p] # None
  <2> DEFINE old == prev[p].chain
             s   == <<edge[p]>> \o old
             c   == NewChain(p)
  <2>1. edge[p] \in Edge /\ old \in Seq(Edge) /\ MaxChain \in Nat
    BY <1>2, PublisherAssumption DEF PubInv, TypeOK, Pointer
  <2>2. Len(old) \in Nat BY <2>1, LenProperties
  <2>3. s \in Seq(Edge) /\ Len(s) = Len(old) + 1 /\ s[1] = edge[p] /\ \A i \in 2..(Len(old) + 1) : s[i] = old[i - 1]
    BY <2>1, PushTyped
  <2>4. c = Truncate(s, MaxChain) BY <1>2 DEF NewChain
  <2>5. Made(edge[p]) /\ \A k \in 1..Len(old) : Made(old[k]) BY <1>2 DEF StoreOK, GoodPointer
  <2>6. \A k \in 1..Len(old) : old[k] \in Edge BY <2>1, ElementOfSeq
  <2> HIDE DEF c, s, old
  <2>7. c \in Seq(Edge) /\ Len(c) <= Len(s) /\ \A i \in 1..Len(c) : c[i] = s[i]
    BY <2>1, <2>3, <2>4, TruncateKeeps
  <2>8. Len(c) \in Nat BY <2>7, LenProperties
  <2>9. ASSUME NEW k \in 1..Len(c) PROVE c[k] \in Edge /\ Made(c[k])
    <3>1. c[k] = s[k] BY <2>7
    <3>2. CASE k = 1 BY <2>1, <2>3, <2>5, <3>1, <3>2
    <3>3. CASE k # 1
      <4>1. k \in 2..(Len(old) + 1) /\ k - 1 \in 1..Len(old) BY <2>2, <2>3, <2>7, <2>8, <3>3
      <4>2. c[k] = old[k - 1] BY <2>3, <3>1, <4>1
      <4>3. QED BY <2>5, <2>6, <4>1, <4>2
    <3>4. QED BY <3>2, <3>3
  <2>10. QED BY <2>9 DEF c
<1>3. QED BY <1>1, <1>2

\* Every step keeps the store sound.
LEMMA StoreStep ==
    ASSUME SameVersion, PubInv, StoreOK, NEW p \in Publishers, Publish(p) \/ Step(p) \/ Abort(p)
    PROVE  StoreOK'
<1>0. TypeOK /\ PublisherAssumption BY PublisherAssumption DEF PubInv
<1>1. \A q \in Publishers \ {p} :
        pc'[q] = pc[q] /\ bin'[q] = bin[q] /\ prev'[q] = prev[q] /\ edge'[q] = edge[q]
  BY Others
<1>2. StaysGood(pointer) /\ \A q \in Publishers : StaysGood(prev[q])
  <2>1. pointer \in Pointer \cup {None} /\ \A q \in Publishers : prev[q] \in Pointer \cup {None} BY <1>0 DEF TypeOK
  <2>2. GoodPointer(pointer) /\ \A q \in Publishers : GoodPointer(prev[q]) BY DEF StoreOK
  <2>3. QED BY <2>1, <2>2, GoodStays
<1>3. \A q \in Publishers : edge[q] # None => StaysMade(edge[q])
  <2> SUFFICES ASSUME NEW q \in Publishers, edge[q] # None PROVE StaysMade(edge[q])
    OBVIOUS
  <2>1. edge[q] \in Edge /\ Made(edge[q]) BY <1>0 DEF TypeOK, StoreOK
  <2>2. QED BY <2>1, MadeStays
<1>4. \A q \in Publishers : Encoder[q] \in Versions /\ Encoder[q] # None /\ Encoder[q] = Encoder[p]
  BY <1>0 DEF PublisherAssumption, SameVersion
<1>5. GoodPointer(pointer)'
  <2>1. CASE Replaced(p)
    <3>1. PICK clock \in Clocks :
            pointer' = [seq |-> NewSeq(p, clock), head |-> bin[p], blobVer |-> Encoder[p], chain |-> NewChain(p)]
      BY <2>1 DEF Replaced, ReplacePointer
    <3>2. pointer'.blobVer = Encoder[p] /\ pointer'.chain = NewChain(p) BY <3>1
    <3>3. \A k \in 1..Len(NewChain(p)) : StaysMade(NewChain(p)[k]) BY NewChainMade, MadeStays
    <3>4. QED BY <1>4, <3>2, <3>3 DEF GoodPointer, Made, StaysMade
  <2>2. CASE pointer' = pointer BY <1>2, <2>2 DEF GoodPointer, Made, StaysGood, StaysMade
  <2>3. QED BY <2>1, <2>2, WaysOut DEF Step, Refused, Checked, Publish, Abort, ReadPointer, FinishBlob, PutOldBlob,
                                       BlobOnly, PutPatch, PutBlob, CacheBin, store
<1>6. \A q \in Publishers : GoodPointer(prev[q])'
  <2> SUFFICES ASSUME NEW q \in Publishers PROVE GoodPointer(prev[q])'
    OBVIOUS
  <2>1. CASE prev'[q] = prev[q] BY <1>2, <2>1 DEF GoodPointer, Made, StaysGood, StaysMade
  <2>2. CASE prev'[q] = pointer BY <1>2, <2>2 DEF GoodPointer, Made, StaysGood, StaysMade
  <2>3. CASE prev'[q] = None BY <2>3 DEF GoodPointer
  <2>4. prev'[q] \in {prev[q], pointer, None}
    <3>1. CASE Publish(p) BY <1>0, <3>1 DEF Publish, TypeOK
    <3>2. CASE ReadPointer(p) BY <1>0, <3>2 DEF ReadPointer, TypeOK
    <3>3. QED BY <3>1, <3>2, WaysOut DEF Step, Replaced, Refused, Retry, Checked, Abort, FinishBlob, PutOldBlob,
                                         BlobOnly, PutPatch, PutBlob, CacheBin
  <2>5. QED BY <2>1, <2>2, <2>3, <2>4
<1>7. \A q \in Publishers : edge'[q] # None => Made(edge[q])'
  <2> SUFFICES ASSUME NEW q \in Publishers, edge'[q] # None PROVE Made(edge[q])'
    OBVIOUS
  <2>1. CASE edge'[q] = edge[q] BY <1>3, <2>1 DEF Made, StaysMade
  <2>2. CASE PutPatch(p) /\ q = p
    <3>1. /\ patches' = [patches EXCEPT ![<<prev[p].head, bin[p]>>] = Encoder[p]]
          /\ edge'[p] = [from |-> prev[p].head, to |-> bin[p], ver |-> Encoder[p]]
      BY <1>0, <2>2 DEF PutPatch, TypeOK
    <3>2. <<prev[p].head, bin[p]>> \in Releases \X Releases
      BY <1>0, <2>2 DEF PutPatch, Goto, TypeOK, Pointer, PubInv, LocalOK
    <3>3. patches'[<<prev[p].head, bin[p]>>] = Encoder[p] BY <1>0, <3>1, <3>2 DEF TypeOK
    <3>4. edge'[p].from = prev[p].head /\ edge'[p].to = bin[p] /\ edge'[p].ver = Encoder[p] BY <3>1
    <3>5. QED BY <1>4, <2>2, <3>3, <3>4 DEF Made
  <2>3. CASE edge'[q] = None BY <2>3
  <2>4. edge'[q] = edge[q] \/ edge'[q] = None \/ (PutPatch(p) /\ q = p)
    <3>1. CASE Publish(p) \/ BlobOnly(p) BY <1>0, <3>1 DEF Publish, BlobOnly, TypeOK
    <3>2. CASE PutPatch(p) BY <1>1, <3>2
    <3>3. QED BY <3>1, <3>2, WaysOut DEF Step, Replaced, Refused, Retry, Checked, Abort, ReadPointer, FinishBlob,
                                         PutOldBlob, PutBlob, CacheBin
  <2>5. QED BY <2>1, <2>2, <2>3, <2>4
<1>8. \A q \in Publishers : pc'[q] \in {"cache", "done"} => blobs'[bin'[q]] # None
  <2> SUFFICES ASSUME NEW q \in Publishers, pc'[q] \in {"cache", "done"} PROVE blobs'[bin'[q]] # None
    OBVIOUS
  <2>1. \A r \in Releases : blobs[r] # None => blobs'[r] # None
    <3>1. CASE PutOldBlob(p) BY <1>0, <1>4, <3>1 DEF PutOldBlob, TypeOK
    <3>2. CASE PutBlob(p) BY <1>0, <1>4, <3>2 DEF PutBlob, TypeOK
    <3>3. QED BY <3>1, <3>2, WaysOut DEF Step, Replaced, Refused, Retry, Checked, Publish, Abort, ReadPointer,
                                         FinishBlob, BlobOnly, PutPatch, CacheBin, store
  <2>2. \A r \in Publishers : pc[r] # "idle" => bin[r] \in Releases BY <1>0 DEF PubInv, LocalOK, TypeOK
  <2>3. CASE pc[q] \in {"cache", "done"} /\ bin'[q] = bin[q] BY <2>1, <2>2, <2>3 DEF StoreOK
  <2>4. CASE q = p /\ FinishBlob(p)
    <3>1. ~CanFinish(p) /\ prev[p] # None /\ prev[p].head = bin[p] /\ UNCHANGED <<blobs, bin>>
      BY <1>0, <2>4 DEF FinishBlob, Goto, AfterFinish, TypeOK, store
    <3>2. Encoder[p] = prev[p].blobVer BY <3>1 DEF StoreOK, GoodPointer
    <3>3. QED BY <2>4, <3>1, <3>2 DEF CanFinish
  <2>5. CASE q = p /\ PutOldBlob(p)
    <3>1. /\ pc[p] = "putOldBlob" /\ prev[p].head = bin[p] /\ bin' = bin
          /\ blobs' = [blobs EXCEPT ![prev[p].head] = Encoder[p]]
      BY <1>0, <2>5 DEF PutOldBlob, Goto, AfterFinish, TypeOK
    <3>2. QED BY <1>0, <1>4, <2>2, <2>5, <3>1 DEF TypeOK
  <2>6. CASE q = p /\ PutBlob(p)
    <3>1. pc[p] = "putBlob" /\ bin' = bin /\ blobs' = [blobs EXCEPT ![bin[p]] = Encoder[p]]
      BY <2>6 DEF PutBlob, Goto
    <3>2. QED BY <1>0, <1>4, <2>2, <2>6, <3>1 DEF TypeOK
  <2>7. CASE q # p BY <1>1, <2>3, <2>7
  <2>8. CASE q = p /\ ~FinishBlob(p) /\ ~PutOldBlob(p) /\ ~PutBlob(p)
    <3>1. CASE Publish(p) BY <1>0, <2>8, <3>1 DEF Publish, TypeOK
    <3>2. CASE ReadPointer(p) \/ BlobOnly(p) \/ PutPatch(p) \/ Abort(p)
      BY <1>0, <2>8, <3>2 DEF ReadPointer, BlobOnly, PutPatch, Abort, Goto, TypeOK
    <3>3. CASE Replaced(p) BY <1>0, <2>8, <3>3 DEF Replaced, TypeOK
    <3>4. CASE Refused(p)
      <4>1. pc' = [pc EXCEPT ![p] = "read"] \/ pc' = [pc EXCEPT ![p] = "idle"] BY <3>4 DEF Refused, Retry
      <4>2. QED BY <1>0, <2>8, <4>1 DEF TypeOK
    <3>5. CASE Checked(p) BY <1>0, <2>8, <3>5 DEF Checked, TypeOK
    <3>6. CASE CacheBin(p) BY <2>3, <2>8, <3>6 DEF CacheBin, Goto
    <3>7. QED BY <2>8, <3>1, <3>2, <3>3, <3>4, <3>5, <3>6, WaysOut DEF Step
  <2>9. QED BY <2>4, <2>5, <2>6, <2>7, <2>8
<1>9. QED BY <1>5, <1>6, <1>7, <1>8 DEF StoreOK

-----------------------------------------------------------------------------
(* With one encoder version everywhere the store stays sound.              *)
THEOREM StoreInvariant ==
    ASSUME SameVersion
    PROVE  Spec => []StoreOK
<1>1. Init => StoreOK BY DEF Init, StoreOK, GoodPointer
<1>2. PubInv /\ StoreOK /\ [Next]_vars => StoreOK'
  <2>1. CASE UNCHANGED vars BY <2>1 DEF StoreOK, GoodPointer, Made, vars
  <2>2. CASE Next BY <2>2, StoreStep DEF Next
  <2>3. QED BY <2>1, <2>2
<1>3. QED BY <1>1, <1>2, PubInvariant, PTL DEF Spec

(* README guarantee 3: a pointer always names an existing patch, with the  *)
(* hash it carries, for publishers that run one encoder version.           *)
THEOREM EdgesAlwaysFetchable ==
    ASSUME SameVersion
    PROVE  Spec => []EdgesFetchable
<1>1. StoreOK => EdgesFetchable BY DEF StoreOK, GoodPointer, Made, EdgesFetchable
<1>2. QED BY <1>1, StoreInvariant, PTL

(* finishBlob: a publish that reported success has left its release's blob *)
(* in the store, for publishers that run one encoder version.              *)
THEOREM ReturnedLeavesBlob ==
    ASSUME SameVersion
    PROVE  Spec => []ReturnedHasBlob
<1>1. StoreOK => ReturnedHasBlob BY DEF StoreOK, ReturnedHasBlob
<1>2. QED BY <1>1, StoreInvariant, PTL
=============================================================================
