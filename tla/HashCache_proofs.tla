-------------------------- MODULE HashCache_proofs --------------------------
(***************************************************************************)
(* Proofs about the hash cache and the agent's cycle around it, for any    *)
(* number of releases, edits and crashes.  What rests on the modification  *)
(* time assumes a clock that gives every edit in place a time of its own.  *)
(***************************************************************************)
EXTENDS HashCache, SequenceTheorems, TLAPS

(* An identity taken from the path at some time: no later file has it.     *)
Past(x) == x = <<>> \/ (x \in Nat \X Nat /\ x[1] <= file.ino /\ x[2] <= clock)

(* What was read so far is what the file holds now.                        *)
ReadSoFar == \A j \in 1..Len(got) : got[j] = file.blocks[j]

(* How far each read is, and that a chain or a blob is of an accepted head.*)
Progress ==
  /\ pc \in {"hash", "chain"} => Len(got) < 2
  /\ pc \in {"restat", "apply"} => Len(got) = 2
  /\ pc \in {"chain", "apply", "blob", "install"} => etag # 0

(* CachedHash: as long as the path is what it was at the stat, the read is *)
(* of that file, and so is the hash about to be cached.                    *)
HashOK ==
  /\ pc \in {"hash", "restat"} /\ id = FileID => fd.ino = file.ino /\ ReadSoFar
  /\ pc \in {"trunc", "line"} /\ id = FileID => cur = file.blocks

(* The cycle: unless the file was edited since the stat, it is what the    *)
(* plan was made for and what the patch reads.                             *)
CycleOK ==
  /\ pc # "stat" /\ ~touched => id = FileID
  /\ pc \in {"poll", "chain", "apply"} /\ ~touched => cur = file.blocks
  /\ pc \in {"chain", "apply"} /\ ~touched =>
       ReadSoFar /\ (got # <<>> => fd.ino = file.ino)

(* What holds on any clock, and what needs a time of its own per edit.     *)
CycleInv == HashTypeOK /\ Progress

HashInv ==
  /\ CycleInv
  /\ Past(id) /\ Past(cache.id)
  /\ CacheTruthful /\ HashOK /\ CycleOK /\ DriftGoesToBlob

-----------------------------------------------------------------------------
\* A read of both blocks has the type of a content.
LEMMA GotTyped ==
  ASSUME HashTypeOK, Len(got) = 2
  PROVE  got \in Content /\ (ReadSoFar => got = file.blocks)
<1>1. got \in [1..2 -> Block] BY LenProperties DEF HashTypeOK
<1>2. file.blocks \in [1..2 -> Block] BY DEF HashTypeOK, File, Content
<1>3. QED BY <1>1, <1>2 DEF Content, ReadSoFar

\* An identity is a pair of numbers taken from the path.
LEMMA FileIDTyped ==
  ASSUME HashTypeOK
  PROVE  /\ FileID \in Nat \X Nat /\ FileID[1] = file.ino /\ FileID[2] = file.mtime
         /\ FileID # <<>> /\ Past(FileID)
<1>1. file.ino \in Nat /\ file.mtime \in Nat /\ file.mtime <= clock /\ clock \in Nat BY DEF HashTypeOK, File
<1>2. FileID \in Nat \X Nat /\ FileID[1] = file.ino /\ FileID[2] = file.mtime /\ FileID # <<>>
  BY <1>1 DEF FileID
<1>3. QED BY <1>1, <1>2 DEF Past

\* One more block of what is at the path, or was when it was opened.
LEMMA ReadsOn ==
  ASSUME HashTypeOK, HashTypeOK', Len(got) < 2, NEW b, got' = Append(got, b), file' = file
  PROVE  /\ Len(got') = Len(got) + 1 /\ got' # <<>>
         /\ ReadSoFar /\ b = file.blocks[Len(got) + 1] => ReadSoFar'
<1>1. got \in Seq(Block) /\ got' \in Seq(Block) /\ Len(got) \in Nat BY DEF HashTypeOK
<1>2. /\ Len(got') = Len(got) + 1 /\ got'[Len(got) + 1] = b
      /\ \A n \in 1..Len(got) : got'[n] = got[n]
  BY <1>1
<1>3. got' # <<>> BY <1>1, <1>2
<1>4. \A n \in 1..(Len(got) + 1) : n = Len(got) + 1 \/ n \in 1..Len(got) BY <1>1
<1>5. QED BY <1>2, <1>3, <1>4 DEF ReadSoFar

\* Every block that can be read is a block, of the file at the path when that
\* is the file that was opened.
LEMMA SeenTyped ==
  ASSUME HashTypeOK, NEW k \in 1..2
  PROVE  /\ Seen[k] \in Block /\ file.blocks[k] \in Block
         /\ fd.ino = file.ino => Seen[k] = file.blocks[k]
BY DEF HashTypeOK, Seen, File, Content

\* A release is two blocks of its number.
LEMMA ReleaseTyped ==
  ASSUME NEW n \in 1..MaxRelease
  PROVE  Release(n) \in Content
BY DEF Release, Content, Block

\* The initial state: a release at the path and no line cached.
LEMMA HashInvInit == HashInit => HashInv
<1> SUFFICES ASSUME HashInit PROVE HashInv
  OBVIOUS
<1>1. Release(1) \in Content /\ 1 \in 1..MaxRelease BY HashAssumption, ReleaseTyped
<1>2. <<>> \in Seq(Block) /\ Len(<<>>) = 0 OBVIOUS
<1>3. HashTypeOK
  <2>1. file \in File /\ file.mtime = 0 BY <1>1 DEF HashInit, File
  <2>2. cache \in [id: (Nat \X Nat) \cup {<<>>}, hash: Content \cup {<<>>}] BY DEF HashInit, Torn
  <2>3. got \in Seq(Block) /\ Len(got) <= 2 BY <1>2 DEF HashInit
  <2>4. /\ id \in (Nat \X Nat) \cup {<<>>}
        /\ cur \in Content \cup {<<>>}
    BY DEF HashInit
  <2>5. /\ head \in 1..MaxRelease /\ etag \in 0..head /\ reached \in 0..head
        /\ clock \in Nat /\ edits \in 0..MaxEdits /\ crashes \in 0..MaxCrashes
    BY <1>1, HashAssumption DEF HashInit
  <2>6. fd \in File /\ pc = "stat" /\ file.mtime <= clock BY <2>1 DEF HashInit
  <2>a. touched \in BOOLEAN BY DEF HashInit
  <2>7. QED BY <2>1, <2>2, <2>3, <2>4, <2>5, <2>6, <2>a DEF HashTypeOK
<1>4. FileID # <<>> BY <1>3, FileIDTyped
<1>5. Past(id) /\ Past(cache.id) BY DEF Past, HashInit, Torn
<1>6. CacheTruthful BY <1>4 DEF CacheTruthful, HashInit, Torn
<1>7. pc = "stat" BY DEF HashInit
<1>8. Progress /\ HashOK /\ CycleOK /\ DriftGoesToBlob
  BY <1>7 DEF Progress, HashOK, CycleOK, DriftGoesToBlob
<1>9. QED BY <1>3, <1>5, <1>6, <1>8 DEF HashInv, CycleInv

\* The file at the path changes: no identity anybody holds is the new one.
LEMMA FileChanges ==
  ASSUME HashInv, HashTypeOK',
         \/ file'.ino = file.ino + 1 /\ clock' = clock
         \/ file'.ino = file.ino /\ file'.mtime = clock + 1 /\ clock' = clock + 1,
         UNCHANGED <<id, cache>>
  PROVE  Past(id)' /\ Past(cache.id)' /\ id' # FileID' /\ cache'.id # FileID'
<1>0. file.ino \in Nat /\ clock \in Nat /\ Past(id) /\ Past(cache.id) BY DEF HashInv, CycleInv, HashTypeOK, File
<1>1. FileID' \in Nat \X Nat /\ FileID'[1] = file'.ino /\ FileID'[2] = file'.mtime /\ FileID' # <<>>
  BY DEF HashTypeOK, File, FileID
<1>2. ASSUME NEW x, Past(x) PROVE x # FileID' /\ (x = <<>> \/ (x \in Nat \X Nat /\ x[1] <= file'.ino /\ x[2] <= clock'))
  <2>1. CASE x = <<>> BY <1>1, <2>1
  <2>2. CASE x # <<>>
    <3>1. x \in Nat \X Nat /\ x[1] \in Nat /\ x[2] \in Nat /\ x[1] <= file.ino /\ x[2] <= clock
      BY <1>2, <2>2 DEF Past
    <3>2. x[1] <= file'.ino /\ x[2] <= clock' /\ (x[1] # file'.ino \/ x[2] # file'.mtime)
      BY <1>0, <3>1
    <3>3. QED BY <1>1, <3>1, <3>2
  <2>3. QED BY <2>1, <2>2
<1>3. QED BY <1>0, <1>2 DEF Past

\* Every step keeps the types.
LEMMA HashTypeStep ==
  ASSUME CycleInv, HashNext
  PROVE  HashTypeOK'
<1> USE DEF HashTypeOK
<1>0. HashTypeOK /\ Progress /\ MaxRelease \in Nat /\ MaxEdits \in Nat /\ MaxCrashes \in Nat
  BY HashAssumption DEF CycleInv
<1>a. FileID \in Nat \X Nat BY <1>0, FileIDTyped
<1>b. <<>> \in Seq(Block) /\ Len(<<>>) = 0 OBVIOUS
<1>c. etag # 0 => Release(etag) \in Content
  <2>1. etag # 0 => etag \in 1..MaxRelease BY <1>0
  <2>2. QED BY <2>1, ReleaseTyped
<1>1. CASE Stat
  <2>1. cache.hash \in Content \cup {<<>>} BY <1>0
  <2>2. QED BY <1>0, <1>a, <1>1, <2>1 DEF Stat
<1>2. CASE OpenFile
  <2>1. got' = <<>> /\ got' \in Seq(Block) /\ Len(got') <= 2 BY <1>b, <1>2 DEF OpenFile
  <2>2. QED BY <1>0, <1>2, <2>1 DEF OpenFile
<1>3. CASE HashBlock
  <2>1. Len(got) + 1 \in 1..2 /\ Len(got) \in Nat BY <1>0, <1>3 DEF HashBlock, Progress
  <2>2. got' = Append(got, Seen[Len(got) + 1]) /\ Seen[Len(got) + 1] \in Block
    BY <1>0, <1>3, <2>1, SeenTyped DEF HashBlock
  <2>3. got' \in Seq(Block) /\ Len(got') <= 2 BY <1>0, <2>1, <2>2
  <2>4. QED BY <1>0, <1>3, <2>3 DEF HashBlock
<1>4. CASE Restat
  <2>1. cur' \in Content BY <1>0, <1>4, GotTyped DEF Restat, Progress
  <2>2. QED BY <1>0, <1>4, <2>1 DEF Restat
<1>5. CASE TruncCache
  <2>1. Torn \in [id: (Nat \X Nat) \cup {<<>>}, hash: Content \cup {<<>>}] BY DEF Torn
  <2>2. QED BY <1>0, <1>5, <2>1 DEF TruncCache
<1>6. CASE WriteCache
  BY <1>0, <1>6 DEF WriteCache
<1>7. CASE PollNotModified BY <1>0, <1>7 DEF PollNotModified
<1>8. CASE Plan
  <2>1. got' \in Seq(Block) /\ Len(got') <= 2 BY <1>b, <1>8 DEF Plan
  <2>2. etag' \in 0..head' /\ reached' \in 0..head' BY <1>0, <1>8 DEF Plan
  <2>3. QED BY <1>0, <1>8, <2>1, <2>2 DEF Plan
<1>9. CASE ReadBase
  <2>1. Len(got) + 1 \in 1..2 /\ Len(got) \in Nat BY <1>0, <1>9 DEF ReadBase, Progress
  <2>2. PICK b \in Block : got' = Append(got, b)
    <3>1. 1 \in 1..2 /\ 2 \in 1..2 OBVIOUS
    <3>2. Seen[2] \in Block /\ file.blocks[1] \in Block BY <1>0, <3>1, SeenTyped
    <3>3. QED BY <1>9, <3>2 DEF ReadBase
  <2>3. got' \in Seq(Block) /\ Len(got') <= 2 BY <1>0, <2>1, <2>2
  <2>4. QED BY <1>0, <1>9, <2>3 DEF ReadBase
<1>10. CASE ApplyChain
  <2>1. etag' \in 0..head' BY <1>0, <1>10 DEF ApplyChain, Progress
  <2>2. QED BY <1>0, <1>10, <2>1 DEF ApplyChain
<1>11. CASE Refused BY <1>0, <1>11 DEF Refused
<1>12. CASE FetchBlob BY <1>0, <1>12 DEF FetchBlob
<1>13. CASE Install
  <2>1. Release(etag) \in Content BY <1>0, <1>c, <1>13 DEF Install, Progress
  <2>2. file' \in File /\ file'.mtime <= clock'
    BY <1>0, <1>13, <2>1 DEF Install, File
  <2>3. QED BY <1>0, <1>13, <2>2 DEF Install
<1>14. CASE AgentDies
  <2>1. crashes' \in 0..MaxCrashes /\ etag' \in 0..head' BY <1>0, <1>14 DEF AgentDies
  <2>2. QED BY <1>0, <1>14, <2>1 DEF AgentDies
<1>15. CASE EditInPlace
  <2>1. PICK k \in 1..2, b \in {Foreign, head}, now \in {clock, clock + 1} :
          clock' = now /\ file' = [file EXCEPT !.blocks[k] = b, !.mtime = now]
    BY <1>15 DEF EditInPlace
  <2>2. file' \in File /\ file'.mtime = now
    <3>1. b \in Block /\ now \in Nat BY <1>0 DEF Block
    <3>2. QED BY <1>0, <2>1, <3>1 DEF File, Content
  <2>3. clock' \in Nat /\ file'.mtime <= clock' /\ edits' \in 0..MaxEdits
    BY <1>0, <1>15, <2>1, <2>2 DEF EditInPlace
  <2>a. touched' \in BOOLEAN BY <1>15 DEF EditInPlace
  <2>4. QED BY <1>0, <1>15, <2>2, <2>3, <2>a DEF EditInPlace, agentVars
<1>16. CASE EditByRename
  <2>1. <<Foreign, Foreign>> \in Content BY DEF Content, Block
  <2>2. file' \in File /\ file'.mtime <= clock' BY <1>0, <1>16, <2>1 DEF EditByRename, File
  <2>3. edits' \in 0..MaxEdits BY <1>0, <1>16 DEF EditByRename
  <2>a. touched' \in BOOLEAN BY <1>16 DEF EditByRename
  <2>4. QED BY <1>0, <1>16, <2>2, <2>3, <2>a DEF EditByRename, agentVars
<1>17. CASE Publish
  <2>1. head' \in 1..MaxRelease /\ etag' \in 0..head' /\ reached' \in 0..head'
    BY <1>0, <1>17 DEF Publish, agentVars
  <2>2. QED BY <1>0, <1>17, <2>1 DEF Publish, agentVars
<1>18. QED BY <1>1, <1>2, <1>3, <1>4, <1>5, <1>6, <1>7, <1>8, <1>9, <1>10, <1>11, <1>12, <1>13,
             <1>14, <1>15, <1>16, <1>17 DEF HashNext, AgentNext

\* Every step keeps the types and the reads' progress.
LEMMA CycleStep ==
  ASSUME CycleInv, [HashNext]_vars
  PROVE  CycleInv'
<1> USE DEF Progress
<1>0. HashTypeOK /\ Progress /\ Len(got) \in Nat /\ Len(<<>>) = 0
  BY DEF CycleInv, HashTypeOK
<1>1. CASE UNCHANGED vars
  <2>1. HashTypeOK' BY <1>0, <1>1 DEF vars, HashTypeOK
  <2>2. QED BY <1>0, <1>1, <2>1 DEF vars, CycleInv
<1>2. CASE HashNext
  <2>1. HashTypeOK' BY <1>2, HashTypeStep
  <2>2. CASE Stat \/ PollNotModified \/ Refused \/ Install \/ AgentDies \/ TruncCache \/ WriteCache
    <3>1. pc' \in {"stat", "poll", "open", "line"}
      BY <2>2 DEF Stat, PollNotModified, Refused, Install, AgentDies, TruncCache, WriteCache
    <3>2. QED BY <2>1, <3>1 DEF CycleInv
  <2>3. CASE OpenFile
    <3>1. pc' = "hash" /\ Len(got') = 0 BY <1>0, <2>3 DEF OpenFile
    <3>2. QED BY <2>1, <3>1 DEF CycleInv
  <2>4. CASE HashBlock \/ ReadBase
    <3>1. PICK b : got' = Append(got, b) BY <2>4 DEF HashBlock, ReadBase
    <3>2. Len(got) < 2 /\ file' = file /\ etag' = etag BY <1>0, <2>4 DEF HashBlock, ReadBase
    <3>3. Len(got') = Len(got) + 1 BY <1>0, <2>1, <3>1, <3>2, ReadsOn
    <3>4. /\ pc' = "hash" \/ pc' = "chain" => Len(got') # 2
          /\ pc' \in {"hash", "chain"} \/ (pc' \in {"restat", "apply"} /\ Len(got') = 2)
          /\ pc' \in {"chain", "apply"} => pc = "chain"
      BY <2>4 DEF HashBlock, ReadBase
    <3>5. QED BY <1>0, <2>1, <3>2, <3>3, <3>4 DEF CycleInv
  <2>5. CASE Restat
    <3>1. pc' \in {"trunc", "poll"} BY <2>5 DEF Restat
    <3>2. QED BY <2>1, <3>1 DEF CycleInv
  <2>6. CASE Plan
    <3>1. pc' \in {"stat", "chain", "blob"} /\ Len(got') = 0 /\ etag' = head /\ head # 0
      BY <1>0, <2>6 DEF Plan, HashTypeOK
    <3>2. QED BY <2>1, <3>1 DEF CycleInv
  <2>7. CASE ApplyChain
    <3>1. pc = "apply" /\ (pc' = "refused" \/ (pc' = "install" /\ etag' = etag))
      BY <2>7 DEF ApplyChain
    <3>2. QED BY <1>0, <2>1, <3>1 DEF CycleInv
  <2>8. CASE FetchBlob
    <3>1. pc = "blob" /\ pc' = "install" /\ etag' = etag BY <2>8 DEF FetchBlob
    <3>2. QED BY <1>0, <2>1, <3>1 DEF CycleInv
  <2>9. CASE EditInPlace \/ EditByRename \/ Publish
    <3>1. UNCHANGED <<pc, got, etag>> BY <2>9 DEF EditInPlace, EditByRename, Publish, agentVars
    <3>2. QED BY <1>0, <2>1, <3>1 DEF CycleInv
  <2>10. QED BY <1>2, <2>2, <2>3, <2>4, <2>5, <2>6, <2>7, <2>8, <2>9 DEF HashNext, AgentNext
<1>3. QED BY <1>1, <1>2

\* The agent's steps up to the installation: the file stays what it is.
LEMMA AgentStep ==
  ASSUME HashInv, HashTypeOK', AgentNext, ~Install
  PROVE  /\ Past(id)' /\ Past(cache.id)'
         /\ CacheTruthful' /\ HashOK' /\ CycleOK' /\ DriftGoesToBlob'
<1> USE DEF Progress, CacheTruthful, HashOK, CycleOK, DriftGoesToBlob
<1>0. /\ HashTypeOK /\ Past(id) /\ Past(cache.id) /\ Progress
      /\ CacheTruthful /\ HashOK /\ CycleOK /\ DriftGoesToBlob
  BY DEF HashInv, CycleInv
<1>1. FileID # <<>> /\ Past(FileID) BY <1>0, FileIDTyped
<1>2. Len(got) \in Nat /\ Len(<<>>) = 0 BY <1>0 DEF HashTypeOK
<1>3. UNCHANGED <<file, clock>> => FileID' = FileID /\ \A x : Past(x) => (x = <<>> \/ (x \in Nat \X Nat /\ x[1] <= file'.ino /\ x[2] <= clock'))
  BY DEF FileID, Past
<1>4. CASE Stat
  <2>1. UNCHANGED <<file, clock, cache, got, etag>> /\ pc = "stat" /\ id' = FileID BY <1>4 DEF Stat
  <2>2. FileID' = FileID /\ Past(id)' /\ Past(cache.id)' BY <1>0, <1>1, <1>3, <2>1 DEF Past
  <2>3. pc' \in {"poll", "open"} /\ (pc' = "poll" => cur' = file.blocks) BY <1>0, <1>4 DEF Stat
  <2>4. CacheTruthful' /\ HashOK' /\ DriftGoesToBlob'
    BY <1>0, <2>1, <2>2, <2>3
  <2>5. CycleOK' BY <2>1, <2>2, <2>3
  <2>6. QED BY <2>2, <2>4, <2>5
<1>5. CASE OpenFile
  <2>1. UNCHANGED <<file, clock, cache, id, touched, etag, cur>> /\ pc = "open" /\ pc' = "hash" /\ fd' = file /\ got' = <<>>
    BY <1>5 DEF OpenFile
  <2>2. FileID' = FileID /\ Past(id)' /\ Past(cache.id)' BY <1>0, <1>3, <2>1 DEF Past
  <2>3. ReadSoFar' BY <1>2, <2>1 DEF ReadSoFar
  <2>4. CacheTruthful' /\ HashOK' /\ DriftGoesToBlob'
    BY <1>0, <1>2, <2>1, <2>2, <2>3
  <2>5. CycleOK' BY <1>0, <2>1, <2>2
  <2>6. QED BY <2>2, <2>4, <2>5
<1>6. CASE HashBlock
  <2>1. /\ UNCHANGED <<file, clock, cache, id, touched, etag, cur, fd>> /\ pc = "hash"
        /\ got' = Append(got, Seen[Len(got) + 1]) /\ pc' = IF Len(got') = 2 THEN "restat" ELSE "hash"
    BY <1>6 DEF HashBlock
  <2>2. FileID' = FileID /\ Past(id)' /\ Past(cache.id)' BY <1>0, <1>3, <2>1 DEF Past
  <2>3. Len(got) < 2 /\ Len(got) + 1 \in 1..2 BY <1>0, <1>2, <2>1
  <2>4. fd.ino = file.ino => Seen[Len(got) + 1] = file.blocks[Len(got) + 1] BY <1>0, <2>3, SeenTyped
  <2>5. Len(got') = Len(got) + 1 /\ (ReadSoFar /\ fd.ino = file.ino => ReadSoFar')
    BY <1>0, <2>1, <2>3, <2>4, ReadsOn
  <2>6. CacheTruthful' /\ HashOK' /\ DriftGoesToBlob'
    BY <1>0, <2>1, <2>2, <2>5
  <2>7. CycleOK' BY <1>0, <2>1, <2>2
  <2>8. QED BY <2>2, <2>6, <2>7
<1>7. CASE Restat
  <2>1. /\ UNCHANGED <<file, clock, cache, id, touched, etag, got, fd>> /\ pc = "restat"
        /\ cur' = got /\ pc' = IF FileID = id THEN "trunc" ELSE "poll"
    BY <1>7 DEF Restat
  <2>2. FileID' = FileID /\ Past(id)' /\ Past(cache.id)' BY <1>0, <1>3, <2>1 DEF Past
  <2>3. id = FileID => got = file.blocks BY <1>0, <2>1, GotTyped
  <2>4. CacheTruthful' /\ HashOK' /\ DriftGoesToBlob'
    BY <1>0, <2>1, <2>2, <2>3
  <2>5. CycleOK' BY <1>0, <2>1, <2>2, <2>3
  <2>6. QED BY <2>2, <2>4, <2>5
<1>8. CASE TruncCache
  <2>1. /\ UNCHANGED <<file, clock, id, touched, etag, got, fd, cur>> /\ pc = "trunc"
        /\ (cache' = Torn /\ pc' = "line") \/ (cache' = cache /\ pc' = "poll")
    BY <1>8 DEF TruncCache
  <2>2. FileID' = FileID /\ Past(id)' /\ Past(cache.id)' BY <1>0, <1>3, <2>1 DEF Past, Torn
  <2>3. CacheTruthful' BY <1>0, <1>1, <2>1, <2>2 DEF Torn
  <2>4. HashOK' /\ DriftGoesToBlob'
    BY <1>0, <2>1, <2>2
  <2>5. CycleOK' BY <1>0, <2>1, <2>2
  <2>6. QED BY <2>2, <2>3, <2>4, <2>5
<1>9. CASE WriteCache
  <2>1. /\ UNCHANGED <<file, clock, id, touched, etag, got, fd, cur>> /\ pc = "line"
        /\ cache' = [id |-> id, hash |-> cur] \/ cache' = cache
        /\ pc' = "poll"
    BY <1>9 DEF WriteCache
  <2>2. FileID' = FileID /\ Past(id)' /\ Past(cache.id)' BY <1>0, <1>3, <2>1 DEF Past
  <2>3. CacheTruthful' BY <1>0, <1>1, <2>1, <2>2
  <2>4. HashOK' /\ DriftGoesToBlob'
    BY <1>0, <2>1, <2>2
  <2>5. CycleOK' BY <1>0, <2>1, <2>2
  <2>6. QED BY <2>2, <2>3, <2>4, <2>5
<1>10. CASE PollNotModified \/ Refused
  <2>1. UNCHANGED <<file, clock, id, cache, touched>> /\ pc' = "stat" BY <1>10 DEF PollNotModified, Refused
  <2>2. FileID' = FileID /\ Past(id)' /\ Past(cache.id)' BY <1>0, <1>3, <2>1 DEF Past
  <2>3. QED BY <1>0, <2>1, <2>2
<1>11. CASE Plan
  <2>1. /\ UNCHANGED <<file, clock, id, cache, touched, cur>> /\ pc = "poll" /\ etag' = head
        /\ got' = <<>> /\ pc' \in {"stat", "chain", "blob"}
    BY <1>11 DEF Plan
  <2>2. FileID' = FileID /\ Past(id)' /\ Past(cache.id)' BY <1>0, <1>3, <2>1 DEF Past
  <2>3. ReadSoFar' /\ head # 0 BY <1>0, <1>2, <2>1 DEF ReadSoFar, HashTypeOK
  <2>4. CacheTruthful' /\ HashOK' /\ DriftGoesToBlob'
    BY <1>0, <1>2, <2>1, <2>2, <2>3
  <2>5. CycleOK' BY <1>0, <2>1, <2>2, <2>3
  <2>6. QED BY <2>2, <2>4, <2>5
<1>12. CASE ReadBase
  <2>1. /\ UNCHANGED <<file, clock, id, cache, touched, cur, etag>> /\ pc = "chain"
        /\ fd' = IF got = <<>> THEN file ELSE fd
        /\ got' = Append(got, IF got = <<>> THEN file.blocks[1] ELSE Seen[2])
        /\ pc' = IF Len(got') = 2 THEN "apply" ELSE "chain"
    BY <1>12 DEF ReadBase
  <2>2. FileID' = FileID /\ Past(id)' /\ Past(cache.id)' BY <1>0, <1>3, <2>1 DEF Past
  <2>3. Len(got) < 2 /\ (got = <<>> => Len(got) = 0) /\ (got # <<>> => Len(got) = 1)
    <3>1. got \in Seq(Block) BY <1>0 DEF HashTypeOK
    <3>2. got # <<>> => Len(got) # 0 BY <3>1, EmptySeq
    <3>3. Len(got) < 2 BY <1>0, <2>1
    <3>4. got = <<>> => Len(got) = 0 BY <1>2
    <3>5. Len(got) \in Nat BY <1>2
    <3>6. QED BY <3>2, <3>3, <3>4, <3>5
  <2>4. 2 \in 1..2 OBVIOUS
  <2>5. fd.ino = file.ino => Seen[2] = file.blocks[2] BY <1>0, <2>4, SeenTyped
  <2>6. Len(got') = Len(got) + 1 /\ got' # <<>> BY <1>0, <2>1, <2>3, ReadsOn
  <2>7. ReadSoFar /\ (got # <<>> => fd.ino = file.ino) => ReadSoFar' /\ fd'.ino = file'.ino
    <3>1. CASE got = <<>>
      <4>1. got' = Append(got, file.blocks[Len(got) + 1]) /\ fd'.ino = file'.ino BY <2>1, <2>3, <3>1
      <4>2. QED BY <1>0, <2>1, <2>3, <4>1, ReadsOn
    <3>2. CASE got # <<>> /\ fd.ino = file.ino
      <4>1. got' = Append(got, file.blocks[Len(got) + 1]) /\ fd'.ino = file'.ino BY <2>1, <2>3, <2>5, <3>2
      <4>2. QED BY <1>0, <2>1, <2>3, <4>1, ReadsOn
    <3>3. QED BY <3>1, <3>2
  <2>8. CacheTruthful' /\ HashOK' /\ DriftGoesToBlob'
    BY <1>0, <2>1, <2>2
  <2>9. CycleOK' BY <1>0, <2>1, <2>2, <2>7
  <2>10. QED BY <2>2, <2>8, <2>9
<1>13. CASE ApplyChain
  <2>1. /\ UNCHANGED <<file, clock, id, cache, touched, cur, got, fd>> /\ pc = "apply"
        /\ \/ got = cur /\ pc' = "install" /\ etag' = etag
           \/ got # cur /\ pc' = "refused" /\ etag' = 0
    BY <1>13 DEF ApplyChain
  <2>2. FileID' = FileID /\ Past(id)' /\ Past(cache.id)' BY <1>0, <1>3, <2>1 DEF Past
  <2>3. ~touched => got = cur BY <1>0, <2>1, GotTyped
  <2>4. CacheTruthful' /\ HashOK' BY <1>0, <2>1, <2>2
  <2>5. DriftGoesToBlob' BY <2>1, <2>3
  <2>6. CycleOK' BY <1>0, <2>1, <2>2
  <2>7. QED BY <2>2, <2>4, <2>5, <2>6
<1>14. CASE FetchBlob
  <2>1. /\ UNCHANGED <<file, clock, id, cache, touched, cur, got, fd, etag>> /\ pc = "blob"
        /\ pc' = "install"
    BY <1>14 DEF FetchBlob
  <2>2. FileID' = FileID /\ Past(id)' /\ Past(cache.id)' BY <1>0, <1>3, <2>1 DEF Past
  <2>3. CacheTruthful' /\ HashOK' /\ DriftGoesToBlob' BY <1>0, <2>1, <2>2
  <2>4. CycleOK' BY <1>0, <2>1, <2>2
  <2>5. QED BY <2>2, <2>3, <2>4
<1>15. QED BY <1>4, <1>5, <1>6, <1>7, <1>8, <1>9, <1>10, <1>11, <1>12, <1>13, <1>14 DEF AgentNext

\* Every step keeps the invariant, when each edit in place has a time of its
\* own: a new file, or a new time, is an identity nobody holds.
LEMMA HashInvStep ==
  ASSUME FineClock, HashInv, [HashNext]_vars
  PROVE  HashInv'
<1> USE DEF Progress, CacheTruthful, HashOK, CycleOK, DriftGoesToBlob
<1>0. /\ HashTypeOK /\ Past(id) /\ Past(cache.id) /\ Progress
      /\ CacheTruthful /\ HashOK /\ CycleOK /\ DriftGoesToBlob
  BY DEF HashInv, CycleInv
<1>t. CycleInv' /\ HashTypeOK' BY CycleStep DEF HashInv, CycleInv
<1>1. CASE UNCHANGED vars
  <2>1. Past(id)' /\ Past(cache.id)' /\ CacheTruthful'
    BY <1>0, <1>1 DEF vars, Past, FileID
  <2>2. HashOK' BY <1>0, <1>1 DEF vars, FileID, ReadSoFar
  <2>3. CycleOK' /\ DriftGoesToBlob' BY <1>0, <1>1 DEF vars, FileID, ReadSoFar
  <2>4. QED BY <1>t, <2>1, <2>2, <2>3 DEF HashInv
<1>2. CASE AgentNext /\ ~Install BY <1>2, <1>t, AgentStep DEF HashInv
<1>3. CASE Install
  <2>1. file'.ino = file.ino + 1 /\ clock' = clock /\ UNCHANGED <<id, cache>> /\ pc' = "stat"
    BY <1>3 DEF Install
  <2>2. Past(id)' /\ Past(cache.id)' /\ cache'.id # FileID' BY <1>t, <2>1, FileChanges
  <2>3. QED BY <1>t, <2>1, <2>2 DEF HashInv
<1>4. CASE AgentDies
  <2>1. UNCHANGED <<file, clock, id, cache>> /\ pc' = "stat" BY <1>4 DEF AgentDies
  <2>2. Past(id)' /\ Past(cache.id)' /\ CacheTruthful' BY <1>0, <2>1 DEF Past, FileID
  <2>3. QED BY <1>t, <2>1, <2>2 DEF HashInv
<1>5. CASE EditInPlace \/ EditByRename
  <2>1. \/ file'.ino = file.ino + 1 /\ clock' = clock
        \/ file'.ino = file.ino /\ file'.mtime = clock + 1 /\ clock' = clock + 1
    <3>1. CASE EditByRename BY <3>1 DEF EditByRename
    <3>2. CASE EditInPlace
      <4>1. PICK k \in 1..2, b \in {Foreign, head} :
              clock' = clock + 1 /\ file' = [file EXCEPT !.blocks[k] = b, !.mtime = clock + 1]
        BY <3>2 DEF EditInPlace
      <4>2. QED BY <1>0, <4>1 DEF HashTypeOK, File
    <3>3. QED BY <1>5, <3>1, <3>2
  <2>2. UNCHANGED <<cache, pc, id, fd, got, cur, etag>>
    BY <1>5 DEF EditInPlace, EditByRename, agentVars
  <2>3. touched' BY <1>5 DEF EditInPlace, EditByRename
  <2>4. Past(id)' /\ Past(cache.id)' /\ id' # FileID' /\ cache'.id # FileID'
    BY <1>t, <2>1, <2>2, FileChanges
  <2>5. CacheTruthful' /\ HashOK' BY <1>0, <2>2, <2>4
  <2>6. CycleOK' /\ DriftGoesToBlob' BY <2>3
  <2>7. QED BY <1>t, <2>4, <2>5, <2>6 DEF HashInv
<1>6. CASE Publish
  <2>1. UNCHANGED <<file, cache, clock, pc, id, fd, got, cur, etag, touched>>
    BY <1>6 DEF Publish, agentVars
  <2>2. Past(id)' /\ Past(cache.id)' /\ CacheTruthful'
    BY <1>0, <2>1 DEF Past, FileID
  <2>3. HashOK' BY <1>0, <2>1 DEF FileID, ReadSoFar
  <2>4. CycleOK' /\ DriftGoesToBlob' BY <1>0, <2>1 DEF FileID, ReadSoFar
  <2>5. QED BY <1>t, <2>2, <2>3, <2>4 DEF HashInv
<1>7. QED BY <1>1, <1>2, <1>3, <1>4, <1>5, <1>6 DEF HashNext

-----------------------------------------------------------------------------
(* The cycle's part of the invariant holds on any clock.                   *)
THEOREM CycleInvariant == HashSpec => []CycleInv
<1>1. HashInit => CycleInv BY HashInvInit DEF HashInv
<1>2. CycleInv /\ [HashNext]_vars => CycleInv' BY CycleStep
<1>3. QED BY <1>1, <1>2, PTL DEF HashSpec

(* The invariant of the cycle and the cache holds in every behaviour.      *)
THEOREM HashInvariant ==
  ASSUME FineClock
  PROVE  HashSpec => []HashInv
<1>1. HashInit => HashInv BY HashInvInit
<1>2. HashInv /\ [HashNext]_vars => HashInv' BY HashInvStep
<1>3. QED BY <1>1, <1>2, PTL DEF HashSpec

(* Type correctness: the agent accepts and installs only published         *)
(* releases (agent.go update), and no file is newer than the clock.        *)
THEOREM HashTypeCorrect == HashSpec => []HashTypeOK
<1>1. CycleInv => HashTypeOK BY DEF CycleInv
<1>2. QED BY <1>1, CycleInvariant, PTL

(* hashcache.go CachedHash: a line that would be believed is the hash of   *)
(* what is at the path, through any number of edits, installations and     *)
(* crashes of the agent between the truncation and the write of the line.  *)
THEOREM CacheIsTruthful ==
  ASSUME FineClock
  PROVE  HashSpec => []CacheTruthful
<1>1. HashInv => CacheTruthful BY DEF HashInv
<1>2. QED BY <1>1, HashInvariant, PTL

(* agent.go update: a patch is refused only when the file was edited after *)
(* this cycle's stat; one that had drifted before goes to the blob.        *)
THEOREM DriftTakesBlob ==
  ASSUME FineClock
  PROVE  HashSpec => []DriftGoesToBlob
<1>1. HashInv => DriftGoesToBlob BY DEF HashInv
<1>2. QED BY <1>1, HashInvariant, PTL

(* agent.go update: a cycle that ends with "up to date" leaves the head it *)
(* accepted at the path, whatever read, cached line or crash came before,  *)
(* unless the file was edited after this cycle's stat.                     *)
THEOREM UpToDateAlwaysTrue ==
  ASSUME FineClock
  PROVE  HashSpec => UpToDateIsTrue
<1>1. ASSUME HashInv, [HashNext]_vars, pc = "poll", etag # head, etag' = head, pc' = "stat"
      PROVE  touched \/ file.blocks = Release(head)
  <2>0. HashTypeOK /\ head # 0 /\ (touched \/ cur = file.blocks)
    BY <1>1, HashAssumption DEF HashInv, CycleInv, HashTypeOK, CycleOK
  <2>1. Plan
    <3>1. HashNext BY <1>1 DEF vars
    <3>2. ~AgentDies BY <1>1, <2>0 DEF AgentDies
    <3>3. ~(EditInPlace \/ EditByRename \/ Publish)
      BY <1>1 DEF EditInPlace, EditByRename, Publish, agentVars
    <3>4. ~(Stat \/ OpenFile \/ HashBlock \/ Restat \/ TruncCache \/ WriteCache)
      BY <1>1 DEF Stat, OpenFile, HashBlock, Restat, TruncCache, WriteCache
    <3>5. ~(PollNotModified \/ ReadBase \/ ApplyChain \/ Refused \/ FetchBlob \/ Install)
      BY <1>1 DEF PollNotModified, ReadBase, ApplyChain, Refused, FetchBlob, Install
    <3>6. QED BY <3>1, <3>2, <3>3, <3>4, <3>5 DEF HashNext, AgentNext
  <2>2. cur = Release(head) BY <1>1, <2>1 DEF Plan
  <2>3. QED BY <2>0, <2>2
<1>2. HashInv /\ [HashNext]_vars
        => [pc = "poll" /\ etag # head /\ etag' = head /\ pc' = "stat"
              => touched \/ file.blocks = Release(head)]_vars
  BY <1>1
<1>3. QED BY <1>2, HashInvariant, PTL DEF HashSpec, UpToDateIsTrue
=============================================================================
