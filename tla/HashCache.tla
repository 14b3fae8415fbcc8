----------------------------- MODULE HashCache -----------------------------
(***************************************************************************)
(* How a target knows what it runs: CachedHash (src/release/hashcache.go)  *)
(* and the agent's cycle around it (src/agent/agent.go update, fetch.go    *)
(* build), while an operator edits the file at the path by hand.           *)
(*                                                                         *)
(* A file has two blocks; its hash is the pair of blocks a read saw, so a  *)
(* read that an edit overtook has a hash of its own.  Release n is the     *)
(* pair <<n, n>>; every earlier release is on the patch chain.  An edit    *)
(* keeps the size, so that only the modification time can tell it.         *)
(***************************************************************************)
EXTENDS Naturals, Sequences

CONSTANTS
  MaxRelease,   \* releases published (bound)
  MaxEdits,     \* edits by hand (bound)
  MaxCrashes,   \* crashes of the agent (bound)
  FineClock,    \* every edit in place gets a modification time of its own
  Foreign       \* a block no release has

ASSUME HashAssumption ==
  /\ MaxRelease \in Nat \ {0} /\ MaxEdits \in Nat /\ MaxCrashes \in Nat
  /\ FineClock \in BOOLEAN
  /\ Foreign \notin 1..MaxRelease

VARIABLES
  file,      \* what the path names: inode, blocks, mtime
  cache,     \* the line in <path>.go-binsync/hash, or an unreadable one
  head,      \* the release the pointer names
  clock, edits, crashes,
  pc, id, fd, got, cur,   \* the agent's cycle
  etag,      \* the pointer the agent last accepted, 0 for none
  touched,   \* history: the file was edited since this cycle's stat
  reached    \* history: the release the agent last found or put at the path

vars == <<file, cache, head, clock, edits, crashes, pc, id, fd, got, cur, etag,
          touched, reached>>
agentVars == <<pc, id, fd, got, cur, etag, reached>>

Torn == [id |-> <<>>, hash |-> <<>>]
Release(n) == <<n, n>>
\* Mutant: only the modification time tells files apart.
FileIDByTime == <<0, file.mtime>>

(* The inode and the modification time, as os.Stat gives them.             *)
FileID == <<file.ino, file.mtime>>

HashInit ==
  /\ file = [ino |-> 1, blocks |-> Release(1), mtime |-> 0]
  /\ cache = Torn
  /\ head = 1
  /\ clock = 0 /\ edits = 0 /\ crashes = 0
  /\ pc = "stat" /\ id = <<>> /\ fd = file /\ got = <<>> /\ cur = <<>>
  /\ etag = 0 /\ touched = FALSE /\ reached = 0

(***************************************************************************)
(* CachedHash.                                                             *)
(***************************************************************************)
(* os.Stat, then the cached line if it was written for that very file.     *)
Stat ==
  /\ pc = "stat"
  /\ id' = FileID
  /\ touched' = FALSE
  /\ IF cache.id = FileID
     THEN pc' = "poll" /\ cur' = cache.hash
     ELSE pc' = "open" /\ UNCHANGED cur
  /\ UNCHANGED <<file, cache, head, clock, edits, crashes, fd, got, etag, reached>>

(* HashFile opens the path again: it may be another file by now.           *)
OpenFile ==
  /\ pc = "open"
  /\ fd' = file /\ got' = <<>> /\ pc' = "hash"
  /\ UNCHANGED <<file, cache, head, clock, edits, crashes, id, cur, etag, touched, reached>>

(* The blocks of the open file: an edit in place is seen by an open        *)
(* descriptor, a rename over the path is not.                              *)
Seen == IF file.ino = fd.ino THEN file.blocks ELSE fd.blocks

HashBlock ==
  /\ pc = "hash"
  /\ got' = Append(got, Seen[Len(got) + 1])
  /\ pc' = IF Len(got') = 2 THEN "restat" ELSE "hash"
  /\ UNCHANGED <<file, cache, head, clock, edits, crashes, id, fd, cur, etag, touched, reached>>

\* Mutant: the hash is cached for whatever the path is after the read.
RestatTrusting ==
  /\ pc = "restat"
  /\ cur' = got
  /\ id' = FileID
  /\ pc' = "trunc"
  /\ UNCHANGED <<file, cache, head, clock, edits, crashes, fd, got, etag, touched, reached>>

(* Only what one file was for the whole read is cached.                    *)
Restat ==
  /\ pc = "restat"
  /\ cur' = got
  /\ pc' = IF FileID = id THEN "trunc" ELSE "poll"
  /\ UNCHANGED <<file, cache, head, clock, edits, crashes, id, fd, got, etag, touched, reached>>

(* writeHashCache: os.WriteFile truncates, then writes; a write that fails *)
(* is not reported.                                                        *)
TruncCache ==
  /\ pc = "trunc"
  /\ \/ cache' = Torn /\ pc' = "line"
     \/ UNCHANGED cache /\ pc' = "poll"
  /\ UNCHANGED <<file, head, clock, edits, crashes, id, fd, got, cur, etag, touched, reached>>

WriteCache ==
  /\ pc = "line"
  /\ \/ cache' = [id |-> id, hash |-> cur]
     \/ UNCHANGED cache
  /\ pc' = "poll"
  /\ UNCHANGED <<file, head, clock, edits, crashes, id, fd, got, cur, etag, touched, reached>>

(***************************************************************************)
(* The cycle around it: poll, plan, build, install.                        *)
(***************************************************************************)
(* The store answers 304: the cycle ends, whatever the hash was.           *)
PollNotModified ==
  /\ pc = "poll" /\ etag = head
  /\ pc' = "stat"
  /\ UNCHANGED <<file, cache, head, clock, edits, crashes, id, fd, got, cur, etag, touched, reached>>

OnChain(h) == \E n \in 1..(head - 1) : h = Release(n)

Plan ==
  /\ pc = "poll" /\ etag # head
  /\ etag' = head
  /\ pc' = IF cur = Release(head) THEN "stat" ELSE IF OnChain(cur) THEN "chain" ELSE "blob"
  /\ reached' = IF cur = Release(head) THEN head ELSE reached
  /\ got' = <<>>
  /\ UNCHANGED <<file, cache, head, clock, edits, crashes, id, fd, cur, touched>>

(* applyChain: os.ReadFile, then delta.Apply, which refuses another base.  *)
ReadBase ==
  /\ pc = "chain"
  /\ fd' = IF got = <<>> THEN file ELSE fd
  /\ got' = Append(got, IF got = <<>> THEN file.blocks[1] ELSE Seen[2])
  /\ pc' = IF Len(got') = 2 THEN "apply" ELSE "chain"
  /\ UNCHANGED <<file, cache, head, clock, edits, crashes, id, cur, etag, touched, reached>>

\* Mutant: the pointer's ETag is kept through the failure.
ApplyChainKeepsEtag ==
  /\ pc = "apply"
  /\ pc' = IF got = cur THEN "install" ELSE "refused"
  /\ UNCHANGED <<file, cache, head, clock, edits, crashes, id, fd, got, cur, etag, touched, reached>>

(* delta.Apply refuses a base with another hash and checks its output, and *)
(* update hashes that again before the installation: what is installed is  *)
(* the accepted head.                                                      *)
(* OutcomeVerifyFailed is retryable: the pointer is read again next time.  *)
ApplyChain ==
  /\ pc = "apply"
  /\ IF got = cur
     THEN pc' = "install" /\ UNCHANGED etag
     ELSE pc' = "refused" /\ etag' = 0
  /\ UNCHANGED <<file, cache, head, clock, edits, crashes, id, fd, got, cur, touched, reached>>

Refused ==
  /\ pc = "refused"
  /\ pc' = "stat"
  /\ UNCHANGED <<file, cache, head, clock, edits, crashes, id, fd, got, cur, etag, touched, reached>>

FetchBlob ==
  /\ pc = "blob"
  /\ pc' = "install"
  /\ UNCHANGED <<file, cache, head, clock, edits, crashes, id, fd, got, cur, etag, touched, reached>>

Install ==
  /\ pc = "install"
  /\ file' = [ino |-> file.ino + 1, blocks |-> Release(etag), mtime |-> clock]
  /\ reached' = etag
  /\ pc' = "stat"
  /\ UNCHANGED <<cache, head, clock, edits, crashes, id, fd, got, cur, etag, touched>>

AgentDies ==
  /\ crashes < MaxCrashes
  /\ crashes' = crashes + 1
  /\ pc' = "stat" /\ etag' = 0
  /\ UNCHANGED <<file, cache, head, clock, edits, id, fd, got, cur, touched, reached>>

(***************************************************************************)
(* The operator and the publisher.                                         *)
(***************************************************************************)
(* One block is written in place.  Two writes within one tick of a coarse  *)
(* clock leave the same modification time.                                 *)
EditInPlace ==
  /\ edits < MaxEdits
  /\ edits' = edits + 1
  /\ \E k \in 1..2, b \in {Foreign, head} :
       \E now \in (IF FineClock THEN {clock + 1} ELSE {clock, clock + 1}) :
         /\ b # file.blocks[k]
         /\ clock' = now
         /\ file' = [file EXCEPT !.blocks[k] = b, !.mtime = now]
  /\ touched' = TRUE
  /\ UNCHANGED <<cache, head, crashes, agentVars>>

(* A file is renamed over the path by hand.                                *)
EditByRename ==
  /\ edits < MaxEdits
  /\ edits' = edits + 1
  /\ file' = [ino |-> file.ino + 1, blocks |-> <<Foreign, Foreign>>, mtime |-> clock]
  /\ touched' = TRUE
  /\ UNCHANGED <<cache, head, clock, crashes, agentVars>>

Publish ==
  /\ head < MaxRelease
  /\ head' = head + 1
  /\ UNCHANGED <<file, cache, clock, edits, crashes, agentVars, touched>>

AgentNext ==
  \/ Stat \/ OpenFile \/ HashBlock \/ Restat \/ TruncCache \/ WriteCache
  \/ PollNotModified \/ Plan \/ ReadBase \/ ApplyChain \/ Refused \/ FetchBlob \/ Install

HashNext == AgentNext \/ AgentDies \/ EditInPlace \/ EditByRename \/ Publish

(* The agent's loop never stops by itself.                                 *)
HashSpec == HashInit /\ [][HashNext]_vars /\ WF_vars(AgentNext)
-----------------------------------------------------------------------------
Block   == (1..MaxRelease) \cup {Foreign}
Content == [1..2 -> Block]
File    == [ino: Nat, blocks: Content, mtime: Nat]

(* Type invariant: a release a target accepts or installs has been         *)
(* published, and no file is newer than the clock.                         *)
HashTypeOK ==
  /\ pc \in {"stat", "open", "hash", "restat", "trunc", "line", "poll", "chain",
             "apply", "refused", "blob", "install"}
  /\ file \in File /\ fd \in File /\ file.mtime <= clock
  /\ id \in (Nat \X Nat) \cup {<<>>}
  /\ cache \in [id: (Nat \X Nat) \cup {<<>>}, hash: Content \cup {<<>>}]
  /\ got \in Seq(Block) /\ Len(got) <= 2
  /\ cur \in Content \cup {<<>>}
  /\ head \in 1..MaxRelease /\ etag \in 0..head /\ reached \in 0..head
  /\ clock \in Nat /\ edits \in 0..MaxEdits /\ crashes \in 0..MaxCrashes
  /\ touched \in BOOLEAN

(* hashcache.go: caching a hash that "belongs to neither id" would "pin a  *)
(* wrong answer for as long as the file sits still".  A line that would be *)
(* believed is the hash of what is at the path.                            *)
CacheTruthful == cache.id = FileID => cache.hash = file.blocks

(* agent.go: "a drifted file goes straight to the blob instead of being    *)
(* patched".  A patch is refused only when the file was edited after this  *)
(* cycle's stat, never because the hash was already wrong.                 *)
DriftGoesToBlob == pc = "refused" => touched

(* agent.go update: the cycle ends with "up to date" only when the file at *)
(* the path holds the head it just accepted, unless the file was edited    *)
(* after this cycle's stat.  The cycles that follow get a 304 and end, so  *)
(* a wrong answer here would last until the next release.                  *)
UpToDateIsTrue ==
  [][pc = "poll" /\ etag # head /\ etag' = head /\ pc' = "stat"
       => touched \/ file.blocks = Release(head)]_vars

(* Once edits and publishing stop, the agent finds or puts the pointer's   *)
(* head at the path and stays with it.                                     *)
Converges == <>[](reached = head)
=============================================================================
