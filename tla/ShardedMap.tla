----------------------------- MODULE ShardedMap -----------------------------
(***************************************************************************)
(* buildDataMap as it runs: the window index and the block pass are split  *)
(* over goroutines, each shard of the pass starting from shift 0; the      *)
(* shards' heads are then repaired and the ambiguous blocks resolved.      *)
(***************************************************************************)
EXTENDS DataMap

CONSTANTS
  MapJobs,      \* the maps to build
  MapWorkers,   \* mapWorkers
  MinSharded    \* blocks, or windows, from which the work is split

ASSUME MapAssumption ==
  /\ MapWorkers \in Nat \ {0} /\ MinSharded \in Nat
  /\ \A j \in MapJobs : j.old \in Seq(Int) /\ j.new \in Seq(Int) /\ j.block \in Nat \ {0}

VARIABLES
  mjob,     \* the map being built, or NoJob
  mstage,   \* "index", "pass", "repair", "done"
  ix,       \* the index built so far
  mcur,     \* per goroutine: its next block, or -1 before its first
  mfix,     \* the repair: the shard w and the block i it is at
  mblocks   \* the blocks computed so far

mvars == <<mjob, mstage, ix, mcur, mfix, mblocks>>

NoJob == [old |-> <<>>]
MW == 0..(MapWorkers - 1)

\* How many goroutines share n items, and which are worker w's.
Shards(n) == IF n < MinSharded THEN 1 ELSE MapWorkers
Lo(n, w) == (n * w) \div Shards(n)
Hi(n, w) == (n * (w + 1)) \div Shards(n)
Active(n) == 0..(Shards(n) - 1)

Unset == [d |-> 0, m |-> FALSE, a |-> FALSE]

MapInit ==
  /\ mjob \in {j \in MapJobs : ~TooShort(j)}
  /\ mstage = "index" /\ ix = {} /\ mcur = [w \in MW |-> -1] /\ mfix = [w |-> 0, i |-> 0]
  /\ mblocks = [i \in 1..Blocks(mjob) |-> Unset]

MapIdle == mjob = NoJob /\ mstage = "idle" /\ ix = {} /\ mcur = <<>>
           /\ mfix = <<>> /\ mblocks = <<>>

(* buildWinIndex: each goroutine counts and places a range of positions.   *)
IndexShard(w) ==
  LET n == NumWindows(mjob) IN
  /\ mstage = "index" /\ w \in Active(n) /\ mcur[w] = -1
  /\ ix' = ix \cup Windows(mjob, Lo(n, w), Hi(n, w))
  /\ mcur' = [mcur EXCEPT ![w] = 0]
  /\ UNCHANGED <<mjob, mstage, mfix, mblocks>>

IndexBuilt ==
  /\ mstage = "index" /\ \A w \in Active(NumWindows(mjob)) : mcur[w] = 0
  /\ mstage' = "pass"
  /\ mcur' = [w \in MW |-> Lo(Blocks(mjob), w)]
  /\ UNCHANGED <<mjob, ix, mfix, mblocks>>

(* One block of a goroutine's shard; its first starts from shift 0.        *)
ShardStep(w) ==
  LET nb == Blocks(mjob)  i == mcur[w] IN
  /\ mstage = "pass" /\ w \in Active(nb) /\ i < Hi(nb, w)
  /\ mblocks' = [mblocks EXCEPT ![i + 1] =
                   Step(mjob, ix, i, IF i = Lo(nb, w) THEN 0 ELSE mblocks[i].d)]
  /\ mcur' = [mcur EXCEPT ![w] = i + 1]
  /\ UNCHANGED <<mjob, mstage, ix, mfix>>

PassDone ==
  LET nb == Blocks(mjob) IN
  /\ mstage = "pass" /\ \A w \in Active(nb) : mcur[w] >= Hi(nb, w)
  /\ mstage' = "repair"
  /\ mfix' = [w |-> 1, i |-> Lo(nb, 1)]
  /\ UNCHANGED <<mjob, ix, mcur, mblocks>>

(* The repair, by one goroutine, shard after shard: a shard's prefix is    *)
(* run again from the true incoming shift, a block at a time, up to the    *)
(* first block on which it agrees.                                         *)
NextShard ==
  mfix' = [w |-> mfix.w + 1, i |-> Lo(Blocks(mjob), mfix.w + 1)]

Repairing ==
  LET nb == Blocks(mjob) IN
  /\ mstage = "repair" /\ mfix.w < Shards(nb)
  /\ UNCHANGED <<mjob, mstage, ix, mcur>>

\* Mutant: only the first block of each shard is recomputed.
RepairFirstOnly ==
  LET nb == Blocks(mjob)  i == mfix.i IN
  /\ Repairing
  /\ Lo(nb, mfix.w) # 0 /\ i < Hi(nb, mfix.w)
  /\ mblocks' = [mblocks EXCEPT ![i + 1] = Step(mjob, ix, i, mblocks[i].d)]
  /\ NextShard

RepairBlock ==
  LET nb == Blocks(mjob)  i == mfix.i
      b == Step(mjob, ix, i, mblocks[i].d)
  IN /\ Repairing
     /\ Lo(nb, mfix.w) # 0 /\ i < Hi(nb, mfix.w)
     /\ IF b = mblocks[i + 1] THEN NextShard /\ UNCHANGED mblocks
        ELSE /\ mblocks' = [mblocks EXCEPT ![i + 1] = b]
             /\ mfix' = [mfix EXCEPT !.i = i + 1]

(* A shard that is first, empty, or repaired to its end.                   *)
SkipShard ==
  LET nb == Blocks(mjob) IN
  /\ Repairing
  /\ Lo(nb, mfix.w) = 0 \/ mfix.i >= Hi(nb, mfix.w)
  /\ NextShard /\ UNCHANGED mblocks

ResolveAmbiguous ==
  /\ mstage = "repair" /\ mfix.w >= Shards(Blocks(mjob))
  /\ mstage' = "done"
  /\ mblocks' = Resolved(mjob, mblocks)
  /\ UNCHANGED <<mjob, ix, mcur, mfix>>

MapNext ==
  \/ \E w \in MW : IndexShard(w) \/ ShardStep(w)
  \/ IndexBuilt \/ PassDone \/ RepairBlock \/ SkipShard \/ ResolveAmbiguous

MapSpec == (MapInit \/ MapIdle) /\ [][MapNext]_mvars

(***************************************************************************)
(* datamap.go: the repair "makes the result identical to the sequential    *)
(* pass", and mapWorkers is a constant because "encoder and decoder have   *)
(* to agree on the prediction byte for byte".  However the goroutines      *)
(* interleave, the map is the one a single pass builds.                    *)
(***************************************************************************)
ShardsAgree == mstage = "done" => mblocks = BuildDataMap(mjob).b

(***************************************************************************)
(* datamap.go: "the match is still exact and at any alignment".  A block   *)
(* that counts as matched is where the finished map says, whatever windows *)
(* collide in the index; and the shift of a block that holds pointers is a *)
(* multiple of their size, so that a pointer is never torn.                *)
(***************************************************************************)
MatchedIsThere ==
  mstage = "done" => \A i \in 1..Len(mblocks) :
    mblocks[i].m => MatchAt(mjob, (i - 1) * mjob.block, mblocks[i].d)
=============================================================================
