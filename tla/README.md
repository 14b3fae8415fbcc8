# TLA+ models of go-binsync

go-binsync ships a Go binary to the machines that run it. A *publisher* turns a
build into a patch against the previous release and a compressed blob, uploads
both to a *store* and moves the store's *pointer*; a *target* polls the pointer,
works out the cheapest way from the file it has to the head, fetches, verifies,
installs atomically, restarts the service and keeps it or rolls it back. This
directory models that protocol: what is on disk at every instant, what happens
when something dies or is late, and what the program promises about it
(`README.md` guarantees 1-8 and `docs/DESIGN.md` 4-6 of the repository).

Run a model with `tlc -config <cfg> <module>`, a proof with
`tlapm <module>_proofs.tla`. `PROJECT.json` lists the runs, the source lines
behind every definition, the mutants that show each property can fail, the
hazards and the theorems.

## 1. Inventory

| Component (source) | State | Operations | Interacts with | Correct when |
|---|---|---|---|---|
| Installer (`release/install.go`) | the names `<path>`, `.old`, `.pending`, `.go-binsync/failed` in one directory | Install, Revert, ClearPending, MarkFailed, ClearFailed; every one a sequence of system calls | called by the agent, by the embedded parent and by its child, on the same files | the path always holds a whole verified release; any crash leaves a release that works, or the marker and the way back |
| Update loop (`agent/agent.go`) | ETag and seq of the last pointer, on disk the failed marker | poll, skip, plan, fetch, install, restart, check, rollback | reads the store, calls the Installer and the hooks | it converges on the head, never replays, never reinstalls what it rolled back |
| External agent (`cmd/go-binsync/agent.go`) | none of its own | the restart and health commands, recovery at start, SIGTERM | the service and its supervisor | the service runs the file at the path between cycles |
| Embedded updater (`selfupdate`) | listeners, upgrading, superseded, the ready pipe, the context | Start (self check), Ready, handoff, terminate, supersede, rollback, Stop | parent, child and grandchild processes; the Installer's files | service never interrupted; one process updates at a time; a failed handoff leaves the old process on the old file |
| Blob download (`agent/fetch.go`) | frames in hand, channel, errors, two contexts | passes of up to 8 workers, retries, wait for the upload | store, publisher (which uploads the blob after the pointer) | no frame twice, ends, the outcome says what happened |
| Plan (`release/plan.go`, `pointer.go`) | none (pure) | ParsePointer, MakePlan; applying the plan | update loop | an accepted pointer's plan ends in the head, and no plan is cheaper |
| Publisher (`cmd/go-binsync/publish.go`, `cache.go`) | local cache of releases; in the store pointer, patches, blobs | publish with retries of a lost race, finish a missing blob | other publishers through the store | no fork, every edge fetchable, seq grows, reported success means the blob is there |
| file and ssh stores (`store/file.go`, `ssh.go`) | a directory, its lock file, temporary files | Get with ETag and range, conditional Put: flock, stat, temporary file, rename, fsync | publishers, targets | an atomic compare-and-swap of whole objects, durable once Put returns |
| https and s3 stores (`store/https.go`, `s3/s3.go`) | none here | ranged and conditional reads; s3 also a conditional PUT with retries | publishers, targets | a range is the bytes asked for, whatever the server answers |
| Hash cache (`release/hashcache.go`) | one line: file identity and hash | CachedHash: stat, read, stat again, write | update loop; an operator's edits of the file | never the hash of another file |
| Delta codec (`delta/delta.go`, `container.go`, `plain.go`, `correct.go`, `lz`) | none (pure) | encode, apply | publisher, update loop | apply inverts encode; a wrong base, a damaged patch or an unknown transform gives an error and no output |
| Go-aware prediction (the rest of `delta/`) | none outside one call; goroutines over shared buffers | match functions, map data, vote, write and read the layout, predict tables, types and text | the codec, on both sides | encoder and decoder predict the same file, and exactly what only moved |
| Commands (`cmd/go-binsync`) | none | diff, patch, fetchBlob with its workers | codec, stores | what is written out is the release |

Hard behaviours, in the order of what they can cost: a crash or power loss
between two system calls of an install; two processes using one target's files
during a handoff; a timeout racing a late `Ready()`; SIGTERM inside a cycle; two
publishers racing, one of them dying between pointer and blob; stale pointer
reads; workers that share a context; goroutines whose result encoder and decoder
must reproduce byte for byte; a file edited while it is hashed. `PROJECT.json` lists them under `hazards`,
each at its line and with the properties aimed at it.

## 2. Modules

| Module | Models | Composes |
|---|---|---|
| `Installer` | one action per directory-changing system call of `install.go` | - |
| `ExternalAgent` | update loop, hooks, start-up recovery, service, SIGTERM, crash, power loss | extends `Installer` (one process) |
| `SelfUpdate` | embedded updater with parent, child and grandchild | extends `Installer` (several processes) |
| `Publisher` | several publishers, their caches, the store's objects, three kinds of conditional Put | - |
| `Plan` | ParsePointer, MakePlan, applying patches | - |
| `BlobFetch` | fetchBlob, fetchFrames and its workers, frame, get | - |
| `Build` | `build` of `agent/fetch.go`: the chain, and the blob planned or as a fallback | extends `Plan` and `BlobFetch` |
| `CasStore` | what `store.Store` promises for one object (abstract) | - |
| `FileStore` | the directory of the file and ssh stores, call by call | implements `CasStore` (`Refines`) |
| `HashCache` | CachedHash inside the agent's cycle, with an operator editing the file | - |
| `Buf`, `Lz`, `Plain`, `Correction` | cursors and varints; copy/insert coder; plain differ; correction stream (operators) | each extends the one before |
| `Container` | patch format, both transforms, frame compression (operators) | extends `Buf`; the coders above are constants, which the instances bind |
| `BlobObject` | the frame table, its check, and ranged reads of each store (operators) | extends `Container` |
| `Codec` | encode, store, damage, apply; store and fetch a blob in parallel | extends `BlobObject` |
| `GoBin`, `X86`, `FuncMatch` | a binary's tables; relocation of machine code; pairing of functions (operators) | `FuncMatch` extends the other two |
| `DataMap`, `ShardedMap` | content maps as one pass (operators); the same map built by goroutines (actions) | `ShardedMap` extends `DataMap` |
| `Mapper`, `Layout`, `PclnPredict`, `TypeWalk`, `Votes` | where an address went; the layout stream and the skeleton; the pclntab; type descriptors; target votes (operators) | `Mapper` extends `FuncMatch` and `DataMap`; `Layout` and `TypeWalk` extend `Mapper`, `PclnPredict` extends `Layout`, `Votes` both |
| `Sections` | predictDataSection, predictHoles, predictWhole: the prediction before its text workers (operators) | extends `Votes` |
| `Predict` | encoder and decoder with their text workers | extends `Layout`; what it calls of `Votes` and `Sections` are constants |
| `GoAware` | a prediction or a sharded map | extends `Predict`, `Sections` and `ShardedMap` |
| `Installer_proofs`, `ExternalAgent_proofs`, `SelfUpdate_proofs`, `Publisher_proofs`, `Build_proofs`, `FileStore_proofs`, `HashCache_proofs` | TLAPS proofs (section 5) | extend the module they are about |
| `Delta_proofs` | TLAPS proofs about `src/delta` | extends `Codec`, `Predict` and `ShardedMap` |
| `MC*` | instances for TLC | extend the module they instantiate |

An operator whose comment starts with *Mutant* is a plausible mistake in the
definition that follows it; no specification uses it.

### How the state corresponds to the code

**Installer.** `fs` holds what each name refers to: a release, `None`, `Corrupt`
for bytes that hash to nothing, `Torn` for a marker that exists but names
nothing (`writeSync` truncates before it writes). `fs.linked` says that `.old`
and `<path>` are one inode, in which case `rename(2)` succeeds and does nothing,
which Revert's code relies on. `disk` is the set of images a power loss may
leave: every image since the last directory fsync, that is, metadata reaches the
disk in order (a journalling file system) but late. `call[p]` is the operation
process `p` is in and its next step. A step named in `Faults` may fail; `writeSync`
may also fail after the hash is in the file, when `Sync` or `Close` does
(`WriteSyncFails`).

**ExternalAgent.** `pc` is the place in `update`, `rollback` or `recover`;
`etag`, `seq` are the fields of `agent`, and start at zero with each process;
`ptrs` is the sequence of published heads, a pointer's seq and ETag being its
index; `running` is what the service executes. Planning and fetching are one
step that succeeds or fails (`Plan` and `BlobFetch` model them). `origin`,
`confirmed`, `rejected`, `visible`, `topSeq` are history variables of the
properties. Reads of markers are assumed to succeed; a pointer with neither
chain nor blob (OutcomeNoPath) is left out, since publishers always name a blob.

**SelfUpdate.** One record of state per process slot. The service's `main` is
assumed to end with `<-up.Done()`, as the repository's README shows. The
supervisor starts the service only when no process of it is left. `Slow` is the
only timing assumption: with `Slow = FALSE` a good release reports before the
parent's timeout, and the parent takes the byte from the pipe before the child
installs a release of its own (`InTime`); with `Slow = TRUE` both may happen in
any order.

**Publisher.** Objects are represented by the encoder version that made them,
which is also what a hash in the pointer distinguishes. `CompareAndSwap` is the
file and S3 stores' conditional Put, `LostAnswer` an S3 Put that took effect and
whose repetition is refused, `SshRename` the second half of the ssh store's. A
previous release that was fetched (`OldBytes`) is cached, or not when the cache
cannot be written, which the publisher only logs.

Two machines race on an atomic store, or one publishes over ssh (`atomicCAS`,
chosen initially), as `store/ssh.go` asks of its users.

**Plan, BlobFetch, Build.** Sizes are small numbers, hashes model values; a
linked or broken chain of up to three edges, with or without a blob, against
every file a target may hold: TLC enumerates these as initial states. `phase`
is the place in `update` and `build`. `worker[w]` is a goroutine of one pass,
`cancelled` the pass's own context and `stopped` the agent's. The back-off times
are left out; `late` is the end of `blobWait`. `StartBlob` forgets the plan, as
the call does.

**FileStore.** `files` are inodes: version, chunks written, mtime, whether a
fsync reached the bytes. `entry[k]` is the durable directory entry of a key and
the ones renamed over it since the directory was synced; a power loss keeps any
prefix. The pointer and the blobs lie in directories of their own, and `FsyncDir`
settles the one of the key just put. `proc[a]` is a Get or a Put and its next call. All versions have one
size and time is a coarse clock, so that only the inode tells ETags apart. An
ssh writer only puts the blob: its pointer Put is `Publisher!SshRename`.
`CasStore` is seen through `log` (the versions in `entry`), `seen` (what a
writer's tag is of), `mine` (a Put between rename and return).

**HashCache.** A file has two blocks, and its hash is the pair a read saw: a hash
torn by an edit is a value of its own. Edits keep the size. With `FineClock` an
edit in place moves the mtime; a rename brings a new inode. What is installed is
the accepted release: `delta.Apply` and `update` both check its hash, so the
bytes on the way there are not kept.

**Buf to Container.** Buffers are sequences of bytes indexed from 0 as in the
code; a varint is one element, and one that is too large stands for an
unfinished one, so that damage can produce it. Digests are injective tags. The
error of a decoder is `[kind |-> "error"]`, except the unsupported transform
that the agent answers with the blob. The compressors are external: run-length
coders that, like the real ones, may not pay and may refuse their input. What
the Go-aware transform predicts is a constant operator here: `Container` is
about what the codec does with a prediction, right or wrong. `Encode` fails
where `encodeGoAMD64` does after both files qualified (`GoEncodes`): a layout it
cannot read back, tables or a prediction of other lengths than the layout's. The
coders it calls (`plainDiff`, `plainPatch`, `encodeCorrection`,
`applyCorrection`) are constants too, bound in `MCCodec.cfg` to the operators of
`Plain` and `Correction`. In `Codec`, `out` is the buffer the workers of
fetchBlob copy their frames into.

**ShardedMap.** `mcur[w]` is a goroutine's next block, `ix` the index so far,
`mblocks` the shared slice; `mfix` is the shard and the block the repair is at,
which runs block by block as the code's inner loop does.

**GoBin to Predict.** A cell stands for four bytes; an offset or a displacement
is one cell, a pointer two. `MCGoAware` links small programs the way Go's linker
does it (text, plt, rodata, types, itabs, names, pclntab with its seven tables,
moduledata, data, bss), so that the binaries TLC predicts are linked ones. The
disassembler is the constant `Decode`. `enc` is what the encoder knows, `dec`
what either side decoded from the stream; `pred` is the shared buffer the text
workers fill, `taken` their atomic counter and `cur[w]` the function a worker
holds; `encPred` is the encoder's finished prediction, which its correction is
measured against. `Written` is the layout stream of a pair.
`MaxFuncs`, `MaxPatchSize` and `MaxFuncName` are the largest numbers the layout's
reader takes. They are small in the runs, so that one release is exactly as long
as the reader allows, another is one cell longer, and a third adds a function
whose name is too long; the encoder must refuse the last two, because it reads its
own layout back. A binary with no function at all parses (`ParseFuncs`), as in
the code, where the layout then indexes an empty list; no linked Go binary is one.

`Container`, `Predict` and `MCGoAware` take the algorithms they call as constant
operators with lower-case names (`plainDiff`, `fixBlocks`, `skeleton`, `link`,
...), which every cfg binds to the operator of the same name
(`fixBlocks <- FixBlocks`): the actions stay the control of the code, TLC's
action statistics end at the calls, and what is proved of the actions holds
whatever the algorithms compute.

## 3. Runs

| Run | Bounds | Checks | Shows |
|---|---|---|---|
| `agent_crash` | 3 releases (one unhealthy), 2 pointers, 1 SIGTERM, 1 crash, 1 power loss, 5 failing calls, failing restarts | `TypeOK`, `Recoverable`, `NoReinstall` | recovery from a death at any step, also of the recovery |
| `agent_steady` | 3 releases (one unhealthy, one too large), 3 pointers, stale and failing reads | `Settled`, `FailedWasInstalled`, `NoReplay`, `Converges` | what an agent that is not stopped guarantees, and that it converges |
| `selfupdate` | 3 processes, 3 releases (one does not come up), 3 heads, 2 kills, 1 power loss, `Slow = FALSE` | `WholeReleaseAtPath`, `EmbRecoverable`, `EmbSettled`, `OneUpdate` | handoffs among parent, child and grandchild on the same files |
| `selfupdate_live` | 2 processes, 2 heads, 1 Stop, 1 kill, `Slow = FALSE` | `EmbConverges`, `StaysServed` | a handoff never interrupts the service, and the target ends on the head |
| `selfupdate_late` | 2 processes, `Slow = TRUE` | `EmbSettled` is violated | finding 1 |
| `publisher` | 2 machines and 3 runs, or 1 machine over ssh and 5 runs; 3 releases, chain of 2, cache of 2, clocks that go back, lost answers, deaths | `ChainIsHistory`, `EdgesFetchable`, `ReturnedHasBlob`, `SeqGrows` | publishers racing; the chain's cut and the cache's eviction |
| `build` | chains of up to 3 edges over 2 releases, sizes 1 and 3, limit 2; 4 frames, 2 workers, 2 tries, 2 faults, wrong bytes, stop | `PlanReachesHead`, `PlanIsCheapest`, `DispatchedOnce`, `VerifyMeansWrong`, `WaitsForBlob`, `BuildEnds` | MakePlan against a search of all plans; workers, passes and contexts; the fallback |
| `file_store` | 2 file writers and a poller, or a file writer, an ssh writer and a poller; 1 pointer each, 1 blob, 2 chunks, 4 inodes, 1 tick, 1 power loss | `LockOwned`, `WholeObject`, `NotModifiedIsTrue`, `Refines` | the directory is an atomic compare-and-swap store |
| `hash_cache` | 2 releases, 2 edits, 1 crash | `CacheTruthful`, `DriftGoesToBlob`, `UpToDateIsTrue`, `Converges` | edits between any two steps of a cycle |
| `codec` | every pair of files of up to 4 bytes over two values, 6 x 6 longer ones, one that is refused; every one-cell damage, wrong base, older build; blobs of 0 to 5 bytes, 5 kinds of store, 2 workers, 1 fault | `RoundTrip`, `NeverWrong`, `OldBuildTakesBlob`, `FetchedWhole` | the codec inverts itself, and fails closed |
| `predict` | 10 programs of 5 to 7 functions, all pairs, 2 text workers; `MaxPatchSize` 500 and `MaxFuncName` 8 cells, reached and passed; 64 sections of 4 blocks with every single edit, 2 map workers | `LayoutExact`, `PredictsMoves`, `SidesAgree`, `ShardsAgree`, `MatchedIsThere` | encoder and decoder against each other and against the linker |
| `majorities` | 1 pair of binaries | `OneEntryPerTarget` is violated | finding 2 |

**Why the bounds are enough to be interesting.** Three releases are the one at
the path, the one in `.old` and the one being installed; one of them bad is what
rollback needs. One crash and one power loss put a death inside an install and a
second one inside the recovery from it. Three publish runs on two machines are
the race, its loser's retry and a successor; five pointers of one machine pass a
chain limit of two and a cache of two. Three processes are all that a handoff
during a drain creates. Two workers are one that holds a frame while the other
fails, and four frames leave some for a second pass. Two writers that read one
version are the race a lock is for; a third would wait like the second. Two
edits change a file and change it back. Frames of three bytes make bodies of
three and six end on a boundary; windows of two or three cells collide in the
small index, so that verification has something to reject; and the ten programs
reorder, add, delete, rename and grow functions, drop types and strings and add
variables, alone and together. Deadlock is checked except where a system may
stop: all publish runs used up, a cycle that ended (`BuildEnds` covers waiting
for ever), a target on its head with no head left to publish, a finished job of
the codec.

**Symmetry** is used in safety runs only, over releases no constant tells apart,
machines with the same encoder and process slots.

**Fairness.** `ExternalAgent!FairSpec`: the agent's own steps are taken (the Go
scheduler; its supervisor restarts it), a restart or a check that is running
ends (both have time limits in the code), a release over the size limit is
refused. Strong fairness for an answer of the store that is not stale and for a
fetch that works: the loop retries for ever, and a store that never answers
well is outside what it can promise. `SelfUpdate!EmbFairSpec`: each process goes
on, the supervisor restarts the service, and a release that does not come up
ends; the last is needed because a child that hangs after its parent was killed
has nobody left to end it but the supervisor. `Build!FairSpec`: goroutines run
and time passes; an upload need never come. `HashCache!HashSpec`: the agent's
loop goes on; edits, crashes and publishing are never required.

**Refinement.** `FileStore!Refines` is `CasStore!CasSpec` under the mapping above:
every step of the directory is a read, a swap of the version the writer had
read, an acknowledgement of a durable version, a loss of versions nobody was
told of, or nothing the abstract store sees. `Publisher!CompareAndSwap` is that
abstract swap in one step.

## 4. Where documents, comments and code differ

1. `selfupdate_late`: a child that calls `Ready()` after the timeout and before
   the SIGTERM ends it clears the marker, and its own update removes `.old`; the
   parent's revert finds nothing.
2. `majorities`: the inner loop of `majorities` (`delta/predict.go:291`) compares
   only the new address, so a group of votes runs on into the next old target
   when both moved to the same place, as two strings that were merged do. One
   target is credited with the other's votes and the other loses its entry. It
   costs patch bytes, not correctness: `SidesAgree` and the correction hold.

These can be seen by checking the property in place of the run's, with its
constants changed as given:

| Property | Run and constants | What happens |
|---|---|---|
| `ExternalAgent!Settled` | `agent_steady`, `MaxTerms = 1` | SIGTERM during the health check: the rollback puts the previous file back, but its restart command is started under the same, finished context and does not run (DESIGN 6, "the previous process (or a restart of it) serving") |
| `Publisher!NeverBlobless` | `publisher`, no symmetry | a publisher dies between pointer and blob; the next run finishes the blob only from the cache, which the release enters after its blob (DESIGN, "never left permanently blob-less") |
| `HashCache!Converges` | `hash_cache`, `FineClock = FALSE` | with a clock too coarse to tell two writes apart, the cached hash of the old bytes is believed, and every cycle patches a file that is not the base (comment at `hashcache.go:11`) |
| `Codec!DisagreementTakesBlob` | `codec` | a build whose predictor differs gets a verification error, which the agent does not answer with the blob although the message says "fetch the blob" (`go127.go:142`) |
| `ExternalAgent!Settled` | `agent_steady`, `MaxCrashes = 1` | an agent killed between a rollback's revert and its restart finds no marker and never restarts the service (DESIGN 6.2) |
| `ExternalAgent!NoReplay` | `agent_steady`, `StaleReads = TRUE`, `MaxTerms = 1` | seq is not on disk: a restarted agent accepts an older pointer (README guarantee 2) |
| `ExternalAgent!FailedWasInstalled` | `agent_steady`, `MaxCrashes = 1` | a crash between marker and rename makes recovery record a release that never was at the path (comment on MarkFailed) |
| `ExternalAgent!FailedWasInstalled` | `agent_steady`, `Faults = {"writePending"}`, `MaxTerms = 1` | the same without a crash: `Sync` or `Close` fails after the marker's hash was written, Install leaves the marker, and the agent that is started after a SIGTERM records its release |
| `Publisher!EdgesFetchable` | `publisher`, `Encoder <- TwoEncoders` | one patch key, two contents (DESIGN 4.3) |
| `Publisher!OneEdgeMatches` | `publisher`, `MaxChain = 3`, 4 runs | publishing an earlier release again gives a chain that visits it twice (comment in MakePlan); `Plan` shows that the first match still is the cheapest |
| `SelfUpdate!StopUndoes` | `selfupdate`, `MaxStops = 1` | the end of the context closes Done at once, so main returns while the child lives on (DESIGN 6.3) |
| `SelfUpdate!OneUpdate`, `EmbSettled`, `EmbRecoverable` | `selfupdate`, `MaxStops = 1` | a parent whose context ends gives up a child that is about to come up: the child polls and installs before the SIGTERM ends it, beside the parent's own rollback |
| `FileStore!NotModifiedIsTrue` | `file_store`, `InodeReuse = TRUE` | a freed inode handed out again within one tick gives two versions one ETag |

Two things the models take in without a property against them: over ssh nothing
syncs the temporary file before the rename, so a power loss of the remote host
can cut a blob (`WholeObject` excepts it, and the target's hash check refuses
it); and an agent stopped between two frames reports a verification failure
(`VerifyMeansWrong` excepts `stopped`). `PredictsMoves` excepts the ELF header,
which is the old file's, and `.go.module`, whose pointers into the pclntab and
past `.bss` no map covers.

## 5. Proofs

Every theorem holds for every value of the constants that satisfies the named
assumptions of the module (`ValuesDistinct`, `FaultsAreSteps`, `AgentAssumption`,
`SelfUpdateAssumption`, ...), which TLC evaluates in the runs. A theorem that
needs more says so in its own ASSUME; the second table below gives what happens
without it. TLC checked the invariants whose conjuncts it can enumerate on an
instance first.

| Module | Theorem | Property | Inductive invariant |
|---|---|---|---|
| `Installer_proofs` | `InstallerTypeCorrect`, `InstallerAlwaysWhole` | `WholeReleaseAtPath` | `InstInv` |
| `ExternalAgent_proofs` | `AgentTypeCorrect` | `TypeOK` | `TypeInv` |
| | `AlwaysRecoverable` | `Recoverable` | `RecoverInv` |
| | `NeverReplays` | `NoReplay` | `BudgetInv`, `ReplayInv` |
| | `AlwaysSettled` | `Settled` | `SettledInv` |
| | `FailedAlwaysWasInstalled` | `FailedWasInstalled` | `FailedInv` |
| | `NeverReinstalls` | `NoReinstall` | `OnTrialIsMarked`, `RejectInv` |
| `SelfUpdate_proofs` | `EmbTypeCorrect`, `EmbAlwaysWhole` | `WholeReleaseAtPath` | `TypeInv` |
| | `UpdatesSerialised` | `OneUpdate` | `FamilyInv` |
| | `AlwaysStaysServed` | `StaysServed` | `FamilyInv`, `ServedInv` |
| | `EmbAlwaysRecoverable`, `EmbAlwaysSettled` | `EmbRecoverable`, `EmbSettled` | `TargetInv` |
| `Publisher_proofs` | `PubTypeCorrect`, `ChainIsAlwaysHistory`, `SeqAlwaysGrows` | `ChainIsHistory`, `SeqGrows` | `PubInv` |
| | `EdgesAlwaysFetchable`, `ReturnedLeavesBlob` | `EdgesFetchable`, `ReturnedHasBlob` | `PubInv`, `StoreOK` |
| `Build_proofs` | `PlanAlwaysReachesHead`, `PlanIsAlwaysCheapest` | `PlanReachesHead`, `PlanIsCheapest` | `PlanInv` |
| | `BuildTypeCorrect`, `FramesDispatchedOnce`, `VerifyAlwaysMeansWrong`, `AlwaysWaitsForBlob` | `DispatchedOnce`, `VerifyMeansWrong`, `WaitsForBlob` | `BuildInv` |
| `FileStore_proofs` | `StoreTypeCorrect`, `LockAlwaysOwned`, `ReadersSeeWhole` | `LockOwned`, `WholeObject` | `StoreInv` |
| | `TagsIdentifyVersions`, `DirectoryIsCas` | `NotModifiedIsTrue`, `Refines` | `StoreInv`, `TagInv` |
| `HashCache_proofs` | `HashTypeCorrect` | | `CycleInv` |
| | `CacheIsTruthful`, `DriftTakesBlob`, `UpToDateAlwaysTrue` | `CacheTruthful`, `DriftGoesToBlob`, `UpToDateIsTrue` | `CycleInv`, `HashInv` |
| `Delta_proofs` | `MapsShardsAgree`, `MapsMatchedIsThere` | `ShardsAgree`, `MatchedIsThere` | `MapInv` (`MapInvariant`) |
| | `PatchesRoundTrip`, `PatchesNeverWrong`, `OldBuildsTakeBlob` | `RoundTrip`, `NeverWrong`, `OldBuildTakesBlob` | `PatchInv` (`PatchInvariant`) |
| | `BlobsFetchedWhole` | `FetchedWhole` | `BlobInv` (`BlobInvariant`) |
| | `PredictionsAgree` | `SidesAgree` | `PredInv` (`PredictInvariant`) |

**Installer.** Any number of processes call any operation with any bytes, any
call fails, any process dies, power fails at any time. `WholeReleaseAtPath` is
not inductive: `RenameNew` makes visible what the call carries. The strengthening
is `CallsVerified`: a call past `stage` carries the bytes of the release it
names. The rest is that `LinkOld` and `RenameOld` move names among verified
files, and that a power loss leaves an image that was current.

**ExternalAgent.** `TypeInv` adds `CallMatches` (which Installer step the agent
can be at in which part of the cycle), `HasHead` and `OldThenPath`.
*Recovery:* `RecoverInv` adds `OldConfirmed` (only releases observed healthy are
kept in `.old`, on every image) and `Progress` (what is known of the files at
each place: before the rename the path is sound, the marker is there from
`writePending` on, after the rename the release is on trial with a way back,
after a revert the path is sound again). Without `OldConfirmed` a power loss
could bring back an image whose `.old` is unknown; without `Progress` the rename
of Install could leave a path with no way back.
*Replay:* the highest accepted seq is bounded by what was published, and an agent
that was never stopped still has it in memory.
*Settled:* at each place of the cycle, whether the service has been restarted
since the last rename (`NotRenamed` tells the two halves of Install and of Revert
apart).
*Reinstall:* `RejectInv` ties the history variable to the failed marker: as long
as a release is rejected, the marker names it and there is no `.old`, and no
place past the marker check is reachable. What a revert rejects is what the
marker named because an unlinked `.old` beside `.pending` means that `.pending`
names the path (`OnTrialIsMarked`), on every image.

**SelfUpdate.** Each of a process's own steps is shown once to be a move in a
table (`Moved`, `Frame`), and each system call a line of another (`Wrote`); the
invariants are proved against the tables. `FamilyInv`: of the processes that are
neither dead nor draining there is one, or a parent in its handoff and the child
it started, and the parent's place bounds the child's (`Parent`): it gives the
child up only while a release that does not come up boots, and the child polls
only once the parent has its byte. `ServedInv`: nothing but an outside kill takes
the child from a parent that has its byte. `FilesInv`: per process, what it can
count on about the files at its place (`Home`: the path is what it executes;
`Trial`: `.old` is, or there is nothing left to revert), with `OldConfirmed`. By
`FamilyInv` the only process that can disturb another's is a child that clears
the marker while its parent waits, which `Trial` does not mention.

**Publisher.** `PubInv` is `ChainIsHistory` with what a run decided from the
pointer it read (`LocalOK`): a compare-and-swap then replaces exactly that
pointer, and over ssh `OneOverSsh` says nobody else is there. `StoreOK`: every
edge the pointer or a run names is in the store as the one encoder version made
it, and a run that has put its blob finds it there.

**Build.** `PlanOK` follows `data` along the chain (after n patches it is the
n-th edge's release); that the first match is the cheapest rests on `ChainBytes`
being monotone in the length of the suffix, by a least counterexample in the
natural numbers. `Dispatch`: a frame is undone, with one worker, in hand or
failed, never two of these; `Cause`: each kind of failure has its reason in the
pass's history; `Accounted`, `Assembled`: unless the pass is cut short no frame
is lost and somebody is left to take it, and what is assembled is complete. `Turns` says that the download and the chain never run at once.

**FileStore.** `StoreInv`: what a process of each role holds at each step
(`RoleOK`, `HoldsOK`), that a temporary inode is named by no entry and held by
nobody else (`TempOK`), that named inodes are whole and synced (`EntriesOK`), and
that a reader's bytes are a prefix of its version (`ReadOK`). `TagInv`: a tag in
somebody's hands identifies the version it was taken from until the clock has
passed it. Under it the compare in Put is a compare of versions, and every step
maps to a step of `CasStore` or leaves its state (`DirectoryIsCas`, the
refinement's initial and step conditions).

**HashCache.** `CycleInv` is about any clock: a chain or blob is fetched for a
head that was accepted, and a hash never has more blocks than were read.
`HashInv`: identity (inode, mtime) taken in the past (`Past`) and equal to the
file's now means that the bytes read since are the file's. So the hash that a
cycle compares with the head's is the file's, unless the file was edited behind
the cycle's back (`touched`); that is `UpToDateIsTrue`, and a wrong answer there
would last, because every later poll is answered 304.

**Content maps.** A block is `Right` when it is what one pass computes from the
block before it. While the goroutines run, a shard's blocks are right but for its
first, which started from shift 0 (`Passing`); the repair goes through the shards
in order, and what may still be wrong is the block it is at and the first block
of every later shard (`Repaired`): agreeing with what is already there, it may
stop, because the block after it was computed from the same shift. A map all of
whose blocks are right is the single pass's (`PassIs`: the recurrence has one
solution). This holds for any job, any number of goroutines and any block size.

**Patches.** `PatchInv` says what a stored patch still promises: it names the new
file's digest, or it is the encoder's but for that digest, and an undamaged one is
both. That such a patch decodes is `EncodedApplies`: frames follow each other
(`TotalIs`, `ChunksAre`), compressing and joining them gives back the body
(`BodyReads`), and the Go-aware body's streams are read at the cursor they were
written at (`GoApplies`). `NeverWrong` needs none of it: Apply delivers only bytes
with the promised digest.

**Blobs.** `Gathering`: until something goes wrong, every frame handed out is with
a worker or in its place in the buffer (`Filled`). Frames do not overlap, so one
that is copied in leaves the others; when the feeder has none left and no worker
holds one, the buffer is the release.

**Predictions.** What makes the order of the text workers irrelevant is that no
byte belongs to two functions. The sizes in a layout stream are arbitrary numbers
as read; `decodeFuncLayout` refuses a negative one, so the entries rise
(`EntriesRise`), and `skeleton` refuses functions outside .text (`FuncsInText`):
the functions lie one behind the other inside the file (`Apart`, `FinalApart`).
Then writing function j into a prediction with the functions D written gives the
prediction with D and j written (`Painted`, `PaintMore`), whatever was written in
between. `PredInv` carries this along: the buffer is `Painted` with the functions
given out and no longer held, none is held by two workers, and a worker that
found none left saw the counter past the last one. What the encoder knows at each
step is a function of the pair, so the decoder starts from the same stream, and
both end with `All` of the pair. Nothing is assumed of the disassembler, the
mapper or what the other predictors compute.

| Assumption | Of | Without it |
|---|---|---|
| `LastResortsWork`: the rename of Revert and the fsync that ends Install do not fail | `AlwaysRecoverable` | Install reports an error although the release is at the path; the next Install links it to `.old` |
| `~StaleReads \/ Unstopped` | `NeverReplays` | table in section 4 (seq is not on disk) |
| `NothingCutShort`: no signal, no crash, a restart command that works, an Install and a Revert whose later steps work | `AlwaysSettled` | section 4; a failed fsync or unlink after the rename is an error of an operation that took effect |
| `MarkersTakenBack`: no crash or power loss, and no SIGTERM unless `writePending` and `unmark` work | `FailedAlwaysWasInstalled` | section 4: an install that was not finished leaves a whole marker, and the next start takes its release for one that failed |
| `MarksWritten`: MarkFailed's two system calls work | `NeverReinstalls` | rollback and recovery only log that the mark is missing, and the next cycle installs the release again |
| `~Slow`: handoffs are in time | `UpdatesSerialised` and the three after it | finding 1 |
| `MaxStops = 0`: no context is cancelled | `UpdatesSerialised`, `EmbAlwaysRecoverable`, `EmbAlwaysSettled` | the parent gives a good child up, which may come up and install before SIGTERM reaches it; section 4 |
| `UndoWorks`: Revert's system calls and the fsync of Install do not fail | `EmbAlwaysRecoverable`, `EmbAlwaysSettled` | TLC finds a violation of `EmbSettled` for each of the four calls: the process goes on with a file at the path it does not execute |
| `SameVersion`: one encoder version | `EdgesAlwaysFetchable`, `ReturnedLeavesBlob` | section 4 (one patch key, two contents) |
| `~InodeReuse` | `TagsIdentifyVersions`, `DirectoryIsCas` | section 4 |
| `FineClock` | `CacheIsTruthful`, `DriftTakesBlob`, `UpToDateAlwaysTrue` | section 4 |

`Delta_proofs` rests on assumptions about what it does not look into, which TLC
evaluates for the jobs and pairs of the runs: `CodecInverts` (for these jobs the
plain coder, the correction and the compressors undo what their encoders did, and
the lengths fit a varint), `CodecAssumption` and `MapAssumption` (sizes are numbers,
files are sequences of them, there is a worker), and `PredictAssumption`: the stream
the encoder writes reads back as numbers, `skeleton` is bound to the operator
`Skeleton`, .text lies in the file, and the prediction has the length of the layout
(`make([]byte, l.NewLen)`).

**Only model-checked.** Liveness (`Converges`, `EmbConverges`, `BuildEnds`,
`HashCache!Converges`): fairness and `ENABLED` are outside the prover.
`LayoutExact` and `PredictsMoves` state what the layout codec and the predictors
compute for linked binaries; that needs induction over the binary's data, through
the recursive operators of `TypeWalk` and `Votes`, and a definition of what the
linker makes, which `MCGoAware` gives for small programs only. That the plain coder
and the correction invert themselves is likewise checked by the `codec` run and an
assumption of the proofs (`CodecInverts`). `OneEntryPerTarget` and `EmbSettled` of
`selfupdate_late` are violated. Where induction was needed over numbers alone
(`ChainBytes`, `Total`, the pass of a map, a list read from a stream), it is done
with a least counterexample over a recursive function.

## 6. Plan

Done: the modules and proofs above. Next:

1. `Stream`: publishers and a target together: every accepted pointer can be
   reached, and targets follow the head (a refinement of "the head moves, the
   target follows").
2. Proofs that discharge `CodecInverts` for the plain coder, and the part of
   `LayoutExact` that is about lists sent against the old list (`Indexes` undoes
   `EncodeList`).

## 7. Not modelled

- `selfupdate/fds.go`: encoding of the descriptor table and dup of sockets. That
  the service stays served is `StaysServed`.
- The set-up of the remote stores: URLs, HTTP clients, S3 signing, ssh
  authentication and host keys; their answers and failures are inputs.
- Parsing ELF itself (`debug/elf`), the disassembler, the compressors, BLAKE3:
  libraries.
- Flag parsing, output formatting and log lines, JSON, poll intervals and
  back-off, file modes and ownership.
- `bench/`: measurements, the demo, and `bench/gotransform`, the prototype whose
  surviving code is `delta/`.
- Execution of a binary at the moment its file is replaced (ETXTBSY) is the
  failing start of a handoff.
