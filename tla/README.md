# ModelBake: TLA+ models and proofs

ModelBake builds the artifacts of a model release (conversions, quantizations, smoke runs) as a graph,
keeps them in a content-verified cache, writes a manifest of each run, and keeps a ledger of the releases
that a reviewer has accepted. This directory holds TLA+ modules of its stateful core, the TLC
configurations that check them, and TLAPS proofs about them. `PROJECT.json` lists the runs, the
properties, the source lines each definition stands for, the hazards and the theorems.

## 1. Inventory

Paths are below `src/modelbake/`.

| part | state it keeps | operations | where it is hard | what makes it correct |
|---|---|---|---|---|
| **Baseline ledger** `baseline.py` | `manifests/`, `reviews/` (write-once), per channel a chain of decisions, `current.json` and a flock | review, accept (with a receipt, or legacy), check, current, verify | several processes; a lock per channel over directories all channels share; files read twice; errors and kills between any two writes; retries of an accept whose answer was lost | chains never fork; a reviewed decision sits on the decision its reviewer saw; a receipt is used once; answers are true when they are given |
| **Artifact cache** `cache.py` | a directory of entries, each a manifest and its outputs | load, commit, contains | no lock at all: rename decides races; entries vanish or rot under a reader | one winner per key; every answer is verified; a write-once store |
| **Build engine, node loop** `engine.py` 700-945 | the results so far, in memory and in `manifest.json` | run, resume | builds that share a cache; tools replaced while they run; adapters that modify their inputs; interrupt, kill and resume between commit and manifest | cache and manifests are true derivations; failures block descendants and nothing else; the status is what the nodes say; a manifest is that of the run at work |
| Run directory `engine.py` 143-468, 612-698 | directory, marker, lock file | prepare, lock, run, release | the resume decision is taken before the lock; kills between mkdir, marker and first manifest | one run at a time per directory; a new run replaces no other; an interrupted one can be resumed |
| Build graph `graph.py` | none (pure) | validate, topological sort | equal graphs listed in other orders | dependencies first, each node once, one order per graph |
| Recipe and plan `config.py` | none (pure) | load, build_plan | an F16 node made only when a target needs it | each target has its chain of nodes; the digest covers the recipe |
| llama.cpp adapter `adapters/llamacpp.py` | a process group, two pipes, a shared cap | fingerprint, run | timeouts, interrupts, descendants that outlive their leader, two reader threads | every call ends; the captured output is bounded and truncation is told |
| Fixture adapter `adapters/fixture.py` | none | fingerprint, run | - | deterministic |
| Manifest verification `manifest.py` | none | load, verify, report | manifests that contradict themselves | only matching bytes are called verified |
| Comparison `compare.py` | none | compare two manifests | the same bytes with other evidence, and the reverse | what it calls a node has a cause |
| Hashing `hashing.py` | none | digest of a file or tree | a tree that changes while it is read | equal digest, equal tree |
| Update notice `update_check.py` | a one-day cache file | newer_version | concurrent processes, no answer, an answer cut short, kills | what it names exists; at most one request a day (which it does not keep); never stops a command (nor this) |
| Command line and tour `cli.py` | the demo input; SIGTERM handler | build, plan, verify, compare, baseline, tour | SIGTERM becomes an interrupt; a tour is stopped anywhere and run again | a tour reuses, resumes or refuses, and what it prints is true |
| Evidence generator `scripts/generate_public_evidence.py` | the evidence file | generate, validate | seven pieces read one after the other while others replace them | a record describes one moment |
| Release gate `scripts/release_check.py` | the stage, `dist`, `site/dist/downloads`, the bundle | the gate, in bootstrap and normal mode | failures and kills between any two steps, and gates run again | a bundle holds the packages its evidence is about; a failed gate can be repeated |
| HTML report, site, action | none | rendering and packaging | - | - |

Interactions: `run` takes the run directory's lock, then for each node of the sorted plan asks the adapter
for its fingerprint, the cache for the key, and the adapter for the outputs, and replaces the manifest
after every node. `baseline` reads the manifests that runs leave and hashes the artifacts they name, which
are cache entries. Processes meet only in the file system: in the cache (no lock), in a run directory
(one flock), in a baseline store (one flock per channel) and in the cache file of the update notice (no lock). The
llama.cpp adapter's `run` makes a list of external calls, one process group after the other. The release scripts run
the program and the packages it is built into from outside.

## 2. Modules

| module | what it is |
|---|---|
| `BaselineLedger` | `baseline.py`, one action per file-system step |
| `AcceptedHistory` | what the ledger promises: per channel an append-only list of releases and a published position |
| `BaselineLedgerProofs` | proofs about `BaselineLedger`, among them that it implements `AcceptedHistory` |
| `ArtifactCache` | `cache.py`, one action per file-system step |
| `CacheContract` | what the cache promises: a write-once store |
| `ArtifactCacheProofs` | proofs about `ArtifactCache`, among them that it implements `CacheContract` |
| `BuildRun` | the node loop of the engine, for builds over one cache |
| `BuildRunProofs` | proofs about `BuildRun` |
| `RunDirectory` | processes that build, resume or tour in one run directory |
| `RunDirectoryProofs` | proofs about `RunDirectory` |
| `ToolProcess` | one node of a configured llama.cpp tool: its calls, processes, pipes, reader threads, timeouts, interrupts |
| `ToolProcessProofs` | proofs about `ToolProcess` |
| `PlanOrder` | from a recipe to the order of its nodes: `config.py` and `graph.py` |
| `ReleaseTour` | `modelbake tour`, with the fixture adapter, manifests and their comparison; EXTENDS `PlanOrder` |
| `UpdateNotice` | `update_check.py` |
| `PublicEvidence` | `generate_public_evidence.py`, read by read |
| `ReleaseGate` | `release_check.py`, with `PublicEvidence` inside |
| `PublicEvidenceProofs`, `ReleaseGateProofs` | proofs about `PublicEvidence` and `ReleaseGate` |
| `CommandLine` | `cli.py`'s `main()`: composes `UpdateNotice`, `ToolProcess`, `ReleaseTour` and, beside it, `ReleaseGate` |
| `CommandLineProofs` | proofs about `PlanOrder`, `ReleaseTour`, `UpdateNotice` and `CommandLine`, among them that `CommandLine` implements `ToolProcess` and `ReleaseGate` |
| `MCBaselineLedger`, `MCArtifactCache`, `MCBuildRun`, `MCRunDirectory`, `MCCommandLine` | constants and symmetry for TLC |

`BuildRun` uses the cache as `CacheContract` describes it: `cache.load` and `cache.commit` are one step
each. `ArtifactCache` justifies this: it is proved that its steps implement the contract, whose replies say
what the store holds when the call returns.

Operators named `...Any`, `...Always`, `...Shared` and the like, each introduced by a comment "Mutant of",
are plausible bugs of the definition that follows. They are used by no specification; `PROJECT.json`
names, for every property, a mutant that breaks it.

### BaselineLedger

A process is a command. Its `pc` names the next file-system step and `mem` holds the locals of the Python
functions: the candidate's digest (`before`), the manifest parsed from a later read (`parsed`), the receipt
file's bytes and the receipt loaded from a second read (`bytes`, `receipt`), the decisions listed, the
terminal decision and the record being written (`draft`).

* `Start` .. `AcquireLock`: a command is started and waits for the channel's flock; `verify` takes none.
* `ReadCandidate`, `ParseCandidate`, `VerifyArtifacts`, `RereadCandidate`: `_load_and_live_verify_candidate`,
  which opens the candidate's file four times. `current` takes the same steps as `verify`.
* `ScanManifests`, `ScanReviews`, `FindChannel`, `ReadDecisions`, `ReadPointer`: `_verify_ledger_at`. What it
  rejects is `VerifyError`; a temporary file of another process counts (`Foreign`).
* `ReadReceiptBytes`, `LoadReceipt`, `CheckReceipt`, `RecheckRelease`: the checks of an accept.
* `CreateTemp`, `LinkManifest`, `LinkReview`, `LinkDecision`, `UnlinkTemp`, `KeepRecord`: `_write_immutable`,
  once for each record; `ReplacePointer`: `_replace_private`.
* `Refuse` is a `BaselineError`, `Fail` an `OSError` or `KeyboardInterrupt` (the `finally` blocks run),
  `Crash` a kill (they do not, the kernel releases the flock and temporary files stay).
* `Rebuild` and `ChangeArtifact` are the owner's.

Receipts and decisions carry a timestamp of a microsecond's resolution and so have fresh digests; `issued`
numbers them. The refinement mapping to `AcceptedHistory` reads the history of a channel off its decisions
and the position off the pointer.

### ArtifactCache

A client is a build inside `load` or `commit`. `entries[key]` says whether the directory exists, what its
`manifest.json` records and what its outputs are. `FindEntry`, `ReadManifest`, `VerifyOutputs` are the steps
of a load, which a commit takes twice; `CopyOutputs` and `Describe` write outputs and manifest to `.commit-`,
`Publish` renames it; `LoseRace` finds the target taken, `Discard` drops the copy. `LoseEntry`, `MissManifest` and `RejectOutputs` are the ways
an entry disappears or turns out corrupt. `Stop` is an error or a kill. `Remove` and `Rot` are the owner's. The
mapping to `CacheContract` is the recorded manifest of each entry.

### BuildRun

A build drives a run directory (`disk[d]` is its `manifest.json`, which can be driven by several builds one
after the other) and has a `BuildResult` in memory. A key is the
record of what the cache key digests and a run can change: node, fingerprint, digests of the inputs. The
history variable `produced` collects what adapters really made, with which tools and of what.

* `Admit`: a build finds a directory empty or reads a manifest that says interrupted. `Start`: it takes the
  lock and writes its first manifest; a new run looks again whether the directory is empty, a resumed one does
  not look again. `Refuse`: the lock is taken, or the second look fails. `Block`, `FindNoAdapter`, `Fingerprint`,
  `FingerprintRaises`: the top of the loop. `LoadHits`, `LoadFindsCorrupt`, `LoadMisses`: the cache.
* `Snapshot`, `SnapshotFails`: the copies of the dependencies. `Execute`, `ExecuteOnModified`,
  `ExecuteRaises`: the adapter, with the tools installed at that moment. `Recheck`, `RecheckFails`: the second
  look at fingerprint and snapshots.
* `CommitCreates`, `CommitFinds`, `CommitFindsCorrupt`: the commit; the loser of a race records the
  winner's outputs.
* `Save`, `Finish`, `SaveLast`: the manifest after a node, the status, and the last manifest. `Interrupt` falls
  before or after the append of a result; `Die` is a kill, or a failure of the last write.
* `ChangeTool` and `DamageEntry` are the owner's.

Several builds may be admitted to one directory before one of them has its lock; what the first of them leaves the
second may run over, as the code has it (see `run_resumed`). How a directory is made, marked and locked step by step is
the subject of `RunDirectory`.

### RunDirectory

One directory, which is new, was left by a release that had no markers, or is foreign. The path from a command to
its first manifest is taken step by step:

* `Begin`, `BeginTour`: a command; `TourBuilds`, `TourResumes`, `TourEnds`: `_tour_build`, by the manifest.
* `FindMissing`, `MakeDirectory`, `List`, `Admit`, `Reject`: `_prepare_run_directory`. `seen` is what a process has
  listed; the manifest is read when it is admitted, before the lock. `Claim`, `WriteMarker`: the marker, which is
  created exclusively and then written.
* `OpenLock`, `Flock`, `FlockFails`: `_RunDirectoryLock`, which never waits. `Occupy`, `OccupyFails`: the second
  listing, after the lock, which refuses only runs without `--resume`.
* `WriteFirst`, `WriteLast`, `Unlock`: the run, of which `BuildRun` is the inside. `Stop` is a kill, or an error
  after which no manifest is written; it can fall between any two steps.

### ToolProcess

`tool` is the node's `run()`: the calls of `_run_capped` that are left, the place in the present one (`pc`), whether it
timed out and whether an interrupt unwinds it. `group` is the process group, a leader and at most one descendant, which
may hold the pipes. A byte of output is a unit and `Block` what one `read(8192)` asks for.

* `ToolStart`, `CopySource`, `Popen`, `PopenFails`, `RunReturns`, `CallReturns`: the handlers and `fingerprint()`, with what
  each of them makes of a failed, truncated or timed out call.
* `StartReaders`, `WaitReturns`, `WaitTimesOut`, `JoinReaders`, `JoinTimesOut`, `CloseStdout`, `CloseStderr`: the call.
  `PollFindsExit`, `TermGroup`, `GraceReturns`, `KillGroup`, `ReapKilled`: `_terminate_process_tree`.
* `ReadChunk`, `TakeLock`, `KeepChunk`, `ReadClosed`: one reader thread. `close()` waits for a thread that is inside
  `read()` of the same stream.
* `LeaderExits`, `LeaderObeys`, `ChildExits` are the processes' own; `ToolInterrupt` is Ctrl-C or SIGTERM at any step.

### PlanOrder

`LoadConfig` and `BuildPlan` are operators over a recipe's targets, adapter and format. `IndexNodes`, `PopReady` and
`EndSort` are `_node_map` and the loop of `topological_sort`, one pop a step. Ids are numbers in the order of the strings.
A run sorts what `BuildPlan` makes of every small recipe, and every small list of specs a library caller may hand over.

### ReleaseTour

`tour` is the process, `manifests` the two run directories, `entries` the cache, `demo` the demo input. Bytes are the term
they were computed from. `PrepareWrites` and `PrepareWritten` write the missing files of the input one after the other, of
which a stop leaves one missing or torn; `PrepareFinds` goes on with a good input and refuses a torn or edited one. A dependency
whose cache entry has gone or rotted since it was recorded fails the node at its snapshot (`CanSnapshot`). `LoadRefuses`, `ReuseRun`,
`RefuseRun` and `BeginBuild` are `_tour_build`, `FirstManifest`, `BuildNode` and `FinishBuild` the engine with one step per
node (`BuildRun` has the steps inside), `PrintDiff` the comparison, whose classes are `Change`. `InterruptTour` and
`KillTour` fall anywhere; the owner edits or removes the input, damages cache entries, upgrades the package and chooses a new
run root.

### UpdateNotice

Each process reads the cache file (`ReadCache`), asks (`Fetch`), and replaces the file in two steps (`WriteTemporary`,
`ReplaceCache`); any step can be its last (`NoticeStops`). An answer that the handlers of the code do not know ends the
process (`FetchRaises`). The clock is shared, does not go back, and moves on at any time.

### PublicEvidence, ReleaseGate

A piece of the record holds a number (`at`), which its digest tells apart, and what it is about (`of`): pieces that are
about one release pass the generator's cross checks. `gen.seen` is what the payload will name. Each action is one read of a
file that somebody may have replaced since the last one; `moment` remembers the world in which the last piece was first
read. The gate's stage, directories and bundle are sets of files; a copy, a scan and a removal are steps of their own, and a
failure or a kill falls between any two.

### CommandLine

A process starts `main()`, gives the update notice its turn unless it is disabled, dispatches one command and ends with
an exit code. The compositions conjoin the parts' actions with UNCHANGED of the others. One behaviour is about one part,
its `focus`, since the parts share nothing but the exit code; the notice, whose subject is concurrency, runs in two processes.

## 3. Runs

| run | bounds | shows |
|---|---|---|
| `ledger_cas` | 2 processes, 2 channels, one receipt path that they share, 2 manifests of one project, all five commands, 3 commands, 1 fault | `TypeOK`; chains never fork (`ChannelsChained`); compare-and-set (`DecisionsBound`); a receipt is consumed once; stored reviews have their own name although the file is read twice; answers hold; the store implements `AcceptedHistory` |
| `ledger_fair` | 2 processes, 1 channel, 2 projects, a candidate that is rewritten once, 3 commands, 1 fault | a channel stays with one project; without faults a channel nobody works on verifies, and locked commands raise no false alarm; every command ends |
| `ledger_pointer` | as above without legacy accepts, 4 commands, 1 fault | *violated*: docs/BASELINES.md:89 says `current.json` always identifies the terminal decision |
| `cache_races` | 3 builds, 1 key, 2 values, 3 calls, 1 fault, 2 damages | `OneCreator`, no half entry whatever is cut short (`NoHalfEntry`), and the cache implements `CacheContract` |
| `build_shared` | 2 builds of a chain of 2 nodes, one of which may lack an adapter, over 2 run directories; 2 tools, 2 values; of 1 fault, 1 change or breakdown of tools and 1 damage at most two (`AtMostTwo`) | `CacheSound`, `ManifestIsDerivation`, `RecordedIsCached`, `StatusTrue`, `ManifestIsOwn` |
| `build_broken` | 1 build of 4 nodes in 2 branches, a tool that breaks | *violated*: docs/ADAPTERS.md:12 says exceptions become a failed node |
| `run_races` | 3 processes, 2 recipes, 4 commands, 1 stop, 3 kinds of directory | `LockIsAlive`, `RunningIsOwned`, `NewRunsReplaceNothing`, `SomebodyRuns`, `RecipeIsKept`, `ForeignIsUntouched` |
| `run_resumed` | 2 processes, 3 commands, no stop | *violated*: engine.py:281 and 652 say that only an interrupted run is resumed |
| `command` | a tool call with a cap of 1, blocks of 2, 2 units over both pipes and 1 interrupt; recipes of up to 2 targets and lists of up to 3 specs over 3 ids; tours with 1 stop and 2 acts of the owner, at most two of these together (`AtMostTwo`), and 3 package versions; 2 update checks on a clock that ends at 4 (a day is 2); 2 gates, 1 of them broken, 2 releases, 1 replaced piece | what is kept of the output is honest (`RetainedIsHonest`) and every call ends, with the exceptions the property names (`ToolCallReturns`); `OrderIsTopological`; `DiffIsTrue`; `EvidenceIsOneMoment`, `BundleIsGated`, `DownloadsAgree`, `OnlyCutsBlock` |
| `tool_outlives` | 1 tool call with a timeout and a descendant | *violated*: docs/ADAPTERS.md:32-34 says that every subprocess has a timeout and children do not outlive the failed node |
| `notice` | 2 processes, a clock that ends at 4 (a day is 2) | *violated*: README.md:69 says that the server is asked at most once every 24 hours |
| `gate_channel` | 1 normal gate after the first release, 1 replaced piece | *violated*: docs/REAL_ACCEPTANCE.md:5-11 says that a changed current baseline fails the gate |

Why the bounds are enough. Every race the code guards against is between two actors (two accepts of one
channel, two commits of one key, a build and the owner), with a third as a witness in the cache, where a
loser may find the entry of the winner removed, and in the run directory, where one process runs while two
others decide. Three commands are a review, the accept of its receipt and a
competing or repeated accept; four are needed only by `ledger_pointer`. In the cache the third call finds what two
racing ones have left. One fault at every possible step
shows each partial write; the commands after it see what it left. A chain of two nodes has a
node with a dependency, which is what snapshots, derivations and blocking are about; two directories let builds meet
in one of them and in the cache alone. Two values tell a winner's outputs from a loser's. A cap of 1 and blocks
of 2 over two pipes fill the cap from either side, exceed it in one chunk, and race for its last unit; one interrupt at each step
of a call is what the code handles. Three nodes have every shape of cycle, order and listing; two targets are
one more than the shared conversion needs. A clock that begins at a day's length and ends at two has room for a check, its
overlaps and the next day's. One replaced piece at every step of the generator is the race its second reads guard against; a gate that breaks and a
gate after it show what a failure leaves behind. The counters (`MaxOps`, `MaxCalls`, `MaxFaults`,
`MaxEdits`, `MaxChanges`, `MaxDamage`, `MaxStarts`, `MaxStops`, `MaxInterrupts`, `MaxBytes`, `MaxTargets`, `MaxNodes`,
`MaxOwnerActs`, `MaxGates`, `MaxBreaks`, `MaxClock`) and the focus of `CommandLine` are the only bounds of the models;
the theorems hold for any value of them. Symmetry is used in `ledger_cas`, `build_shared` and `run_races`, which check no
liveness, between model values that no definition tells apart.

Deadlock is checked in the runs of the ledger, the cache, the builds and the run directory; the stuttering disjunct of
each `Next` (`Finished`) is enabled only when all work is done. In `command`, `tool_outlives` and `gate_channel` it is not: a session ends when
its command has ended and the owner, the clock and the counters are used up.

Fairness. It is assumed in two places. In `ledger_fair` a running command is weakly fair in its own next step, as the
operating system schedules it: nothing is assumed of the start of work, of faults or of the owner. The flock needs no fairness
of its own in this instance: a holder always releases it, by `finally` or by the kernel, and with finitely many commands a
waiter is not overtaken for ever. For a call of a configured tool (`command`, `tool_outlives`) time passes and the caller and
the readers are scheduled (weak fairness of `Caller` and of each `Reader`). Nothing is assumed of the tool and its descendants,
which may ignore SIGTERM and never exit. So `ToolCallReturns` names what the code does not prevent: a descendant that holds a
pipe and never ends keeps `close()` waiting for the reader (`HeldOpen`), and an interrupt in the middle of the termination leaves
a leader that nobody kills (`LeaderAbandoned`). The first of them is also what `tool_outlives` finds against the documents.

### What the violated runs say

* `ledger_pointer`: an accept that stops between the link of its decision (baseline.py:933) and the
  replacement of `current.json` (baseline.py:945) leaves a channel whose every later command fails. The code
  fails closed; the document promises more.
* `build_broken`: `adapter.fingerprint()` (engine.py:783) is outside the `try` that turns an exception into a
  failed node (engine.py:844), so it interrupts the whole run.
* `run_resumed`: two resumes are admitted by the same interrupted manifest (engine.py:654). The first one takes the
  lock, ends the run and releases the lock; the second one takes it (engine.py:690) and executes the run again, over
  a manifest that may say succeeded. Results do not get lost, since the cache has them; the record of the first run does.
* `tool_outlives`: SIGKILL is sent to the group only if the leader survives SIGTERM by two seconds (llamacpp.py:128), and SIGTERM
  only if the leader still runs (llamacpp.py:119). A descendant then outlives a leader that exits by itself or obeys; if it holds
  a pipe, `close()` (llamacpp.py:191) waits for it beyond every timeout, and the node never ends.
* `notice`: the cache file is replaced after the server was asked (update_check.py:143). Two processes that have both read the old
  file both ask; so does the next process if the first one could not write the file or ended before it.
* `gate_channel`: the normal gate validates the evidence against the packages and against itself
  (generate_public_evidence.py:1580) and does not open the baseline store. The binding to the channel is the generator's, when the
  record is made: a decision accepted afterwards does not fail the gate.

## 4. Proofs

All theorems hold for every value of the constants that satisfies the named assumption of the module
(`ConstantsAssumption`, `CacheAssumption`, `PlanAssumption`, `RunDirectoryAssumption`, `ToolAssumption`, `NoticeAssumption`, `EvidenceAssumption`, `GateAssumption`): typing of the constants, absent values that are
no values, for a plan an order without repetition in which dependencies come first, and for the notice that the server has
nothing older than the running version.

**BaselineLedgerProofs.** `TypeCorrect`, `ChainsNeverFork`. `Chained` is not inductive: a decision is drafted from
the terminal decision read some steps earlier. The invariant adds what each label knows (`terminal` is set
before it is used, the draft continues the terminal), that a process past the lock holds it, and that the
terminal a lock holder has read is still the last decision of its channel: nobody else appends while it holds
the flock.

`LedgerInv` extends this invariant in two directions. `StoreOK` is about the store: each review has the name of its digest and
each name one review, a decision is there with its manifest and with the review it consumed, no two records share a digest, a
receipt names a decision that exists, and all decisions of a channel have one project. `Knows` is about a command: what it has
checked (`Checks`), what it has stored (`Stores`) and what it is about to publish (`Publishes`), each from the step that
establishes it to the step that uses it. The other channels' commands, which share `manifests/` and `reviews/` without a common
lock, can only add to these, and that is why they stay true. From it:

* `ReviewsKeepTheirNames`: the bytes of the first read are compared with the receipt of the second;
* `ProjectsKept`: a receipt is grounded in the decision its reviewer saw, and that decision has the channel's project;
* `ReceiptsConsumedOnce`: the receipt's predecessor is the terminal decision, and a chain has one successor of each;
* `AnswersAreTrue`, where the lock holder's knowledge of the pointer is used at the moment of the answer.

`DecisionsAreBound` needs `CandidateInv`: what was parsed is what was hashed before, unless the candidate differs from it now.
The code compares the bytes before and after, so it cannot notice a candidate that is rewritten and then put back. That
is excluded by the hypothesis `NeverRestored`, an action property of the environment; the number of edits is free, and
`OneEditRestoresNothing` shows that the behaviours of the runs satisfy it. `UnlockedChannelsVerify` adds `WholeInv` (without
faults, a channel that is not whole is in the hands of a lock holder who is about to complete it), and `NoFalseAlarms`
`FoundInv`; the latter is about one channel and commands with a lock, for the reason given in section 5.

`StoreImplementsHistory` is the refinement. `NumberInv` says that the decisions of a channel are numbered from one to their
count. So the link of a decision maps to `Record` (at the end of the history, after the release its reviewer saw), the
replacement of the pointer to `Publish`, and every other step, of this or another channel, to a stutter.

**ArtifactCacheProofs.** `TypeCorrect`, `OneCreatorHolds`, `EntriesAreWhole`, `CacheImplementsContract`.
`CacheInv` adds to the types what each label's locals hold (`LocalsOf`), among them that a copy that is about to be renamed
is described truly, and that outputs that match a value match their own manifest (`EntriesWhole`): a rename publishes
both at once, and nothing is written under a key in any other way. `ClaimsFound` (who claims to have
created an entry finds it there) gives the uniqueness of the creator. The refinement maps every step to a put,
a clear, a reply or a stutter of the contract.

**BuildRunProofs.** `BuildInv` holds the types, what each label has in hand (`LocalsOf`), the nodes a build has
recorded, which are exactly those before its own (`Progress`, from the order of the plan), and that each recorded
key fits the results around it (`AllFit`). From it:

* `TypeCorrect`;
* `ManifestsAreOwn`, with `OwnInv`: a build past the lock is alone in its directory, and what is on disk there is what it
  has in memory, or "running" while it ends;
* `RecordsAreMade`, with `MadeInv`: what is cached or recorded was made of its key. Its core is `MadeBy`: whoever finds the tools
  of the key at the second fingerprint has used them. That fails only if the tools of a key are put back between the run of
  the adapter and the second fingerprint, which the code does not notice; the hypothesis `NeverPutBack` excludes this and no
  other replacement. `CacheIsSound` and `ManifestsAreDerivations` follow for the properties of the runs, which ask for at most one
  replacement (`NoRollback`): the first one puts nothing back (`FirstTools`);
* `StatusesAreTrue`, with `TruthInv`: a recorded node is blocked exactly when a dependency is bad, and if any
  node is bad some node has failed;
* `RecordedAreCached`, with `HeldInv`: as long as the owner damages nothing, entries only grow.

**RunDirectoryProofs.** `RunInv` adds to the types and to `LockIsAlive` what a process knows where it is
(`KnowledgeOf`: who was admitted to resume is of the manifest's recipe; who is about to write a first manifest without
resume has found none) and that a foreign directory has turned everybody away (`TurnedAway`). From it: `TypeCorrect`,
`LocksAreAlive`, `NewRunsAreNew`, `RecipesAreKept`, `ForeignersAreSafe`. `SomebodyAlwaysRuns` and `RunningsAreOwned` need
a second invariant for executions without stops, `Contest`: for each state of the directory there is a process that goes
on from it (`Busy`), which rests on the order the marker imposes (`Ordered`: one maker, nobody past the marker before it is
whole). A process that is refused the lock is no loss, because the holder goes on.

**ToolProcessProofs.** `RetainedHonest`: for any cap, block and amount of output, what the two threads keep is what they
have read so far, up to the cap, and the flag is true exactly when something was dropped. `ToolInv` adds that the reader that is
between `TakeLock` and `KeepChunk` holds the lock and that the room it has computed is still the room there is: that is what
the lock is for.

**PublicEvidenceProofs.** `RecordsOneMoment`. The generator's reads are numbered by `Place`. `Knows` says, for each place, what
has been recorded, what has been parsed and which of it is known to belong together; the knowledge only grows with the place.
The core is a squeeze: versions of a piece never come back, so a piece that looks the same before and after some other read
was that piece during the read. A parsed manifest lies between two equal digests of its file, and the moment in which the
last piece is first read lies between two equal looks at every other piece.

**ReleaseGateProofs.** `GatesRecordOneMoment` carries this over: gate and generator take turns (`TakeTurns`), so the packages
a gate builds anew never change under a generator. `BundlesAreGated` rests on `BundleInv`: the evidence file is sound by itself
at all times (an older one that is restored was sound, too), the packages of the stage are of one edition, and what the gate has
validated is about them until the stage is cleared. The theorem needs no hypothesis about the evidence file. `BlocksAreCuts` rests on `BlockInv`: outside of its clearing a stage
is empty, marked or foreign unless a gate was cut, and no step of a gate leaves a temporary file. `DownloadsHoldThePair` rests
on `DownloadInv`: a directory has one file of a name, a gate that has copied both kinds has them in it, and removing all other
names from such a directory leaves exactly the pair. `GateTypeCorrect` is the type invariant.

**CommandLineProofs.** `SessionRunsTools` and `SessionReleases`: each step of the composition is a step of the part or leaves it alone,
so `CommandSpec` implements `ToolSpec` and `GateSpec`, and what is proved of them holds in the specification that the
run `command` checks (`SessionRetainsHonestly`, `SessionReleasesSoundly`).

`OrdersAreTopological`, for recipes with any number of targets and for any listing of nodes a caller may hand over. `SortInv`
holds while nodes are popped (`Popping`): the degree of a node counts its dependencies that are not placed yet, a node is ready
when the count is zero, and each node placed so far was the least of those that were free when it was placed (`InPlace`). From
this follow that nothing is left out unless the rest is a cycle, and that the order does not depend on the listing. That a plan
of `BuildPlan` never fails is a second argument: its ids lie in layers (`Layer`) and depend on lower ones alone.

`DiffsAreTrue`, for any package versions, acts of the owner and stops. `TourInv` says that each of the two manifests has been filled
by one package over one demo input, a resumed run included; that what an intact cache entry holds is what its key determines;
that in the second run, as long as nobody has touched anything since the baseline (`Undisturbed`), every node finds its entry
(`Reuses`); and that the nodes the second run has left are those the manifest lacks.

`SessionTypesCorrect` is the type invariant of the whole session. Its types speak of data: what a build writes is what
`load_manifest` accepts, so that a tour never refuses its own manifest, and a version in the notice's cache file is one that the
server has announced (`VersionsInv`).

**Checked by TLC alone.** Liveness (`CommandsEnd`, `ToolCallReturns`): it depends on fairness, which the
prover does not reach. Every invariant, action property and refinement of the passing runs is proved.

## 5. What is not modelled, and known limits

* Formats, digests and canonical JSON; file modes, symlink and hard-link refusal, directory hardening.
  Digests have no collisions.
* `verify` and `current` take no lock, and the lock is per channel while `manifests/` and `reviews/` are
  shared. The models let such a reader report corruption it sees in the temporary file of a healthy accept;
  `NoFalseAlarm` therefore speaks of locked commands over one channel.
* A killed command may leave a `.record-` file or a channel without `decisions/`. The store stays consistent but
  refuses further work. Nothing is claimed about recovery, which no document promises.
* A candidate that is rewritten *and restored* between two reads of one command, and tools that are replaced and
  put back between two fingerprints; in the same way, pieces of the evidence that are replaced and restored.
* `.commit-` directories of killed commits: nobody ever reads them.
* The source of a plan is fixed: a source that changed after planning stops a run before its first manifest.
* A run killed before its first manifest leaves a directory that can be neither used nor resumed, and one killed later a
  manifest that says running for ever. `RunDirectory` has both; no document promises a recovery.
* In `RunDirectory` paths are resolved and inodes are not swapped; the owner does not delete the directory.
* The modes, permissions and wording of what the scripts check; the contents of the site and the fixture story are steps
  that pass or fail.
* Parts listed as `not_modelled` in `PROJECT.json`, each with its reason: hashing, the HTML report and the site have no state
  and no interaction; the models use bytes as their own digest.

What the models show of the code beside the violated runs:

* A cache file of the notice that is stamped in the future suppresses checks until that time. Of two overlapping checks the later
  writer may have begun first and put an older stamp and answer in the place of a newer one.
* An answer of the server without a status line, or cut short, raises an `http.client.HTTPException` that neither
  update_check.py:108 nor 179 catches: it passes `main()` and ends the command with a traceback before it began. The comment at
  update_check.py:180 says that a notice must never block a build.
* A legacy decision whose manifest is reviewed afterwards, as the message of `baseline check` asks for (baseline.py:797), cannot be
  accepted with that receipt (baseline.py:885).
* `_source_digest` raises a `ValueError` that `main()` does not catch: a demo input edited between plan and run ends in a
  traceback and leaves a run directory with no manifest, which later tours refuse.
* A gate killed while it clears its stage may have removed the marker first, and one killed while it copies a package leaves a
  temporary file that no later gate accepts: both need a cleaning by hand (`OnlyCutsBlock` says that nothing else does).
* The evidence file is copied into the bundle after it was validated, and not looked at again: what a docstring calls "already
  validated public files" (release_check.py:1201) is what the file holds by then. `BundleIsGated` is about what was validated.

## 6. Plan

Done: every component with state is modelled, and every safety property the passing runs check is proved. What is left:

1. Liveness stays with TLC, and with it the bounds of the runs.
2. `NoFalseAlarm` beyond one channel would need a property that says which temporary files a verification may meet.
