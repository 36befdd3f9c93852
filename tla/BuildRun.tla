------------------------------ MODULE BuildRun ------------------------------
(***************************************************************************)
(* BuildEngine.run (engine.py): builds that execute the nodes of one plan  *)
(* in order, each in a run directory that others may want too, over a      *)
(* shared cache and the same installed tools.                              *)
(*                                                                         *)
(* A key is what the cache key digests that can differ between the nodes   *)
(* and the runs of a plan: the node, the adapter's fingerprint and the     *)
(* digests of the dependencies' outputs.  A value is the outputs of a node *)
(* by their digests.  `produced' is history: who made which value of what. *)
(* cache.load and cache.commit are atomic here, which is the contract that *)
(* ArtifactCache implements; RunDirectory has the steps by which a build is*)
(* admitted to a directory and takes its lock.                             *)
(***************************************************************************)
EXTENDS Naturals, Sequences

CONSTANTS
    Builds, Dirs, NoDir, Nodes,
    Deps,           \* the dependencies of each node
    Order,          \* topological_sort of the plan
    Optional,       \* nodes of a kind that not every engine has an adapter for
    Tools,          \* fingerprints of the installed tools
    Broken,         \* no fingerprint can be taken
    Values, NoValue, NoKey,
    MaxFaults,      \* bound: interrupts, failed writes and kills
    MaxChanges,     \* bound: upgrades and breakdowns of the tools
    MaxDamage       \* bound: entries damaged or removed by the owner

Keys == UNION {[node : {n}, tool : Tools, inputs : [Deps[n] -> Values]] : n \in Nodes}

ASSUME PlanAssumption ==
    /\ Deps \in [Nodes -> SUBSET Nodes]
    /\ Order \in Seq(Nodes) /\ Len(Order) > 0
    /\ \A n \in Nodes : \E i \in 1..Len(Order) : Order[i] = n
    /\ \A i, j \in 1..Len(Order) : /\ Order[i] = Order[j] => i = j
                                   /\ Order[j] \in Deps[Order[i]] => j < i
    /\ Optional \subseteq Nodes /\ NoDir \notin Dirs
    /\ Broken \notin Tools /\ NoValue \notin Values /\ NoKey \notin Keys
    /\ {MaxFaults, MaxChanges, MaxDamage} \subseteq Nat

Good == {"produced", "cache_hit"}
Bad == {"failed", "blocked"}

Result == [state : {"pending"} \union Good \union Bad, key : Keys \union {NoKey},
           value : Values \union {NoValue}]
Pending == [state |-> "pending", key |-> NoKey, value |-> NoValue]

(* A manifest.json; there is none yet in a new run directory.              *)
Manifest == [status : {"none", "running", "interrupted", "succeeded", "failed"},
             results : [Nodes -> Result]]
NoManifest == [status |-> "none", results |-> [n \in Nodes |-> Pending]]

VARIABLES
    entries,    \* the cache: [key, value, intact]
    tool,       \* what the adapters' fingerprint() would return now
    produced,   \* history: [key, value] of every adapter run
    disk,       \* the manifest of each run directory
    dir,        \* the run directory each build was admitted to
    pc, memory, \* each build: position, and its BuildResult
    at,         \* how many nodes it has done
    key,        \* cache_key of the node it is at
    result,     \* the result it is about to record
    faults, changes, damage

world == <<entries, tool, produced, changes, damage>>
vars == <<entries, tool, produced, disk, dir, pc, memory, at, key, result,
          faults, changes, damage>>

Init ==
    /\ entries = {} /\ tool \in Tools /\ produced = {}
    /\ disk = [d \in Dirs |-> NoManifest]
    /\ dir = [p \in Builds |-> NoDir]
    /\ pc = [p \in Builds |-> "over"]
    /\ memory = [p \in Builds |-> NoManifest]
    /\ at = [p \in Builds |-> 0]
    /\ key = [p \in Builds |-> NoKey]
    /\ result = [p \in Builds |-> Pending]
    /\ faults = 0 /\ changes = 0 /\ damage = 0

Node(p) == Order[at[p] + 1]
Done(p) == memory[p].results
EntryAt(k) == {e \in entries : e.key = k}
Goto(p, label) == pc' = [pc EXCEPT ![p] = label]

(* The outputs directory of a dependency still has the recorded digests.   *)
OutputsHold(r) == [key |-> r.key, value |-> r.value, intact |-> TRUE] \in entries

-----------------------------------------------------------------------------
(* run: the directory must be empty, or for a resume hold a manifest that  *)
(* says interrupted.  It is not locked yet.                                *)
Admit(p) ==
    /\ pc[p] = "over"
    /\ \E d \in Dirs :
          /\ disk[d].status \in {"none", "interrupted"}
          /\ dir' = [dir EXCEPT ![p] = d]
          /\ Goto(p, IF disk[d].status = "none" THEN "new" ELSE "resume")
    /\ UNCHANGED <<world, disk, memory, at, key, result, faults>>

(* A build holds the lock of its directory from its first manifest to its  *)
(* last.                                                                   *)
Waiting == {"over", "new", "resume"}
Locked(d) == \E q \in Builds : pc[q] \notin Waiting /\ dir[q] = d

(* Mutant of Start: the lock is not taken.                                 *)
StartUnlocked(p) ==
    /\ pc[p] \in {"new", "resume"}
    /\ pc[p] = "new" => disk[dir[p]].status = "none"
    /\ memory' = [memory EXCEPT ![p] = [NoManifest EXCEPT !.status = "running"]]
    /\ disk' = [disk EXCEPT ![dir[p]] = memory'[p]]
    /\ Goto(p, "node")
    /\ UNCHANGED <<world, dir, at, key, result, faults>>

(* Behind the lock a new run looks again whether the directory is empty; a *)
(* resumed one does not read the manifest it was admitted by again: it     *)
(* forgets the former results, also those of a run that has ended since.   *)
Start(p) ==
    /\ pc[p] \in {"new", "resume"} /\ ~Locked(dir[p])
    /\ pc[p] = "new" => disk[dir[p]].status = "none"
    /\ memory' = [memory EXCEPT ![p] = [NoManifest EXCEPT !.status = "running"]]
    /\ disk' = [disk EXCEPT ![dir[p]] = memory'[p]]
    /\ Goto(p, "node")
    /\ UNCHANGED <<world, dir, at, key, result, faults>>

(* The process goes, and with it all it knew and its lock.                 *)
Leave(p) ==
    /\ Goto(p, "over")
    /\ dir' = [dir EXCEPT ![p] = NoDir]
    /\ memory' = [memory EXCEPT ![p] = NoManifest]
    /\ at' = [at EXCEPT ![p] = 0]
    /\ key' = [key EXCEPT ![p] = NoKey]
    /\ result' = [result EXCEPT ![p] = Pending]

Refuse(p) ==
    /\ pc[p] \in {"new", "resume"}
    /\ \/ Locked(dir[p])
       \/ pc[p] = "new" /\ disk[dir[p]].status # "none"
    /\ Leave(p)
    /\ UNCHANGED <<world, disk, faults>>

(* The node ends in this result, which Save records.                       *)
Yield(p, state, k, v) ==
    /\ result' = [result EXCEPT ![p] = [state |-> state, key |-> k, value |-> v]]
    /\ Goto(p, "save")
    /\ UNCHANGED <<disk, dir, memory, at, key, faults>>

Proceed(p, label) ==
    /\ Goto(p, label)
    /\ UNCHANGED <<disk, dir, memory, at, key, result, faults>>

(* Mutant of IsBlocked: what has failed itself is overlooked.              *)
BehindBlocked(p) == \E d \in Deps[Node(p)] : Done(p)[d].state = "blocked"

IsBlocked(p) == \E d \in Deps[Node(p)] : Done(p)[d].state \in Bad

Block(p) ==
    /\ pc[p] = "node" /\ IsBlocked(p)
    /\ Yield(p, "blocked", NoKey, NoValue)
    /\ UNCHANGED world

(* The registry of the engine that runs this build has none for the kind.  *)
FindNoAdapter(p) ==
    /\ pc[p] = "node" /\ ~IsBlocked(p) /\ Node(p) \in Optional
    /\ Yield(p, "failed", NoKey, NoValue)
    /\ UNCHANGED world

KeyOf(p) == [node |-> Node(p), tool |-> tool,
             inputs |-> [d \in Deps[Node(p)] |-> Done(p)[d].value]]

(* Mutant of Fingerprint: that it cannot be taken is overlooked.           *)
FingerprintAny(p) ==
    /\ pc[p] = "node" /\ ~IsBlocked(p)
    /\ key' = [key EXCEPT ![p] = KeyOf(p)]
    /\ Goto(p, "lookup")
    /\ UNCHANGED <<world, disk, dir, memory, at, result, faults>>

Fingerprint(p) ==
    /\ pc[p] = "node" /\ ~IsBlocked(p)
    /\ tool # Broken
    /\ key' = [key EXCEPT ![p] = KeyOf(p)]
    /\ Goto(p, "lookup")
    /\ UNCHANGED <<world, disk, dir, memory, at, result, faults>>

(* Outside of the try block around the adapter: the whole run is aborted.  *)
FingerprintRaises(p) ==
    /\ pc[p] = "node" /\ ~IsBlocked(p)
    /\ tool = Broken
    /\ memory' = [memory EXCEPT ![p].status = "interrupted"]
    /\ Goto(p, "abort")
    /\ UNCHANGED <<world, disk, dir, at, key, result, faults>>

-----------------------------------------------------------------------------
LoadHits(p) ==
    /\ pc[p] = "lookup"
    /\ \E e \in EntryAt(key[p]) : e.intact /\ Yield(p, "cache_hit", key[p], e.value)
    /\ UNCHANGED world

LoadFindsCorrupt(p) ==
    /\ pc[p] = "lookup" /\ \E e \in EntryAt(key[p]) : ~e.intact
    /\ Yield(p, "failed", key[p], NoValue)
    /\ UNCHANGED world

LoadMisses(p) ==
    /\ pc[p] = "lookup" /\ EntryAt(key[p]) = {}
    /\ Proceed(p, "snapshot") /\ UNCHANGED world

Snapshot(p) ==
    /\ pc[p] = "snapshot" /\ \A d \in Deps[Node(p)] : OutputsHold(Done(p)[d])
    /\ Proceed(p, "execute") /\ UNCHANGED world

SnapshotFails(p) ==
    /\ pc[p] = "snapshot" /\ \E d \in Deps[Node(p)] : ~OutputsHold(Done(p)[d])
    /\ Yield(p, "failed", key[p], NoValue)
    /\ UNCHANGED world

(* The adapter runs the tools that are installed now.                      *)
Execute(p) ==
    /\ pc[p] = "execute" /\ tool # Broken
    /\ \E v \in Values :
        /\ produced' = produced \union {[key |-> [key[p] EXCEPT !.tool = tool], value |-> v]}
        /\ result' = [result EXCEPT ![p] = [state |-> "produced", key |-> key[p], value |-> v]]
    /\ Goto(p, "recheck")
    /\ UNCHANGED <<entries, tool, changes, damage, disk, dir, memory, at, key, faults>>

(* It leaves outputs made of snapshots it has itself modified.             *)
ExecuteOnModified(p) ==
    /\ pc[p] = "execute" /\ tool # Broken
    /\ \E v \in Values :
          result' = [result EXCEPT ![p] = [state |-> "produced", key |-> key[p], value |-> v]]
    /\ Goto(p, "modified")
    /\ UNCHANGED <<world, disk, dir, memory, at, key, faults>>

ExecuteRaises(p) ==
    /\ pc[p] = "execute"
    /\ Yield(p, "failed", key[p], NoValue)
    /\ UNCHANGED world

(* Mutants of Recheck: the fingerprint, the snapshots are not looked at.   *)
RecheckSnapshots(p) ==
    /\ pc[p] = "recheck"
    /\ Proceed(p, "commit") /\ UNCHANGED world

RecheckFingerprint(p) ==
    /\ pc[p] \in {"recheck", "modified"} /\ tool = key[p].tool
    /\ Proceed(p, "commit") /\ UNCHANGED world

Recheck(p) ==
    /\ pc[p] = "recheck" /\ tool = key[p].tool
    /\ Proceed(p, "commit") /\ UNCHANGED world

RecheckFails(p) ==
    /\ \/ pc[p] = "modified"
       \/ pc[p] = "recheck" /\ tool # key[p].tool
    /\ Yield(p, "failed", key[p], NoValue)
    /\ UNCHANGED world

CommitCreates(p) ==
    /\ pc[p] = "commit" /\ EntryAt(key[p]) = {}
    /\ entries' = entries \union {[key |-> key[p], value |-> result[p].value, intact |-> TRUE]}
    /\ Proceed(p, "save")
    /\ UNCHANGED <<tool, produced, changes, damage>>

(* Mutant of CommitFinds: the loser records the outputs it has made.       *)
CommitKeepsOwn(p) ==
    /\ pc[p] = "commit" /\ \E e \in EntryAt(key[p]) : e.intact
    /\ Yield(p, "cache_hit", key[p], result[p].value)
    /\ UNCHANGED world

CommitFinds(p) ==
    /\ pc[p] = "commit"
    /\ \E e \in EntryAt(key[p]) : e.intact /\ Yield(p, "cache_hit", key[p], e.value)
    /\ UNCHANGED world

CommitFindsCorrupt(p) ==
    /\ pc[p] = "commit" /\ \E e \in EntryAt(key[p]) : ~e.intact
    /\ Yield(p, "failed", key[p], NoValue)
    /\ UNCHANGED world

-----------------------------------------------------------------------------
(* The manifest.                                                           *)

Recorded(p) == [memory[p] EXCEPT !.results[Node(p)] = result[p]]

(* results.append, and the manifest is replaced on disk.                   *)
Save(p) ==
    /\ pc[p] = "save"
    /\ memory' = [memory EXCEPT ![p] = Recorded(p)]
    /\ disk' = [disk EXCEPT ![dir[p]] = Recorded(p)]
    /\ at' = [at EXCEPT ![p] = @ + 1]
    /\ Goto(p, IF at[p] + 1 = Len(Order) THEN "finish" ELSE "node")
    /\ UNCHANGED <<world, dir, key, result, faults>>

Finish(p) ==
    /\ pc[p] = "finish"
    /\ memory' = [memory EXCEPT ![p].status =
                     IF \E n \in Nodes : Done(p)[n].state \in Bad THEN "failed" ELSE "succeeded"]
    /\ Goto(p, "final")
    /\ UNCHANGED <<world, disk, dir, at, key, result, faults>>

(* The last manifest of a run: its outcome, or that it was interrupted.    *)
SaveLast(p) ==
    /\ pc[p] \in {"final", "abort"}
    /\ disk' = [disk EXCEPT ![dir[p]] = memory[p]]
    /\ Leave(p)
    /\ UNCHANGED <<world, faults>>

(* A KeyboardInterrupt, or a manifest that cannot be written, before or    *)
(* after the node's result was appended.                                   *)
Interrupt(p) ==
    /\ pc[p] \notin Waiting \union {"final", "abort"} /\ faults < MaxFaults
    /\ \E m \in {memory[p]} \union (IF pc[p] = "save" THEN {Recorded(p)} ELSE {}) :
          memory' = [memory EXCEPT ![p] = [m EXCEPT !.status = "interrupted"]]
    /\ Goto(p, "abort")
    /\ faults' = faults + 1
    /\ UNCHANGED <<world, disk, dir, at, key, result>>

(* A kill, or an interrupt of the last write, which is not tried again.  A *)
(* build that dies before its first manifest leaves no trace here.         *)
Die(p) ==
    /\ pc[p] \notin Waiting /\ faults < MaxFaults
    /\ Leave(p)
    /\ faults' = faults + 1
    /\ UNCHANGED <<world, disk>>

-----------------------------------------------------------------------------
(* The owner: tools are upgraded or break, entries are lost or damaged.    *)

ChangeTool ==
    /\ changes < MaxChanges
    /\ \E t \in Tools \union {Broken} : t # tool /\ tool' = t
    /\ changes' = changes + 1
    /\ UNCHANGED <<entries, produced, damage, disk, dir, pc, memory, at, key, result, faults>>

DamageEntry ==
    /\ damage < MaxDamage
    /\ \E e \in entries :
          \/ entries' = entries \ {e}
          \/ e.intact /\ entries' = (entries \ {e}) \union {[e EXCEPT !.intact = FALSE]}
    /\ damage' = damage + 1
    /\ UNCHANGED <<tool, produced, changes, disk, dir, pc, memory, at, key, result, faults>>

Finished ==
    /\ \A p \in Builds : pc[p] = "over"
    /\ \A d \in Dirs : disk[d].status \notin {"none", "interrupted"}
    /\ UNCHANGED vars

Step(p) ==
    \/ Block(p) \/ FindNoAdapter(p) \/ Fingerprint(p) \/ FingerprintRaises(p)
    \/ LoadHits(p) \/ LoadFindsCorrupt(p) \/ LoadMisses(p)
    \/ Snapshot(p) \/ SnapshotFails(p)
    \/ Execute(p) \/ ExecuteOnModified(p) \/ ExecuteRaises(p)
    \/ Recheck(p) \/ RecheckFails(p)
    \/ CommitCreates(p) \/ CommitFinds(p) \/ CommitFindsCorrupt(p)
    \/ Save(p) \/ Finish(p) \/ SaveLast(p)

Next ==
    \/ \E p \in Builds : Admit(p) \/ Start(p) \/ Refuse(p) \/ Step(p) \/ Interrupt(p) \/ Die(p)
    \/ ChangeTool \/ DamageEntry \/ Finished

Spec == Init /\ [][Next]_vars

-----------------------------------------------------------------------------
(* Every variable keeps its type.                                          *)
TypeOK ==
    /\ entries \subseteq [key : Keys, value : Values, intact : BOOLEAN]
    /\ tool \in Tools \union {Broken}
    /\ produced \subseteq [key : Keys, value : Values]
    /\ disk \in [Dirs -> Manifest] /\ memory \in [Builds -> Manifest]
    /\ dir \in [Builds -> Dirs \union {NoDir}]
    /\ pc \in [Builds -> Waiting \union
                {"node", "lookup", "snapshot", "execute", "recheck", "modified", "commit",
                 "save", "finish", "final", "abort"}]
    /\ \A p \in Builds : pc[p] # "over" => dir[p] \in Dirs
    /\ at \in [Builds -> 0..Len(Order)]
    /\ key \in [Builds -> Keys \union {NoKey}]
    /\ result \in [Builds -> Result]
    /\ faults \in 0..MaxFaults /\ changes \in 0..MaxChanges /\ damage \in 0..MaxDamage

(* The fingerprint is taken before and after the adapter runs: tools that  *)
(* are replaced and put back in between are not noticed.                   *)
NoRollback == changes < 2

(* What the cache holds for a key was made by an adapter run of that very  *)
(* node, by the tools of that fingerprint, from those inputs, although the *)
(* tools may change and the adapter may modify its inputs while it runs.   *)
CacheSound ==
    NoRollback => \A e \in entries : [key |-> e.key, value |-> e.value] \in produced

(* A manifest on disk is a derivation at any time: each recorded output    *)
(* was made, in this build or another one, from the outputs the same       *)
(* manifest records for the dependencies.                                  *)
ManifestIsDerivation ==
    NoRollback => \A d \in Dirs, n \in Nodes :
        LET r == disk[d].results[n]
        IN r.state \in Good =>
             /\ r.key.node = n
             /\ [key |-> r.key, value |-> r.value] \in produced
             /\ \A m \in Deps[n] : /\ disk[d].results[m].state \in Good
                                   /\ disk[d].results[m].value = r.key.inputs[m]

(* The status of a manifest is what its nodes say, and a node is blocked   *)
(* exactly when one of its dependencies has failed or is blocked.          *)
StatusTrue ==
    \A d \in Dirs :
        LET state(n) == disk[d].results[n].state
        IN /\ disk[d].status = "succeeded" => \A n \in Nodes : state(n) \in Good
           /\ disk[d].status = "failed" =>
                /\ \A n \in Nodes : state(n) # "pending"
                /\ \E n \in Nodes : state(n) = "failed"
           /\ \A n \in Nodes : state(n) # "pending" =>
                (state(n) = "blocked" <=> \E m \in Deps[n] : state(m) \in Bad)

(* Every recorded output is in the cache, unless the owner has damaged or  *)
(* removed an entry: also after a lost race, an interrupt or a kill.       *)
RecordedIsCached ==
    damage = 0 => \A d \in Dirs, n \in Nodes :
        disk[d].results[n].state \in Good => OutputsHold(disk[d].results[n])

(* The manifest of a directory is that of the build which runs in it, as   *)
(* this build last wrote it, although others were admitted to the same     *)
(* directory before the lock was taken: no new, resumed, refused or dead   *)
(* build has written over it (_RunDirectoryLock, "run directory is locked").*)
ManifestIsOwn ==
    \A p \in Builds : pc[p] \notin Waiting =>
        IF pc[p] \in {"final", "abort"} THEN disk[dir[p]].status = "running"
                                       ELSE disk[dir[p]] = memory[p]

(* docs/ADAPTERS.md: `Exceptions become a failed node, and descendants     *)
(* become blocked': an adapter that raises does not abort the run.         *)
ExceptionFailsNode ==
    [][\A p \in Builds :
          pc[p] # "abort" /\ pc'[p] = "abort" => faults' # faults]_vars
=============================================================================
