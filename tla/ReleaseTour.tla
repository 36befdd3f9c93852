---------------------------- MODULE ReleaseTour ----------------------------
(***************************************************************************)
(* "modelbake tour" (cli.py): the built-in demo input is written, a        *)
(* baseline and then a candidate with one more target are built by the     *)
(* fixture adapter (adapters/fixture.py) over one cache, and the two       *)
(* manifests are compared (compare.py).  A tour can be interrupted or      *)
(* killed at any step and is run again in the same directory, while the    *)
(* owner of the files edits the input, removes or damages cache entries    *)
(* and upgrades the package.                                               *)
(*                                                                         *)
(* A node is built in one step: BuildRun has the steps inside of it.  Bytes*)
(* are the term they were computed from, and their own digest.             *)
(***************************************************************************)
EXTENDS PlanOrder

CONSTANTS
    Adapters,       \* versions of the package: <<revision, what it writes>>
    MaxOwnerActs,   \* bound: what the owner does meanwhile
    MaxStops        \* bound: interrupts and kills

ASSUME TourAssumption ==
    /\ Adapters # {} /\ \A adapter \in Adapters : DOMAIN adapter = {1, 2}
    /\ {MaxOwnerActs, MaxStops} \subseteq Nat

VARIABLES
    tour,       \* the tour that runs: its place, its build
    manifests,  \* what each story's run directory holds
    entries,    \* the cache: the bytes of each key, damaged or not
    demo,       \* the files of .modelbake/demo-input-v1: right, some not there yet,
                \* one torn, one edited, none
    adapter,    \* the installed package
    undisturbed,\* no act of the owner since the baseline was first built
    bounds      \* owner's acts and stops so far

tourVars == <<tour, manifests, entries, demo, adapter, undisturbed, bounds>>

Stories == {"baseline", "candidate"}
Q4 == [name |-> 1, quantization |-> "Q4_0"]
Q8 == [name |-> 2, quantization |-> "Q8_0"]
BuiltIn == [baseline |-> <<Q4>>, candidate |-> <<Q4, Q8>>]

NoTour == [pc |-> "idle", story |-> "baseline", left |-> << >>, planned |-> "none",
           exit |-> "none"]
Nothing == [none |-> TRUE]     \* no output, no key
NoManifest == [status |-> "none", source |-> "none", nodes |-> << >>]
Litter == [NoManifest EXCEPT !.status = "litter"]

TourInit ==
    /\ tour = NoTour
    /\ manifests = [story \in Stories |-> NoManifest]
    /\ entries = {}
    /\ demo = "absent"
    /\ adapter = CHOOSE first \in Adapters : TRUE
    /\ undisturbed = TRUE
    /\ bounds = [acts |-> 0, stops |-> 0]

At(label) == [tour EXCEPT !.pc = label]
Exit(code) == [NoTour EXCEPT !.exit = code]
TourRuns == tour.pc # "idle"

StartTour ==
    /\ tour.pc = "idle"
    /\ tour' = [NoTour EXCEPT !.pc = "prepare"]
    /\ UNCHANGED <<manifests, entries, demo, adapter, undisturbed, bounds, sort>>

-----------------------------------------------------------------------------
(* _prepare_builtin_demo_recipe: the missing files are written in place,   *)
(* one after the other; a file with other bytes, an edited one or one that *)
(* a stop has left torn, is refused.                                       *)
PrepareWrites ==
    /\ tour.pc = "prepare" /\ demo \in {"absent", "missing"}
    /\ demo' = "torn" /\ tour' = At("write")
    /\ UNCHANGED <<manifests, entries, adapter, undisturbed, bounds, sort>>

PrepareWritten ==
    /\ tour.pc = "write"
    /\ demo' \in {"missing", "good"}
    /\ tour' = At(IF demo' = "good" THEN "look" ELSE "prepare")
    /\ UNCHANGED <<manifests, entries, adapter, undisturbed, bounds, sort>>

PrepareFinds ==
    /\ tour.pc = "prepare" /\ demo \in {"good", "torn", "edited"}
    /\ tour' = IF demo = "good" THEN At("look") ELSE Exit("usage")
    /\ UNCHANGED <<manifests, entries, demo, adapter, undisturbed, bounds, sort>>

-----------------------------------------------------------------------------
(* The fixture handlers: what a node's files hold.  The source node copies *)
(* what the plan digested, or fails.                                       *)
NodeConfig(id) == [id |-> id, quantization |-> IF id \in {Quantize(Q4), Smoke(Q4)} THEN "Q4_0"
                                                ELSE IF id \in {Quantize(Q8), Smoke(Q8)}
                                                THEN "Q8_0" ELSE "F16"]

FixtureOutput(id, inputs, source) ==
    [writes |-> adapter[2], node |-> NodeConfig(id), inputs |-> inputs,
     source |-> IF id = Source THEN source ELSE "none"]

(* Mutant of NodeKey: the recipe is part of the key.                       *)
RecipeKey(id, inputs, source) ==
    [node |-> NodeConfig(id), inputs |-> inputs, root |-> IF id = Source THEN source ELSE "none",
     adapter |-> adapter, recipe |-> tour.story]

NodeKey(id, inputs, source) ==
    [node |-> NodeConfig(id), inputs |-> inputs, root |-> IF id = Source THEN source ELSE "none",
     adapter |-> adapter]

Cached(key) == \E entry \in entries : entry.key = key
Entry(key) == CHOOSE entry \in entries : entry.key = key

(* verify_manifest: every recorded output is there and has the recorded    *)
(* bytes, and there is one.                                                *)
Verified(manifest) ==
    LET recorded == {[key |-> node.key, bytes |-> node.output, sound |-> TRUE] :
                        node \in {n \in Elements(manifest.nodes) : n.output # Nothing}}
    IN recorded # {} /\ recorded \subseteq entries

(* _tour_build                                                             *)
Plan(story) == BuildPlan(BuiltIn[story])
AfterStory(story) == IF story = "baseline"
                     THEN [tour EXCEPT !.pc = "prepare", !.story = "candidate"]
                     ELSE At("compare")

BuildsNow(manifest) == manifest.status \in {"none", "interrupted"}

(* load_manifest refuses a prior manifest that contradicts itself, and     *)
(* load_config an input that has been removed since it was prepared.       *)
HasOutput == {"produced", "fixture_observed", "cache_hit"}
HasFailed == {"failed", "blocked"}
States(manifest) == {node.state : node \in Elements(manifest.nodes)}

Loads(manifest) ==
    /\ manifest.status \in {"running", "succeeded", "failed", "interrupted"}
    /\ \A i, j \in DOMAIN manifest.nodes : manifest.nodes[i].id = manifest.nodes[j].id => i = j
    /\ States(manifest) \subseteq HasOutput \union HasFailed
    /\ \A node \in Elements(manifest.nodes) : node.state \in HasOutput => node.output # Nothing
    /\ manifest.status = "succeeded" =>
          /\ \E node \in Elements(manifest.nodes) : node.output # Nothing
          /\ States(manifest) \intersect HasFailed = {}
    /\ manifest.status = "failed" => States(manifest) \intersect HasFailed # {}

LoadRefuses ==
    LET prior == manifests[tour.story]
        spoilt == prior.status \notin {"none", "litter"} /\ ~Loads(prior)
    IN /\ tour.pc = "look" /\ (spoilt \/ demo = "absent")
       /\ tour' = Exit(IF spoilt THEN "io" ELSE "usage")
       /\ UNCHANGED <<manifests, entries, demo, adapter, undisturbed, bounds, sort>>

BeginBuild ==
    /\ tour.pc = "look" /\ demo # "absent" /\ BuildsNow(manifests[tour.story])
    /\ tour' = [tour EXCEPT !.pc = "sort", !.planned = demo]
    /\ StartSort(Plan(tour.story), TRUE)
    /\ undisturbed' = (tour.story = "baseline" \/ undisturbed)
    /\ UNCHANGED <<manifests, entries, demo, adapter, bounds>>

ReuseRun ==
    /\ tour.pc = "look" /\ demo # "absent" /\ Loads(manifests[tour.story])
    /\ manifests[tour.story].status = "succeeded"
    /\ tour' = IF Verified(manifests[tour.story]) THEN AfterStory(tour.story) ELSE Exit("io")
    /\ UNCHANGED <<manifests, entries, demo, adapter, undisturbed, bounds, sort>>

(* A run that is running or failed, and a directory that a stop or an      *)
(* error before the first manifest has left with something in it.          *)
RefuseRun ==
    /\ tour.pc = "look" /\ demo # "absent"
    /\ manifests[tour.story].status \in {"running", "failed", "litter"}
    /\ tour' = Exit("io")
    /\ UNCHANGED <<manifests, entries, demo, adapter, undisturbed, bounds, sort>>

Littered == IF manifests[tour.story] = NoManifest
            THEN [manifests EXCEPT ![tour.story] = Litter] ELSE manifests

(* BuildEngine.run: the order, the source digest (whose ValueError main()  *)
(* does not catch), the first manifest.                                    *)
OrderNodes == tour.pc = "sort" /\ SortStep /\ UNCHANGED tourVars

FirstManifest ==
    /\ tour.pc = "sort" /\ sort.pc = "ended"
    /\ sort' = NotSorting
    /\ IF sort.error = "none" /\ demo = tour.planned
       THEN /\ manifests' = [manifests EXCEPT ![tour.story] =
                                [status |-> "running", source |-> tour.planned, nodes |-> << >>]]
            /\ tour' = [tour EXCEPT !.pc = "build", !.left = sort.ordered]
       ELSE tour' = Exit("traceback") /\ manifests' = Littered
    /\ UNCHANGED <<entries, demo, adapter, undisturbed, bounds>>

-----------------------------------------------------------------------------
(* _run_owned's loop, one node.                                            *)
Node(manifest, id) == CHOOSE node \in Elements(manifest.nodes) : node.id = id
Ids(manifest) == {node.id : node \in Elements(manifest.nodes)}

DepsOf(story, id) ==
    UNION {Elements(spec.deps) : spec \in {s \in Elements(Plan(story)) : s.id = id}}

NodeResult(id, state, key, inputs, output) ==
    [id |-> id, state |-> state, key |-> key, inputs |-> inputs, output |-> output,
     cachedState |-> state = "cache_hit"]

Record(id, result) ==
    /\ manifests' = [manifests EXCEPT ![tour.story].nodes = Append(@, result)]
    /\ tour' = [tour EXCEPT !.left = Tail(@)]

(* _snapshot_dependencies, which copies the outputs out of the cache again.*)
CanSnapshot(node) ==
    [key |-> node.key, bytes |-> node.output, sound |-> TRUE] \in entries

BuildNode ==
    /\ tour.pc = "build" /\ tour.left # << >>
    /\ LET id == Head(tour.left)
           manifest == manifests[tour.story]
           inputs == {Node(manifest, dep).output : dep \in DepsOf(tour.story, id)}
           key == NodeKey(id, inputs, manifest.source)
           output == FixtureOutput(id, inputs, manifest.source)
           done == IF id \in {Smoke(Q4), Smoke(Q8)} THEN "fixture_observed" ELSE "produced"
       IN IF \E dep \in DepsOf(tour.story, id) : Node(manifest, dep).state \in HasFailed
          THEN Record(id, NodeResult(id, "blocked", Nothing, {}, Nothing)) /\ UNCHANGED entries
          ELSE IF Cached(key)
          THEN /\ IF Entry(key).sound
                  THEN Record(id, NodeResult(id, "cache_hit", key, inputs, Entry(key).bytes))
                  ELSE Record(id, NodeResult(id, "failed", key, inputs, Nothing))
               /\ UNCHANGED entries
          ELSE IF \/ \E dep \in DepsOf(tour.story, id) : ~CanSnapshot(Node(manifest, dep))
                  \/ id = Source /\ demo # manifest.source
          THEN Record(id, NodeResult(id, "failed", key, inputs, Nothing)) /\ UNCHANGED entries
          ELSE /\ Record(id, NodeResult(id, done, key, inputs, output))
               /\ entries' = entries \union {[key |-> key, bytes |-> output, sound |-> TRUE]}
    /\ UNCHANGED <<demo, adapter, undisturbed, bounds, sort>>

FinishBuild ==
    /\ tour.pc = "build" /\ tour.left = << >>
    /\ LET good == \A node \in Elements(manifests[tour.story].nodes) :
                      node.state \notin HasFailed
       IN /\ manifests' = [manifests EXCEPT ![tour.story].status =
                              IF good THEN "succeeded" ELSE "failed"]
          /\ tour' = IF good THEN AfterStory(tour.story) ELSE Exit("build failed")
    /\ UNCHANGED <<entries, demo, adapter, undisturbed, bounds, sort>>

(* The last lines of the tour; Change below is what it prints of a node.   *)
PrintDiff ==
    /\ tour.pc = "compare"
    /\ tour' = Exit("ok")
    /\ UNCHANGED <<manifests, entries, demo, adapter, undisturbed, bounds, sort>>

-----------------------------------------------------------------------------
(* KeyboardInterrupt ends the command; in a build the manifest says so.    *)
Stops ==
    /\ TourRuns /\ bounds.stops < MaxStops
    /\ bounds' = [bounds EXCEPT !.stops = @ + 1]
    /\ sort' = NotSorting
    /\ UNCHANGED <<entries, demo, adapter, undisturbed>>

InterruptTour ==
    /\ Stops /\ tour' = Exit("interrupted")
    /\ CASE tour.pc = "build" ->
               manifests' = [manifests EXCEPT ![tour.story].status = "interrupted"]
         [] tour.pc = "sort" -> manifests' \in {manifests, Littered}
         [] OTHER -> UNCHANGED manifests

KillTour ==
    /\ Stops /\ tour' = Exit("killed")
    /\ manifests' \in IF tour.pc = "sort" THEN {manifests, Littered} ELSE {manifests}

(* The owner.  The package is upgraded and a new --run-root is chosen only *)
(* while no tour runs, and the input is not removed under a write.         *)
OwnerActs ==
    /\ bounds.acts < MaxOwnerActs
    /\ bounds' = [bounds EXCEPT !.acts = @ + 1]
    /\ UNCHANGED <<tour, sort>>

EditInput ==
    /\ OwnerActs /\ demo = "good" /\ demo' = "edited"
    /\ undisturbed' = FALSE /\ UNCHANGED <<manifests, entries, adapter>>

RemoveInput ==
    /\ OwnerActs /\ tour.pc # "write" /\ demo \in {"missing", "torn", "edited"}
    /\ demo' = "absent"
    /\ undisturbed' = FALSE /\ UNCHANGED <<manifests, entries, adapter>>

SpoilEntry(entry) ==
    /\ OwnerActs /\ entry.sound
    /\ \/ entries' = entries \ {entry}
       \/ entries' = (entries \ {entry}) \union {[entry EXCEPT !.sound = FALSE]}
    /\ undisturbed' = FALSE /\ UNCHANGED <<manifests, demo, adapter>>

UpgradePackage ==
    /\ OwnerActs /\ ~TourRuns
    /\ \E new \in Adapters : new # adapter /\ adapter' = new
    /\ undisturbed' = FALSE /\ UNCHANGED <<manifests, entries, demo>>

NewRunRoot ==
    /\ OwnerActs /\ ~TourRuns
    /\ manifests' = [story \in Stories |-> NoManifest]
    /\ UNCHANGED <<entries, demo, adapter, undisturbed>>

TourStep ==
    \/ PrepareWrites \/ PrepareWritten \/ PrepareFinds
    \/ LoadRefuses \/ BeginBuild \/ ReuseRun \/ RefuseRun
    \/ OrderNodes \/ FirstManifest \/ BuildNode \/ FinishBuild \/ PrintDiff

TourNext ==
    \/ StartTour \/ TourStep \/ InterruptTour \/ KillTour
    \/ EditInput \/ RemoveInput \/ UpgradePackage \/ NewRunRoot
    \/ \E entry \in entries : SpoilEntry(entry)

TourTypeOK ==
    /\ tour.pc \in {"idle", "prepare", "write", "look", "sort", "build", "compare"}
    /\ tour.story \in Stories /\ Elements(tour.left) \subseteq Nat
    /\ \A story \in Stories :
          /\ manifests[story] \in {NoManifest, Litter} \/ Loads(manifests[story])
          /\ Ids(manifests[story]) \subseteq {spec.id : spec \in Elements(Plan(story))}
    /\ tour.pc = "build" => manifests[tour.story].status = "running"
    /\ \A one, other \in entries : one.key = other.key => one = other
    /\ demo \in {"absent", "missing", "torn", "good", "edited"}
    /\ adapter \in Adapters /\ undisturbed \in BOOLEAN

-----------------------------------------------------------------------------
(* compare_manifests: what it calls a node that both manifests have.       *)
Observations(node) == <<node.output, node.cachedState>>

Change(before, after) ==
    LET core == /\ before.key = after.key /\ before.inputs = after.inputs
                /\ before.output = after.output
        same == core /\ before.state = after.state /\ Observations(before) = Observations(after)
    IN IF same THEN "unchanged"
       ELSE IF core /\ after.state = "cache_hit" THEN "reused_from_cache"
       ELSE IF before.output = after.output THEN "evidence_changed_same_recorded_output"
       ELSE "recorded_output_changed"

(* "Show ModelBake's recurring value" (cli.py:535): what a diff of the two *)
(* stories says of a node they share has a cause.  If nobody touched       *)
(* anything since the baseline, everything shared is reused or unchanged;  *)
(* other bytes come of an edited source or of a package that writes others;*)
(* and same bytes with other evidence come of another package or of a node *)
(* that was executed again.                                                *)
DiffIsTrue ==
    LET before == manifests["baseline"]
        after == manifests["candidate"]
    IN \A id \in Ids(before) \intersect Ids(after) :
          LET b == Node(before, id)
              a == Node(after, id)
          IN /\ undisturbed => Change(b, a) \in {"unchanged", "reused_from_cache"}
             /\ b.output # Nothing /\ a.output # Nothing =>
                   /\ Change(b, a) = "recorded_output_changed" =>
                         before.source # after.source \/ b.key.adapter[2] # a.key.adapter[2]
                   /\ Change(b, a) = "evidence_changed_same_recorded_output" =>
                         b.key.adapter # a.key.adapter \/ a.state # "cache_hit"
=============================================================================
