---------------------------- MODULE RunDirectory ----------------------------
(***************************************************************************)
(* One run directory and the processes that build in it: `modelbake build' *)
(* with and without --resume, and `modelbake tour', which decides by the   *)
(* manifest (engine.py _prepare_run_directory, _RunDirectoryLock, run and  *)
(* _run_owned; cli.py _tour_build).  What a run does between its first and *)
(* its last manifest is the subject of BuildRun.                           *)
(*                                                                         *)
(* Paths are resolved and are real directories here: an inode that is      *)
(* swapped for another one under a process is not modelled.                *)
(***************************************************************************)
EXTENDS Naturals

CONSTANTS
    Processes, Recipes, NoProcess, NoRecipe,
    MaxStarts,  \* bound: commands that are started
    MaxStops    \* bound: kills and errors outside of the handled ones

ASSUME RunDirectoryAssumption ==
    /\ NoProcess \notin Processes /\ NoRecipe \notin Recipes
    /\ {MaxStarts, MaxStops} \subseteq Nat

Ended == {"interrupted", "succeeded", "failed"}
Manifest == [status : {"none", "running"} \union Ended, recipe : Recipes \union {NoRecipe}]
NoManifest == [status |-> "none", recipe |-> NoRecipe]

VARIABLES
    exists,     \* the directory
    marker,     \* .modelbake-run.json: "absent", "torn" or "whole"
    lockfile,   \* the lock file, which is never removed
    holder,     \* the process whose flock it is
    content,    \* anything else in the directory
    manifest,   \* manifest.json
    origin,     \* history: who made the directory
    pc, job,    \* each process: position, and [recipe, resume]
    seen,       \* its listing of the directory: [marker, lock, content]
    started, stops

directory == <<exists, marker, lockfile, content, manifest>>
vars == <<directory, holder, origin, pc, job, seen, started, stops>>

NoJob == [recipe |-> NoRecipe, resume |-> FALSE]
NoListing == [marker |-> FALSE, lock |-> FALSE, content |-> FALSE]

(* A new directory; one of a release that had no markers yet, with or      *)
(* without its lock file; one that was never ModelBake's.                  *)
Init ==
    /\ marker = "absent" /\ holder = NoProcess
    /\ \/ /\ origin = "modelbake" /\ manifest = NoManifest
          /\ exists = FALSE /\ lockfile = FALSE /\ content = FALSE
       \/ /\ origin = "legacy" /\ exists = TRUE /\ content = TRUE /\ lockfile \in BOOLEAN
          /\ manifest \in [status : {"running"} \union Ended, recipe : Recipes]
       \/ /\ origin = "foreign" /\ manifest = NoManifest
          /\ exists = TRUE /\ lockfile = FALSE /\ content \in BOOLEAN
    /\ pc = [p \in Processes |-> "idle"]
    /\ job = [p \in Processes |-> NoJob]
    /\ seen = [p \in Processes |-> NoListing]
    /\ started = 0 /\ stops = 0

Goto(p, label) == pc' = [pc EXCEPT ![p] = label]

(* A step that only decides where the process goes on.                     *)
Continue(p, label) ==
    /\ Goto(p, label)
    /\ UNCHANGED <<directory, holder, origin, job, seen, started, stops>>

(* The command ends with an error before it has the lock.                  *)
Refuse(p) == Continue(p, "idle")

Begin(p) ==
    /\ pc[p] = "idle" /\ started < MaxStarts
    /\ \E r \in Recipes, resume \in BOOLEAN :
          job' = [job EXCEPT ![p] = [recipe |-> r, resume |-> resume]]
    /\ Goto(p, "inspect")
    /\ started' = started + 1
    /\ UNCHANGED <<directory, holder, origin, seen, stops>>

BeginTour(p) ==
    /\ pc[p] = "idle" /\ started < MaxStarts
    /\ \E r \in Recipes : job' = [job EXCEPT ![p] = [recipe |-> r, resume |-> FALSE]]
    /\ Goto(p, "tour")
    /\ started' = started + 1
    /\ UNCHANGED <<directory, holder, origin, seen, stops>>

(* The tour builds, resumes, reuses what it finds, or gives up.            *)
TourBuilds(p) ==
    /\ pc[p] = "tour" /\ manifest.status = "none"
    /\ Continue(p, "inspect")

TourResumes(p) ==
    /\ pc[p] = "tour" /\ manifest.recipe = job[p].recipe
    /\ manifest.status = "interrupted"
    /\ job' = [job EXCEPT ![p].resume = TRUE]
    /\ Goto(p, "inspect")
    /\ UNCHANGED <<directory, holder, origin, seen, started, stops>>

TourEnds(p) ==
    /\ pc[p] = "tour" /\ manifest.status # "none"
    /\ \/ manifest.recipe # job[p].recipe
       \/ manifest.status # "interrupted"
    /\ Continue(p, "idle")

-----------------------------------------------------------------------------
(* _prepare_run_directory: ownership is proved before anything is touched. *)

FindMissing(p) ==
    /\ pc[p] = "inspect" /\ ~exists
    /\ Continue(p, IF job[p].resume THEN "idle" ELSE "mkdir")

(* Mutant of MakeDirectory: what it has made is looked at like any other.  *)
MakeDirectoryOnly(p) ==
    /\ pc[p] = "mkdir" /\ ~exists
    /\ exists' = TRUE
    /\ Goto(p, "inspect")
    /\ UNCHANGED <<marker, lockfile, content, manifest, holder, origin, job, seen, started, stops>>

(* mkdir fails when the directory has appeared meanwhile.                  *)
MakeDirectory(p) ==
    /\ pc[p] = "mkdir" /\ ~exists
    /\ exists' = TRUE
    /\ Goto(p, "claim")
    /\ UNCHANGED <<marker, lockfile, content, manifest, holder, origin, job, seen, started, stops>>

MakeDirectoryFails(p) == pc[p] = "mkdir" /\ exists /\ Refuse(p)

List(p) ==
    /\ pc[p] = "inspect" /\ exists
    /\ seen' = [seen EXCEPT ![p] =
                  [marker |-> marker # "absent", lock |-> lockfile, content |-> content]]
    /\ Goto(p, "validate")
    /\ UNCHANGED <<directory, holder, origin, job, started, stops>>

(* The marker of the listing must be readable and of this directory.       *)
MarkerHolds(p) == seen[p].marker => marker = "whole"

ResumableAnyRecipe(p) ==
    /\ job[p].resume /\ manifest.status = "interrupted"
    /\ seen[p].marker \/ seen[p].lock

(* _validate_resume_manifest.                                              *)
Resumable(p) ==
    /\ job[p].resume /\ manifest.status = "interrupted"
    /\ manifest.recipe = job[p].recipe
    /\ seen[p].marker \/ seen[p].lock

(* Mutant of Admissible: an empty directory need not be ModelBake's.       *)
AdmissibleEmpty(p) ==
    /\ MarkerHolds(p)
    /\ IF seen[p].content THEN Resumable(p) ELSE ~job[p].resume

Admissible(p) ==
    /\ MarkerHolds(p)
    /\ IF seen[p].content THEN Resumable(p) ELSE ~job[p].resume /\ seen[p].marker

Admit(p) ==
    /\ pc[p] = "validate" /\ Admissible(p)
    /\ Continue(p, IF seen[p].marker THEN "lock" ELSE "claim")

Reject(p) == pc[p] = "validate" /\ ~Admissible(p) /\ Refuse(p)

(* _write_run_marker: created exclusively, then written and synced.        *)
Claim(p) ==
    /\ pc[p] = "claim" /\ marker = "absent"
    /\ marker' = "torn"
    /\ Goto(p, "write")
    /\ UNCHANGED <<exists, lockfile, content, manifest, holder, origin, job, seen, started, stops>>

ClaimFails(p) == pc[p] = "claim" /\ marker # "absent" /\ Refuse(p)

WriteMarker(p) ==
    /\ pc[p] = "write"
    /\ marker' = "whole"
    /\ Goto(p, "lock")
    /\ UNCHANGED <<exists, lockfile, content, manifest, holder, origin, job, seen, started, stops>>

-----------------------------------------------------------------------------
(* _RunDirectoryLock.__enter__: the file is opened, then locked if nobody  *)
(* has it; a process never waits.                                          *)
OpenLock(p) ==
    /\ pc[p] = "lock"
    /\ lockfile' = TRUE
    /\ Goto(p, "flock")
    /\ UNCHANGED <<exists, marker, content, manifest, holder, origin, job, seen, started, stops>>

(* Mutant of Flock: the lock file exists, and nothing locks it.            *)
FlockAny(p) ==
    /\ pc[p] = "flock"
    /\ holder' = p
    /\ Goto(p, "owned")
    /\ UNCHANGED <<directory, origin, job, seen, started, stops>>

Flock(p) ==
    /\ pc[p] = "flock" /\ holder = NoProcess
    /\ holder' = p
    /\ Goto(p, "owned")
    /\ UNCHANGED <<directory, origin, job, seen, started, stops>>

FlockFails(p) == pc[p] = "flock" /\ holder # NoProcess /\ Refuse(p)

(* Mutant of Occupy: the listing of before the lock is trusted.            *)
OccupyUnchecked(p) ==
    /\ pc[p] = "owned"
    /\ content' = TRUE
    /\ Goto(p, "first")
    /\ UNCHANGED <<exists, marker, lockfile, manifest, holder, origin, job, seen, started, stops>>

(* _run_owned lists the directory again, and makes its work directory.     *)
Occupy(p) ==
    /\ pc[p] = "owned" /\ (content => job[p].resume)
    /\ content' = TRUE
    /\ Goto(p, "first")
    /\ UNCHANGED <<exists, marker, lockfile, manifest, holder, origin, job, seen, started, stops>>

OccupyFails(p) ==
    /\ pc[p] = "owned" /\ content /\ ~job[p].resume
    /\ Continue(p, "unlock")

(* Mutant of WriteFirst: the file is written in place, and can be torn.    *)
WriteFirstInPlace(p) ==
    /\ pc[p] = "first"
    /\ manifest' = [status |-> "torn", recipe |-> job[p].recipe]
    /\ Goto(p, "run")
    /\ UNCHANGED <<exists, marker, lockfile, content, holder, origin, job, seen, started, stops>>

WriteFirst(p) ==
    /\ pc[p] = "first"
    /\ manifest' = [status |-> "running", recipe |-> job[p].recipe]
    /\ Goto(p, "run")
    /\ UNCHANGED <<exists, marker, lockfile, content, holder, origin, job, seen, started, stops>>

(* Mutant of WriteLast: an interrupted run keeps its last manifest.        *)
WriteOutcome(p) ==
    /\ pc[p] = "run"
    /\ \E s \in {"succeeded", "failed", "running"} : manifest' = [manifest EXCEPT !.status = s]
    /\ Goto(p, "unlock")
    /\ UNCHANGED <<exists, marker, lockfile, content, holder, origin, job, seen, started, stops>>

(* The run comes to its end, or is interrupted by a signal or an error.    *)
WriteLast(p) ==
    /\ pc[p] = "run"
    /\ \E s \in Ended : manifest' = [manifest EXCEPT !.status = s]
    /\ Goto(p, "unlock")
    /\ UNCHANGED <<exists, marker, lockfile, content, holder, origin, job, seen, started, stops>>

Unlock(p) ==
    /\ pc[p] = "unlock"
    /\ holder' = NoProcess
    /\ Goto(p, "idle")
    /\ UNCHANGED <<directory, origin, job, seen, started, stops>>

(* A kill; or an error that is not followed by a manifest: the source has  *)
(* changed since the plan, a write fails.  The kernel releases the lock.   *)
Stop(p) ==
    /\ pc[p] # "idle" /\ stops < MaxStops
    /\ holder' = IF holder = p THEN NoProcess ELSE holder
    /\ Goto(p, "idle")
    /\ stops' = stops + 1
    /\ UNCHANGED <<directory, origin, job, seen, started>>

Finished ==
    /\ started = MaxStarts /\ \A p \in Processes : pc[p] = "idle"
    /\ UNCHANGED vars

Next ==
    \/ \E p \in Processes :
          \/ Begin(p) \/ BeginTour(p) \/ TourBuilds(p) \/ TourResumes(p) \/ TourEnds(p)
          \/ FindMissing(p) \/ MakeDirectory(p) \/ MakeDirectoryFails(p)
          \/ List(p) \/ Admit(p) \/ Reject(p)
          \/ Claim(p) \/ ClaimFails(p) \/ WriteMarker(p)
          \/ OpenLock(p) \/ Flock(p) \/ FlockFails(p)
          \/ Occupy(p) \/ OccupyFails(p)
          \/ WriteFirst(p) \/ WriteLast(p) \/ Unlock(p) \/ Stop(p)
    \/ Finished

Spec == Init /\ [][Next]_vars

-----------------------------------------------------------------------------
(* Every variable keeps its type.                                          *)
TypeOK ==
    /\ {exists, lockfile, content} \subseteq BOOLEAN
    /\ marker \in {"absent", "torn", "whole"}
    /\ holder \in Processes \union {NoProcess}
    /\ manifest \in Manifest
    /\ origin \in {"modelbake", "legacy", "foreign"}
    /\ pc \in [Processes -> {"idle", "tour", "inspect", "mkdir", "validate", "claim", "write",
                             "lock", "flock", "owned", "first", "run", "unlock"}]
    /\ job \in [Processes -> [recipe : Recipes \union {NoRecipe}, resume : BOOLEAN]]
    /\ seen \in [Processes -> [marker : BOOLEAN, lock : BOOLEAN, content : BOOLEAN]]
    /\ started \in 0..MaxStarts /\ stops \in 0..MaxStops

Owning == {"owned", "first", "run", "unlock"}

(* _RunDirectoryLock: `released automatically on exit'.  At most one       *)
(* process is past the lock, and a lock always has a living owner.         *)
LockIsAlive == \A p \in Processes : holder = p <=> pc[p] \in Owning

(* A manifest that says running is the work of a process that is running   *)
(* this very recipe, unless one was stopped without a word or an older     *)
(* release has left it.                                                    *)
RunningIsOwned ==
    stops = 0 /\ origin = "modelbake" =>
        (manifest.status = "running"
           <=> \E p \in Processes : /\ pc[p] = "run" /\ holder = p
                                    /\ job[p].recipe = manifest.recipe)

(* Without --resume a run writes its first manifest where there is none,   *)
(* whoever else has built there since the directory was looked at.         *)
NewRunsReplaceNothing ==
    \A p \in Processes : pc[p] = "first" /\ ~job[p].resume => manifest.status = "none"

(* Once a directory has a manifest it is of that recipe for good.          *)
RecipeIsKept == [][manifest.status # "none" => manifest'.recipe = manifest.recipe]_vars

(* Processes that compete for a new directory leave it with an outcome or  *)
(* with a run that can be resumed: they do not all refuse each other.      *)
SomebodyRuns ==
    stops = 0 /\ exists /\ origin = "modelbake" /\ (\A p \in Processes : pc[p] = "idle")
      => marker = "whole" /\ manifest.status \in Ended

(* engine.py, _prepare_run_directory: `Prove run-root ownership before     *)
(* chmod, marker creation, or locking'.                                    *)
ForeignIsUntouched == [][origin = "foreign" => UNCHANGED directory]_vars

(* engine.py: `pass resume=True only for an interrupted run': a run that   *)
(* is over, or under way, is not started again.                            *)
OnlyInterruptedIsResumed ==
    [][manifest.status # "running" /\ manifest'.status = "running"
         => manifest.status \in {"none", "interrupted"}]_vars
=============================================================================
