------------------------- MODULE RunDirectoryProofs -------------------------
(***************************************************************************)
(* Proofs about RunDirectory, for any number of processes, recipes,        *)
(* commands and stops.                                                     *)
(***************************************************************************)
EXTENDS RunDirectory, TLAPS

Labels == {"idle", "tour", "inspect", "mkdir", "validate", "claim", "write",
           "lock", "flock", "owned", "first", "run", "unlock"}

(* Who has passed the admission, and who has touched nothing yet.          *)
Admitted == {"claim", "write", "lock", "flock", "owned", "first", "run", "unlock"}
Outside == {"idle", "tour", "inspect", "validate"}

(* What a process knows where it is.                                       *)
KnowledgeOf(p) ==
    /\ pc[p] \in Admitted /\ job[p].resume =>
         manifest.status # "none" /\ manifest.recipe = job[p].recipe
    /\ pc[p] = "mkdir" => ~job[p].resume
    /\ pc[p] \in {"first", "run", "unlock"} => content
    /\ pc[p] = "first" /\ ~job[p].resume => manifest.status = "none"
    /\ pc[p] = "run" => manifest.status = "running" /\ manifest.recipe = job[p].recipe

(* A directory that is not ModelBake's turns everybody away.               *)
TurnedAway(p) ==
    /\ pc[p] \in Outside
    /\ pc[p] = "validate" => ~seen[p].marker /\ ~seen[p].lock

DirectoryInv ==
    /\ manifest.status # "none" => content
    /\ origin = "foreign" =>
         /\ exists /\ marker = "absent" /\ ~lockfile
         /\ \A p \in Processes : TurnedAway(p)

RunInv ==
    /\ TypeOK /\ DirectoryInv /\ LockIsAlive
    /\ \A p \in Processes : KnowledgeOf(p)

LEMMA InitInv == Init => RunInv
<1> SUFFICES ASSUME Init PROVE RunInv
  OBVIOUS
<1>1. TypeOK
  <2>1. manifest \in Manifest
    BY DEF Init, Manifest, NoManifest, Ended
  <2>2. NoJob \in [recipe : Recipes \union {NoRecipe}, resume : BOOLEAN]
    BY DEF NoJob
  <2>3. NoListing \in [marker : BOOLEAN, lock : BOOLEAN, content : BOOLEAN]
    BY DEF NoListing
  <2>4. job \in [Processes -> [recipe : Recipes \union {NoRecipe}, resume : BOOLEAN]]
    BY <2>2 DEF Init
  <2>5. seen \in [Processes -> [marker : BOOLEAN, lock : BOOLEAN, content : BOOLEAN]]
    BY <2>3 DEF Init
  <2>6. {exists, lockfile, content} \subseteq BOOLEAN
    BY DEF Init
  <2>7. QED
    BY <2>1, <2>4, <2>5, <2>6, RunDirectoryAssumption DEF Init, TypeOK
<1>2. DirectoryInv
  BY DEF Init, DirectoryInv, TurnedAway, Outside, NoManifest
<1>3. LockIsAlive /\ \A p \in Processes : KnowledgeOf(p)
  BY RunDirectoryAssumption DEF Init, LockIsAlive, KnowledgeOf, Admitted, Owning
<1>4. QED BY <1>1, <1>2, <1>3 DEF RunInv

-----------------------------------------------------------------------------
(* Type correctness.                                                       *)

LEMMA CommandType ==
    ASSUME TypeOK, NEW p \in Processes,
           \/ Begin(p) \/ BeginTour(p) \/ TourBuilds(p) \/ TourResumes(p) \/ TourEnds(p)
           \/ FindMissing(p) \/ MakeDirectory(p) \/ MakeDirectoryFails(p)
           \/ List(p) \/ Admit(p) \/ Reject(p)
           \/ Claim(p) \/ ClaimFails(p) \/ WriteMarker(p)
    PROVE  TypeOK'
<1> USE DEF TypeOK, Goto, Continue, Refuse, directory
<1> DEFINE Jobs == [recipe : Recipes \union {NoRecipe}, resume : BOOLEAN]
           Listings == [marker : BOOLEAN, lock : BOOLEAN, content : BOOLEAN]
<1>1. CASE Begin(p) \/ BeginTour(p)
  <2>1. PICK r \in Recipes, resume \in BOOLEAN :
           job' = [job EXCEPT ![p] = [recipe |-> r, resume |-> resume]]
    BY <1>1 DEF Begin, BeginTour
  <2>2. [recipe |-> r, resume |-> resume] \in Jobs OBVIOUS
  <2>3. job' \in [Processes -> Jobs] BY <2>1, <2>2
  <2>4. QED BY <1>1, <2>3, RunDirectoryAssumption DEF Begin, BeginTour
<1>2. CASE TourBuilds(p) \/ TourEnds(p)
  BY <1>2 DEF TourBuilds, TourEnds
<1>3. CASE TourResumes(p)
  <2>1. [job[p] EXCEPT !.resume = TRUE] \in Jobs OBVIOUS
  <2>2. job' \in [Processes -> Jobs] BY <1>3, <2>1 DEF TourResumes
  <2>3. QED BY <1>3, <2>2 DEF TourResumes
<1>4. CASE FindMissing(p) \/ MakeDirectory(p) \/ MakeDirectoryFails(p)
  BY <1>4 DEF FindMissing, MakeDirectory, MakeDirectoryFails
<1>5. CASE List(p)
  <2>1. [marker |-> marker # "absent", lock |-> lockfile, content |-> content] \in Listings
    OBVIOUS
  <2>2. seen' \in [Processes -> Listings] BY <1>5, <2>1 DEF List
  <2>3. QED BY <1>5, <2>2 DEF List
<1>6. CASE Admit(p) \/ Reject(p)
  BY <1>6 DEF Admit, Reject
<1>7. CASE Claim(p) \/ ClaimFails(p) \/ WriteMarker(p)
  BY <1>7 DEF Claim, ClaimFails, WriteMarker
<1>8. QED BY <1>1, <1>2, <1>3, <1>4, <1>5, <1>6, <1>7

LEMMA RunType ==
    ASSUME TypeOK, NEW p \in Processes,
           \/ OpenLock(p) \/ Flock(p) \/ FlockFails(p)
           \/ Occupy(p) \/ OccupyFails(p)
           \/ WriteFirst(p) \/ WriteLast(p) \/ Unlock(p) \/ Stop(p)
    PROVE  TypeOK'
<1> USE DEF TypeOK, Goto, Continue, Refuse, directory
<1>1. CASE OpenLock(p) \/ Flock(p) \/ FlockFails(p)
  BY <1>1 DEF OpenLock, Flock, FlockFails
<1>2. CASE Occupy(p) \/ OccupyFails(p) \/ Unlock(p)
  BY <1>2 DEF Occupy, OccupyFails, Unlock
<1>3. CASE WriteFirst(p)
  <2>1. manifest' \in Manifest
    <3>1. job[p].recipe \in Recipes \union {NoRecipe} OBVIOUS
    <3>2. QED BY <1>3, <3>1 DEF WriteFirst, Manifest
  <2>2. QED BY <1>3, <2>1 DEF WriteFirst
<1>4. CASE WriteLast(p)
  <2>1. manifest' \in Manifest
    BY <1>4 DEF WriteLast, Manifest, Ended
  <2>2. QED BY <1>4, <2>1 DEF WriteLast
<1>5. CASE Stop(p)
  BY <1>5, RunDirectoryAssumption DEF Stop
<1>6. QED BY <1>1, <1>2, <1>3, <1>4, <1>5

LEMMA TypeStep == TypeOK /\ [Next]_vars => TypeOK'
<1> SUFFICES ASSUME TypeOK, [Next]_vars PROVE TypeOK'
  OBVIOUS
<1>1. CASE UNCHANGED vars
  BY <1>1 DEF vars, directory, TypeOK
<1>2. QED BY <1>1, CommandType, RunType DEF Next, Finished

-----------------------------------------------------------------------------
(* A process that is not past the lock, before or after its step, leaves   *)
(* the lock and the manifest alone.                                        *)

Deciding(p) ==
    \/ Begin(p) \/ BeginTour(p) \/ TourBuilds(p) \/ TourResumes(p) \/ TourEnds(p)
    \/ FindMissing(p) \/ MakeDirectory(p) \/ MakeDirectoryFails(p)
    \/ List(p) \/ Admit(p) \/ Reject(p)
    \/ Claim(p) \/ ClaimFails(p) \/ WriteMarker(p) \/ OpenLock(p) \/ FlockFails(p)

LEMMA DecidingInv ==
    ASSUME RunInv, NEW p \in Processes, Deciding(p)
    PROVE  LockIsAlive' /\ \A q \in Processes : KnowledgeOf(q)'
<1>1. /\ UNCHANGED <<holder, content, manifest>>
      /\ \A q \in Processes : q # p => pc'[q] = pc[q] /\ job'[q] = job[q]
      /\ pc[p] \notin Owning /\ pc'[p] \notin Owning
  BY DEF RunInv, TypeOK, Deciding, Begin, BeginTour, TourBuilds, TourResumes, TourEnds,
     FindMissing, MakeDirectory, MakeDirectoryFails, List, Admit, Reject, Claim, ClaimFails,
     WriteMarker, OpenLock, FlockFails, Goto, Continue, Refuse, directory, Owning
<1>2. LockIsAlive' BY <1>1 DEF RunInv, LockIsAlive
<1>3. ASSUME pc'[p] \in Admitted, job'[p].resume
      PROVE  manifest.status # "none" /\ manifest.recipe = job'[p].recipe
  <2>1. CASE Admit(p)
    BY <1>3, <2>1 DEF Admit, Admissible, Resumable, Continue
  <2>2. CASE MakeDirectory(p)
    BY <1>3, <2>2 DEF MakeDirectory, RunInv, KnowledgeOf
  <2>3. CASE Claim(p) \/ WriteMarker(p) \/ OpenLock(p)
    <3>1. pc[p] \in Admitted /\ job' = job
      BY <2>3 DEF Claim, WriteMarker, OpenLock, Admitted
    <3>2. QED BY <1>3, <3>1 DEF RunInv, KnowledgeOf
  <2>4. QED
    BY <1>3, <2>1, <2>2, <2>3 DEF RunInv, TypeOK, Deciding, Begin, BeginTour, TourBuilds,
       TourResumes, TourEnds, FindMissing, MakeDirectoryFails, List, Reject, ClaimFails,
       FlockFails, Goto, Continue, Refuse, directory, Admitted
<1>4. pc'[p] = "mkdir" => ~job'[p].resume
  BY DEF RunInv, TypeOK, Deciding, Begin, BeginTour, TourBuilds, TourResumes, TourEnds,
     FindMissing, MakeDirectory, MakeDirectoryFails, List, Admit, Reject, Claim, ClaimFails,
     WriteMarker, OpenLock, FlockFails, Goto, Continue, Refuse, directory
<1>5. ASSUME NEW q \in Processes PROVE KnowledgeOf(q)'
  <2>1. CASE q = p
    BY <1>1, <1>3, <1>4, <2>1 DEF KnowledgeOf, Owning
  <2>2. CASE q # p
    BY <1>1, <2>2 DEF RunInv, KnowledgeOf
  <2>3. QED BY <2>1, <2>2
<1>6. QED BY <1>2, <1>5

(* The steps of the process that has the lock, or has just taken it.       *)
LEMMA OwningInv ==
    ASSUME RunInv, NEW p \in Processes,
           Flock(p) \/ Occupy(p) \/ OccupyFails(p) \/ Unlock(p) \/ Stop(p)
    PROVE  LockIsAlive' /\ \A q \in Processes : KnowledgeOf(q)'
<1>1. /\ UNCHANGED <<job, manifest>>
      /\ content => content'
      /\ \A q \in Processes : q # p => pc'[q] = pc[q]
  BY DEF RunInv, TypeOK, Flock, Occupy, OccupyFails, Unlock, Stop, Goto, Continue, directory
<1>2. LockIsAlive'
  BY RunDirectoryAssumption DEF RunInv, TypeOK, LockIsAlive, Owning, Flock, Occupy,
     OccupyFails, Unlock, Stop, Goto, Continue, directory
<1>3. ASSUME NEW q \in Processes, q # p PROVE KnowledgeOf(q)'
  BY <1>1, <1>3 DEF RunInv, KnowledgeOf
<1>4. KnowledgeOf(p)'
  <2>1. pc'[p] \in Admitted => pc[p] \in Admitted
    BY DEF RunInv, TypeOK, Flock, Occupy, OccupyFails, Unlock, Stop, Goto, Continue, Admitted
  <2>2. /\ pc'[p] \notin {"mkdir", "run"}
        /\ pc'[p] \in {"first", "unlock"} => content'
        /\ pc'[p] = "first" /\ ~job[p].resume => ~content
    BY DEF RunInv, TypeOK, Flock, Occupy, OccupyFails, Unlock, Stop, Goto, Continue, directory
  <2>3. QED BY <1>1, <2>1, <2>2 DEF RunInv, DirectoryInv, KnowledgeOf
<1>5. QED BY <1>2, <1>3, <1>4

LEMMA WritingInv ==
    ASSUME RunInv, NEW p \in Processes, WriteFirst(p) \/ WriteLast(p)
    PROVE  /\ LockIsAlive' /\ \A q \in Processes : KnowledgeOf(q)'
           /\ manifest.status # "none" => manifest'.recipe = manifest.recipe
<1>1. /\ UNCHANGED <<job, content, holder>>
      /\ \A q \in Processes : q # p => pc'[q] = pc[q]
      /\ pc[p] \in {"first", "run"} /\ pc'[p] \in {"run", "unlock"}
      /\ pc[p] = "first" <=> pc'[p] = "run"
  BY DEF RunInv, TypeOK, WriteFirst, WriteLast, Goto
<1>2. LockIsAlive' BY <1>1 DEF RunInv, LockIsAlive, Owning
<1>3. \A q \in Processes : q # p => pc[q] \notin Owning
  BY <1>1 DEF RunInv, LockIsAlive, Owning
<1>4. /\ manifest'.status # "none"
      /\ pc[p] = "first" => manifest'.status = "running" /\ manifest'.recipe = job[p].recipe
      /\ pc[p] = "run" => manifest'.recipe = manifest.recipe
  BY DEF RunInv, TypeOK, Manifest, WriteFirst, WriteLast, Ended
<1>5. manifest.status # "none" => manifest'.recipe = manifest.recipe
  BY <1>1, <1>4 DEF RunInv, KnowledgeOf, Admitted
<1>6. ASSUME NEW q \in Processes, q # p PROVE KnowledgeOf(q)'
  BY <1>1, <1>3, <1>4, <1>5, <1>6 DEF RunInv, KnowledgeOf, Owning
<1>7. KnowledgeOf(p)'
  BY <1>1, <1>4 DEF RunInv, KnowledgeOf, Admitted
<1>8. QED BY <1>2, <1>5, <1>6, <1>7

-----------------------------------------------------------------------------
(* A foreign directory is never admitted, so that nobody gets to a step    *)
(* that changes it; and a manifest is content.                             *)
LEMMA ForeignStep ==
    ASSUME RunInv, origin = "foreign", [Next]_vars
    PROVE  /\ UNCHANGED <<directory, origin>>
           /\ \A p \in Processes : TurnedAway(p)'
<1>1. /\ exists /\ marker = "absent" /\ ~lockfile
      /\ \A p \in Processes : TurnedAway(p)
  BY DEF RunInv, DirectoryInv
<1>2. CASE UNCHANGED vars
  BY <1>1, <1>2 DEF vars, directory, TurnedAway
<1>3. ASSUME NEW p \in Processes,
             \/ Begin(p) \/ BeginTour(p) \/ TourBuilds(p) \/ TourResumes(p) \/ TourEnds(p)
             \/ Reject(p) \/ List(p) \/ Stop(p)
      PROVE  /\ UNCHANGED <<directory, origin>>
             /\ \A q \in Processes : TurnedAway(q)'
  <2>1. /\ UNCHANGED <<directory, origin>>
        /\ \A q \in Processes : q # p => pc'[q] = pc[q] /\ seen'[q] = seen[q]
    BY <1>3 DEF RunInv, TypeOK, Begin, BeginTour, TourBuilds, TourResumes, TourEnds,
       Reject, List, Stop, Goto, Continue, Refuse, directory
  <2>2. TurnedAway(p)'
    <3>1. CASE List(p)
      BY <1>1, <3>1 DEF RunInv, TypeOK, List, Goto, TurnedAway, Outside
    <3>2. CASE ~List(p)
      BY <1>3, <3>2 DEF RunInv, TypeOK, Begin, BeginTour, TourBuilds, TourResumes, TourEnds,
         Reject, Stop, Goto, Continue, Refuse, TurnedAway, Outside
    <3>3. QED BY <3>1, <3>2
  <2>3. QED BY <1>1, <2>1, <2>2 DEF TurnedAway
<1>4. ASSUME NEW p \in Processes
      PROVE  /\ ~FindMissing(p) /\ ~MakeDirectory(p) /\ ~MakeDirectoryFails(p)
             /\ ~Admit(p) /\ ~Claim(p) /\ ~ClaimFails(p) /\ ~WriteMarker(p)
             /\ ~OpenLock(p) /\ ~Flock(p) /\ ~FlockFails(p) /\ ~Occupy(p)
             /\ ~OccupyFails(p) /\ ~WriteFirst(p) /\ ~WriteLast(p) /\ ~Unlock(p)
  BY <1>1 DEF TurnedAway, Outside, FindMissing, MakeDirectory, MakeDirectoryFails, Admit,
     Admissible, Resumable, Claim, ClaimFails, WriteMarker, OpenLock, Flock, FlockFails,
     Occupy, OccupyFails, WriteFirst, WriteLast, Unlock
<1>5. QED BY <1>1, <1>2, <1>3, <1>4 DEF Next, Finished

LEMMA ContentStep ==
    ASSUME RunInv, [Next]_vars
    PROVE  /\ origin' = origin
           /\ manifest'.status # "none" => content'
<1>1. CASE UNCHANGED vars
  BY <1>1 DEF vars, directory, RunInv, DirectoryInv
<1>2. ASSUME NEW p \in Processes, Deciding(p) \/ Flock(p) \/ OccupyFails(p) \/ Unlock(p) \/ Stop(p)
      PROVE  UNCHANGED <<origin, manifest, content>>
  BY <1>2 DEF Deciding, Begin, BeginTour, TourBuilds, TourResumes, TourEnds, FindMissing,
     MakeDirectory, MakeDirectoryFails, List, Admit, Reject, Claim, ClaimFails, WriteMarker,
     OpenLock, FlockFails, Flock, OccupyFails, Unlock, Stop, Continue, Refuse, directory
<1>3. ASSUME NEW p \in Processes, Occupy(p) \/ WriteFirst(p) \/ WriteLast(p)
      PROVE  origin' = origin /\ content'
  BY <1>3 DEF Occupy, WriteFirst, WriteLast, RunInv, KnowledgeOf
<1>4. QED BY <1>1, <1>2, <1>3 DEF Next, Finished, Deciding, RunInv, DirectoryInv

LEMMA StepInv == RunInv /\ [Next]_vars => RunInv'
<1> SUFFICES ASSUME RunInv, [Next]_vars PROVE RunInv'
  OBVIOUS
<1>1. TypeOK' BY TypeStep DEF RunInv
<1>2. DirectoryInv'
  BY ForeignStep, ContentStep DEF RunInv, DirectoryInv, directory
<1>3. LockIsAlive' /\ \A q \in Processes : KnowledgeOf(q)'
  <2>1. CASE UNCHANGED vars
    BY <2>1 DEF vars, directory, RunInv, LockIsAlive, KnowledgeOf
  <2>2. QED BY <2>1, DecidingInv, OwningInv, WritingInv DEF Next, Finished, Deciding
<1>4. QED BY <1>1, <1>2, <1>3 DEF RunInv

THEOREM TypeCorrect == Spec => []TypeOK
BY InitInv, StepInv, PTL DEF Spec, RunInv

(* At any time at most one process is past the lock, and the lock is never *)
(* left behind, however many processes are stopped.                        *)
THEOREM LocksAreAlive == Spec => []LockIsAlive
BY InitInv, StepInv, PTL DEF Spec, RunInv

(* A build without --resume writes no manifest over another one.           *)
THEOREM NewRunsAreNew == Spec => []NewRunsReplaceNothing
<1>1. RunInv => NewRunsReplaceNothing
  BY DEF RunInv, KnowledgeOf, NewRunsReplaceNothing
<1>2. QED BY <1>1, InitInv, StepInv, PTL DEF Spec

(* No build, resume or tour changes the recipe of a directory.             *)
THEOREM RecipesAreKept == Spec => RecipeIsKept
<1>1. RunInv /\ [Next]_vars =>
        [manifest.status # "none" => manifest'.recipe = manifest.recipe]_vars
  <2> SUFFICES ASSUME RunInv, [Next]_vars, manifest.status # "none"
               PROVE  manifest'.recipe = manifest.recipe
    OBVIOUS
  <2>1. ASSUME NEW p \in Processes,
               Deciding(p) \/ Flock(p) \/ Occupy(p) \/ OccupyFails(p) \/ Unlock(p) \/ Stop(p)
        PROVE  manifest' = manifest
    BY <2>1 DEF Deciding, Begin, BeginTour, TourBuilds, TourResumes, TourEnds, FindMissing,
       MakeDirectory, MakeDirectoryFails, List, Admit, Reject, Claim, ClaimFails, WriteMarker,
       OpenLock, FlockFails, Flock, Occupy, OccupyFails, Unlock, Stop, Continue, Refuse,
       directory
  <2>2. CASE UNCHANGED vars BY <2>2 DEF vars, directory
  <2>3. QED BY <2>1, <2>2, WritingInv DEF Next, Finished, Deciding
<1>2. QED BY <1>1, InitInv, StepInv, PTL DEF Spec, RecipeIsKept

(* A directory that ModelBake does not own stays as it is.                 *)
THEOREM ForeignersAreSafe == Spec => ForeignIsUntouched
<1>1. RunInv /\ [Next]_vars => [origin = "foreign" => UNCHANGED directory]_vars
  BY ForeignStep
<1>2. QED BY <1>1, InitInv, StepInv, PTL DEF Spec, ForeignIsUntouched

-----------------------------------------------------------------------------
(* The contest for a new directory, without stops.  Ordered says which     *)
(* steps the marker separates; Busy names who goes on from each state of   *)
(* the directory.                                                          *)

Before == {"idle", "tour", "inspect", "mkdir"}

Ordered ==
    /\ ~exists => marker = "absent" /\ \A p \in Processes : pc[p] \in Before
    /\ content => marker = "whole"
    /\ \A p \in Processes :
         /\ pc[p] = "claim" => marker = "absent"
         /\ pc[p] = "write" => marker = "torn"
         /\ pc[p] \in Admitted \ {"claim", "write"} => marker = "whole"
         /\ pc[p] = "validate" => (seen[p].content => seen[p].marker)
    /\ \A p, q \in Processes :
         pc[p] \in {"claim", "write"} /\ pc[q] \in {"claim", "write"} => p = q

Somebody(labels) == \E p \in Processes : pc[p] \in labels

Busy ==
    /\ exists /\ marker = "absent" => Somebody({"claim"})
    /\ marker = "torn" => Somebody({"write"})
    /\ marker = "whole" /\ ~content => Somebody({"lock", "flock", "owned"})
    /\ content /\ manifest.status = "none" => Somebody({"first"})
    /\ manifest.status = "running" => Somebody({"run"})

Contest == stops = 0 /\ origin = "modelbake" => Ordered /\ Busy

LEMMA InitContest == Init => Contest
BY DEF Init, Contest, Ordered, Busy, Before, Admitted, NoManifest

(* Steps of processes that nobody counts on, which change nothing.         *)
LEMMA OutsideContest ==
    ASSUME RunInv, Ordered, Busy, NEW p \in Processes,
           \/ Begin(p) \/ BeginTour(p) \/ TourBuilds(p) \/ TourResumes(p) \/ TourEnds(p)
           \/ FindMissing(p) \/ MakeDirectoryFails(p) \/ List(p) \/ Admit(p) \/ Reject(p)
    PROVE  Ordered' /\ Busy'
<1>1. /\ UNCHANGED directory
      /\ \A q \in Processes : q # p => pc'[q] = pc[q] /\ seen'[q] = seen[q]
      /\ pc[p] \in Before \union {"validate"}
  BY DEF RunInv, TypeOK, Begin, BeginTour, TourBuilds, TourResumes, TourEnds, FindMissing,
     MakeDirectoryFails, List, Admit, Reject, Goto, Continue, Refuse, directory, Before
<1>2. /\ pc'[p] \in Before \union {"validate", "lock"}
      /\ pc'[p] = "lock" => marker = "whole"
      /\ ~exists => pc'[p] \in Before
      /\ pc'[p] = "validate" => (seen'[p].content => seen'[p].marker)
  <2>1. CASE List(p)
    BY <2>1 DEF RunInv, TypeOK, List, Goto, Ordered, Before
  <2>2. CASE Admit(p)
    <3>1. pc[p] = "validate" /\ seen[p].marker /\ marker = "whole"
      BY <2>2 DEF Admit, Admissible, MarkerHolds, Ordered
    <3>2. exists BY <3>1 DEF Ordered, Before
    <3>3. pc'[p] = "lock" BY <2>2, <3>1 DEF Admit, Continue, Goto, RunInv, TypeOK
    <3>4. QED BY <3>1, <3>2, <3>3
  <2>3. QED
    BY <2>1, <2>2 DEF RunInv, TypeOK, Begin, BeginTour, TourBuilds, TourResumes, TourEnds,
       FindMissing, MakeDirectoryFails, Reject, Goto, Continue, Refuse, Before
<1>3. Ordered'
  BY <1>1, <1>2 DEF Ordered, Before, Admitted, directory
<1>4. Busy'
  <2>1. /\ Somebody({"claim"}) => Somebody({"claim"})'
        /\ Somebody({"write"}) => Somebody({"write"})'
        /\ Somebody({"lock", "flock", "owned"}) => Somebody({"lock", "flock", "owned"})'
        /\ Somebody({"first"}) => Somebody({"first"})'
        /\ Somebody({"run"}) => Somebody({"run"})'
    BY <1>1 DEF Somebody, Before
  <2>2. QED BY <1>1, <2>1 DEF Busy, directory
<1>5. QED BY <1>3, <1>4

(* The one that makes the directory is alone until its marker is whole.    *)
LEMMA ClaimContest ==
    ASSUME RunInv, Ordered, Busy, NEW p \in Processes,
           MakeDirectory(p) \/ Claim(p) \/ ClaimFails(p) \/ WriteMarker(p)
    PROVE  Ordered' /\ Busy'
<1>1. /\ UNCHANGED <<content, manifest, seen>> /\ ~content
      /\ \A q \in Processes : q # p => pc'[q] = pc[q]
  BY DEF RunInv, TypeOK, MakeDirectory, Claim, ClaimFails, WriteMarker, Goto, Continue, Refuse,
     Ordered
<1>2. ~content /\ manifest.status = "none" BY <1>1 DEF RunInv, DirectoryInv
<1>3. CASE MakeDirectory(p)
  <2>1. /\ exists' /\ marker = "absent" /\ marker' = "absent" /\ pc'[p] = "claim"
        /\ \A q \in Processes : pc[q] \in Before
    BY <1>3 DEF MakeDirectory, Goto, Ordered, RunInv, TypeOK
  <2>2. Ordered' BY <1>1, <2>1 DEF Ordered, Before, Admitted
  <2>3. Busy' BY <1>1, <1>2, <2>1 DEF Busy, Somebody
  <2>4. QED BY <2>2, <2>3
<1>4. CASE Claim(p)
  <2>1. /\ exists' = exists /\ marker = "absent" /\ marker' = "torn"
        /\ pc[p] = "claim" /\ pc'[p] = "write"
    BY <1>4 DEF Claim, Goto, RunInv, TypeOK
  <2>2. Ordered' BY <1>1, <2>1 DEF Ordered, Before, Admitted
  <2>3. Busy' BY <1>1, <1>2, <2>1 DEF Busy, Somebody
  <2>4. QED BY <2>2, <2>3
<1>5. CASE ClaimFails(p)
  BY <1>5 DEF ClaimFails, Ordered
<1>6. CASE WriteMarker(p)
  <2>1. /\ exists' = exists /\ marker = "torn" /\ marker' = "whole"
        /\ pc[p] = "write" /\ pc'[p] = "lock"
    BY <1>6 DEF WriteMarker, Goto, Ordered, RunInv, TypeOK
  <2>2. Ordered' BY <1>1, <2>1 DEF Ordered, Before, Admitted
  <2>3. Busy' BY <1>1, <1>2, <2>1 DEF Busy, Somebody
  <2>4. QED BY <2>2, <2>3
<1>7. QED BY <1>3, <1>4, <1>5, <1>6

(* Who is refused the lock leaves it to the holder; who holds it goes on.  *)
LEMMA LockContest ==
    ASSUME RunInv, Ordered, Busy, NEW p \in Processes,
           \/ OpenLock(p) \/ Flock(p) \/ FlockFails(p) \/ Occupy(p) \/ OccupyFails(p)
           \/ WriteFirst(p) \/ WriteLast(p) \/ Unlock(p)
    PROVE  Ordered' /\ Busy'
<1>1. /\ UNCHANGED <<exists, marker, seen>>
      /\ pc[p] \in Admitted \ {"claim", "write"}
      /\ pc'[p] \in (Admitted \ {"claim", "write"}) \union {"idle"}
      /\ \A q \in Processes : q # p => pc'[q] = pc[q]
  BY DEF RunInv, TypeOK, OpenLock, Flock, FlockFails, Occupy, OccupyFails, WriteFirst,
     WriteLast, Unlock, Goto, Continue, Refuse, directory, Admitted
<1>2. marker = "whole" /\ exists
  BY <1>1 DEF Ordered, Before, Admitted
<1>3. Ordered'
  BY <1>1, <1>2 DEF Ordered, Before, Admitted
<1>4. CASE OpenLock(p) \/ Flock(p)
  <2>1. /\ UNCHANGED <<content, manifest>>
        /\ pc[p] \notin {"first", "run"} /\ pc'[p] \in {"lock", "flock", "owned"}
    BY <1>4 DEF OpenLock, Flock, Goto, directory, RunInv, TypeOK
  <2>2. QED BY <1>1, <1>2, <1>3, <2>1 DEF Busy, Somebody
<1>5. CASE FlockFails(p)
  <2>1. UNCHANGED <<content, manifest>> /\ pc[p] = "flock" /\ holder \in Processes
    BY <1>5 DEF FlockFails, Continue, Refuse, directory, RunInv, TypeOK
  <2>2. holder # p /\ pc'[holder] \in Owning
    BY <1>1, <2>1 DEF RunInv, LockIsAlive, Owning
  <2>3. ~content => pc'[holder] = "owned"
    BY <1>1, <2>1, <2>2 DEF RunInv, KnowledgeOf, Owning
  <2>4. QED BY <1>1, <1>2, <1>3, <2>1, <2>3 DEF Busy, Somebody
<1>6. CASE Occupy(p)
  <2>1. manifest' = manifest /\ content' /\ pc[p] = "owned" /\ pc'[p] = "first"
    BY <1>6 DEF Occupy, Goto, RunInv, TypeOK
  <2>2. QED BY <1>1, <1>2, <1>3, <2>1 DEF Busy, Somebody
<1>7. CASE OccupyFails(p) \/ Unlock(p)
  <2>1. UNCHANGED <<content, manifest>> /\ content /\ pc[p] \in {"owned", "unlock"}
    BY <1>7 DEF OccupyFails, Unlock, Continue, directory, RunInv, KnowledgeOf
  <2>2. QED BY <1>1, <1>2, <1>3, <2>1 DEF Busy, Somebody
<1>8. CASE WriteFirst(p)
  <2>1. content' /\ manifest'.status = "running" /\ pc'[p] = "run"
    BY <1>8 DEF WriteFirst, Goto, RunInv, TypeOK, KnowledgeOf
  <2>2. QED BY <1>1, <1>2, <1>3, <2>1 DEF Busy, Somebody
<1>9. CASE WriteLast(p)
  <2>1. content' /\ manifest'.status \in Ended
    BY <1>9 DEF WriteLast, RunInv, TypeOK, Manifest, KnowledgeOf
  <2>2. QED BY <1>1, <1>2, <1>3, <2>1 DEF Busy, Ended
<1>10. QED BY <1>4, <1>5, <1>6, <1>7, <1>8, <1>9

LEMMA ContestStep == RunInv /\ Contest /\ [Next]_vars => Contest'
<1> SUFFICES ASSUME RunInv, Contest, [Next]_vars, stops' = 0, origin' = "modelbake"
             PROVE  Ordered' /\ Busy'
  BY DEF Contest
<1>1. CASE UNCHANGED vars
  BY <1>1 DEF vars, directory, Contest, Ordered, Busy, Somebody
<1>2. ASSUME NEW p \in Processes PROVE ~Stop(p)
  BY RunDirectoryAssumption DEF Stop, RunInv, TypeOK
<1>3. ASSUME NEW p \in Processes,
             Deciding(p) \/ Flock(p) \/ Occupy(p) \/ OccupyFails(p)
               \/ WriteFirst(p) \/ WriteLast(p) \/ Unlock(p)
      PROVE  stops' = stops
  BY <1>3 DEF Deciding, Begin, BeginTour, TourBuilds, TourResumes, TourEnds, FindMissing,
     MakeDirectory, MakeDirectoryFails, List, Admit, Reject, Claim, ClaimFails, WriteMarker,
     OpenLock, FlockFails, Flock, Occupy, OccupyFails, WriteFirst, WriteLast, Unlock,
     Continue, Refuse
<1>4. CASE \E p \in Processes :
             Deciding(p) \/ Flock(p) \/ Occupy(p) \/ OccupyFails(p)
               \/ WriteFirst(p) \/ WriteLast(p) \/ Unlock(p)
  <2>1. Ordered /\ Busy BY <1>3, <1>4, ContentStep DEF Contest
  <2>2. QED BY <1>4, <2>1, OutsideContest, ClaimContest, LockContest DEF Deciding
<1>5. QED BY <1>1, <1>2, <1>4 DEF Next, Finished, Deciding

(* Without stops a directory that ModelBake made is left with a manifest   *)
(* of a run that came to its end: competitors never all refuse each other. *)
THEOREM SomebodyAlwaysRuns == Spec => []SomebodyRuns
<1>1. RunInv /\ Contest => SomebodyRuns
  BY DEF RunInv, TypeOK, Manifest, Contest, Busy, Somebody, SomebodyRuns
<1>2. QED BY <1>1, InitInv, StepInv, InitContest, ContestStep, PTL DEF Spec

(* A manifest that says running is somebody's who is running that recipe.  *)
THEOREM RunningsAreOwned == Spec => []RunningIsOwned
<1>1. RunInv /\ Contest => RunningIsOwned
  BY DEF RunInv, LockIsAlive, Owning, KnowledgeOf, Contest, Busy, Somebody, RunningIsOwned
<1>2. QED BY <1>1, InitInv, StepInv, InitContest, ContestStep, PTL DEF Spec
=============================================================================
