------------------------- MODULE ReleaseGateProofs --------------------------
(***************************************************************************)
(* Proofs about ReleaseGate, for any releases, changes, gates and breaks:  *)
(* the evidence of one moment, what a complete bundle holds, what the      *)
(* download directories hold, and what blocks the next gate.               *)
(***************************************************************************)
EXTENDS ReleaseGate, PublicEvidenceProofs

GateLabels == {"idle", "stage", "clear", "test", "accept", "build", "inspect", "scan", "copy",
               "sums", "stale", "validate", "site", "smoke", "checksums", "publish",
               "bundle packages", "bundle evidence", "bundle sums"}
Exits == {"none", "ok", "unmarked", "litter", "evidence", "bundle exists", "failed", "killed"}

GateSet == [pc : GateLabels, dir : Dirs, kind : Kinds, bootstrap : BOOLEAN, version : Nat,
            validated : [Pieces -> Contents], exit : Exits]

GateTypes ==
    /\ gate \in GateSet
    /\ source \in [edition : Nat, version : Nat]

(* The generator and the gate take turns.                                  *)
TakeTurns ==
    /\ gate.exit # "none" => gate.pc = "idle"
    /\ gen.pc # "idle" => gate.exit = "ok"

TurnInv == GateTypes /\ TakeTurns /\ EvidenceInv

GateRuns == gate.pc # "idle" => gate.exit = "none" /\ gen.pc = "idle"

LEMMA TurnRuns == TurnInv => GateRuns
BY DEF TurnInv, TakeTurns, GateRuns

-----------------------------------------------------------------------------
(* How a gate's record changes.                                            *)
LEMMA GateAdvances ==
    ASSUME gate \in GateSet, NEW pc \in GateLabels, gate' = [gate EXCEPT !.pc = pc]
    PROVE  /\ gate' \in GateSet /\ gate'.pc = pc /\ gate'.exit = gate.exit
           /\ gate'.dir = gate.dir /\ gate'.kind = gate.kind /\ gate'.bootstrap = gate.bootstrap
           /\ gate'.version = gate.version /\ gate'.validated = gate.validated
BY DEF GateSet

LEMMA GateIsOver ==
    ASSUME NEW how \in Exits, GateEnds(how)
    PROVE  /\ gate' \in GateSet /\ gate'.pc = "idle" /\ gate'.exit = how
           /\ gate'.dir = "dist" /\ gate'.kind = "wheel"
<1>1. gate' = [pc |-> "idle", dir |-> "dist", kind |-> "wheel", bootstrap |-> FALSE, version |-> 0,
               validated |-> AllAbsent, exit |-> how]
  BY DEF GateEnds, NoGate
<1>2. QED
  BY <1>1, AbsentIsContents DEF GateSet, GateLabels, Dirs, Kinds

LEMMA GateEachKind ==
    ASSUME gate \in GateSet, NEW label \in GateLabels, NEW done \in GateLabels,
           EachKind(label, done)
    PROVE  /\ gate' \in GateSet /\ gate'.exit = gate.exit
           /\ gate'.dir = gate.dir /\ gate'.bootstrap = gate.bootstrap
           /\ gate'.version = gate.version /\ gate'.validated = gate.validated
           /\ gate.kind = "wheel" => gate'.pc = label /\ gate'.kind = "sdist"
           /\ gate.kind # "wheel" => gate'.pc = done /\ gate'.kind = "wheel"
<1>1. CASE gate.kind = "wheel"
  BY <1>1 DEF GateSet, EachKind, Kinds
<1>2. CASE gate.kind # "wheel"
  BY <1>2 DEF GateSet, EachKind, Kinds
<1>3. QED
  BY <1>1, <1>2

LEMMA GateNextDirectory ==
    ASSUME gate \in GateSet, NextDirectory
    PROVE  /\ gate' \in GateSet /\ gate'.exit = gate.exit
           /\ gate'.kind = gate.kind /\ gate'.bootstrap = gate.bootstrap
           /\ gate'.version = gate.version /\ gate'.validated = gate.validated
           /\ gate.dir = "dist" => gate'.pc = "scan" /\ gate'.dir = "downloads"
           /\ gate.dir # "dist" => gate'.pc = "validate" /\ gate'.dir = "dist"
<1>1. CASE gate.dir = "dist"
  BY <1>1 DEF GateSet, NextDirectory, Dirs, GateLabels
<1>2. CASE gate.dir # "dist"
  BY <1>2 DEF GateSet, NextDirectory, Dirs, GateLabels
<1>3. QED
  BY <1>1, <1>2

LEMMA GateStarts ==
    ASSUME NEW bootstrap \in BOOLEAN,
           gate' = [NoGate EXCEPT !.pc = "stage", !.bootstrap = bootstrap]
    PROVE  /\ gate' \in GateSet /\ gate'.pc = "stage" /\ gate'.exit = "none"
           /\ gate'.dir = "dist" /\ gate'.kind = "wheel" /\ gate'.bootstrap = bootstrap
<1> DEFINE none == [pc |-> "idle", dir |-> "dist", kind |-> "wheel", bootstrap |-> FALSE,
                    version |-> 0, validated |-> AllAbsent, exit |-> "none"]
<1>1. none \in GateSet
  BY AbsentIsContents DEF GateSet, GateLabels, Dirs, Kinds, Exits
<1>2. none.dir = "dist" /\ none.kind = "wheel" /\ none.exit = "none"
  OBVIOUS
<1>3. gate' = [none EXCEPT !.pc = "stage", !.bootstrap = bootstrap]
  BY DEF NoGate
<1> HIDE DEF none
<1>4. QED
  BY <1>1, <1>2, <1>3 DEF GateSet, GateLabels

-----------------------------------------------------------------------------
(* A gate's step leaves what the generator has alone but for the packages, *)
(* and ends or goes on.                                                    *)
GateGoesOn ==
    /\ gate.pc # "idle" /\ gate' \in GateSet
    /\ gate'.exit = gate.exit \/ gate'.pc = "idle"
    /\ UNCHANGED <<gen, moment, evidence, changes, source, gates, cut>>
    /\ world' \in [Pieces -> Contents]

LEMMA GateStepGoesOn ==
    ASSUME TurnInv, GateStep
    PROVE GateGoesOn
<1> USE DEF GateAt, NothingElse
<1>1. gate \in GateSet /\ world \in [Pieces -> Contents] /\ source \in [edition : Nat,
version : Nat]
  BY Fields DEF TurnInv, GateTypes
<1> USE <1>1
<1>A. ASSUME NEW pc \in GateLabels, GateGoes(pc) PROVE gate' \in GateSet /\ gate'.exit = gate.exit
  BY <1>A, GateAdvances DEF GateGoes
<1>B. ASSUME NEW how \in Exits, GateEnds(how) PROVE gate' \in GateSet /\ gate'.pc = "idle"
  BY <1>B, GateIsOver
<1>2. CASE PrepareStage
  BY <1>2, <1>A, <1>B DEF PrepareStage, GateGoesOn, GateLabels, Exits
<1>3. CASE ClearStage
  <2>1. world' \in [Pieces -> Contents]
    BY <1>3, AbsentIsContents DEF ClearStage
  <2>2. QED
    BY <1>3, <2>1 DEF ClearStage, GateGoesOn
<1>4. CASE MarkStage
  BY <1>4, <1>A DEF MarkStage, GateGoesOn, GateLabels, Exits
<1>5. CASE RunTests
  BY <1>5, <1>A DEF RunTests, GateGoesOn, GateLabels, Exits
<1>6. CASE AcceptFixture
  BY <1>6, <1>A DEF AcceptFixture, GateGoesOn, GateLabels, Exits
<1>7. CASE BuildPackages
  <2>1. world' \in [Pieces -> Contents]
    BY <1>7 DEF BuildPackages, Contents
  <2>2. gate' \in GateSet /\ gate'.exit = gate.exit
    BY <1>7 DEF BuildPackages, GateSet, GateLabels
  <2>3. QED
    BY <1>7, <2>1, <2>2 DEF BuildPackages, GateGoesOn
<1>8. CASE InspectPackages
  BY <1>8, <1>A DEF InspectPackages, GateGoesOn, GateLabels, Exits
<1>9. CASE ScanDirectory
  BY <1>9, <1>A, <1>B DEF ScanDirectory, GateGoesOn, GateLabels, Exits
<1>10. CASE CopyPackage
  <2>1. CASE gate.dir = "dist"
    BY <1>10, <2>1, GateEachKind DEF CopyPackage, GateGoesOn, GateLabels
  <2>2. CASE gate.dir # "dist"
    BY <1>10, <2>2, GateEachKind DEF CopyPackage, GateGoesOn, GateLabels
  <2>3. QED
    BY <2>1, <2>2
<1>11. CASE WriteSums
  BY <1>11, <1>A DEF WriteSums, GateGoesOn, GateLabels, Exits
<1>12. CASE RemoveStale
  BY <1>12, GateNextDirectory DEF RemoveStale, GateGoesOn
<1>13. CASE ValidateEvidence
  <2>1. CASE gate.bootstrap
    BY <1>13, <2>1, <1>A DEF ValidateEvidence, GateGoesOn, GateLabels
  <2>2. CASE ~gate.bootstrap /\ evidence # AllAbsent /\ Binds(evidence)
    <3>1. gate' = [gate EXCEPT !.pc = "site", !.validated = evidence]
      BY <1>13, <2>2 DEF ValidateEvidence
    <3>2. evidence \in [Pieces -> Contents]
      BY DEF TurnInv, EvidenceInv
    <3>3. gate' \in GateSet /\ gate'.exit = gate.exit
      BY <3>1, <3>2 DEF GateSet, GateLabels
    <3>4. QED
      BY <1>13, <3>3 DEF ValidateEvidence, GateGoesOn
  <2>3. CASE ~gate.bootstrap /\ ~(evidence # AllAbsent /\ Binds(evidence))
    BY <1>13, <2>3, <1>B DEF ValidateEvidence, GateGoesOn, Exits
  <2>4. QED
    BY <2>1, <2>2, <2>3
<1>14. CASE ValidateSite
  BY <1>14, <1>A DEF ValidateSite, GateGoesOn, GateLabels, Exits
<1>15. CASE SmokeInstall
  BY <1>15, GateEachKind DEF SmokeInstall, GateGoesOn, GateLabels
<1>16. CASE WriteChecksums
  BY <1>16, <1>A, <1>B DEF WriteChecksums, GateGoesOn, GateLabels, Exits
<1>17. CASE OpenBundle
  BY <1>17, <1>A, <1>B DEF OpenBundle, GateGoesOn, GateLabels, Exits
<1>18. CASE BundlePackages
  BY <1>18, <1>A DEF BundlePackages, GateGoesOn, GateLabels, Exits
<1>19. CASE BundleEvidence
  BY <1>19, <1>A DEF BundleEvidence, GateGoesOn, GateLabels, Exits
<1>20. CASE BundleSums
  BY <1>20, <1>B DEF BundleSums, GateGoesOn, GateLabels, Exits
<1>21. QED
  BY <1>2, <1>3, <1>4, <1>5, <1>6, <1>7, <1>8, <1>9, <1>10, <1>11, <1>12, <1>13, <1>14, <1>15,
     <1>16, <1>17, <1>18, <1>19, <1>20 DEF GateStep

LEMMA WorldChangesIdle ==
    ASSUME EvidenceInv, gen.pc = "idle", UNCHANGED <<gen, moment, evidence, changes>>,
           world' \in [Pieces -> Contents]
    PROVE EvidenceInv'
<1>1. PlaceOf = 0 /\ PlaceOf' = 0
  BY DEF PlaceOf, Place
<1>2. Knows(0, gen.seen, gen.parsed, gen.code, moment, world')
  BY DEF Knows, RecordedBefore, ParsedBetween, BelongTogether, MomentBetween, MomentIsSeen
<1>3. QED
  BY <1>1, <1>2 DEF EvidenceInv

LEMMA OwnersChangeKeeps ==
    ASSUME EvidenceInv, UNCHANGED <<world, gen, moment>>, evidence' \in [Pieces -> Contents],
           changes' \in Nat
    PROVE EvidenceInv'
BY DEF EvidenceInv, PlaceOf

(* The steps of the generator, in a session where no gate runs.            *)
GeneratorTurn == gate.exit = "ok" /\ (StartGenerator \/ GeneratorStep) /\ UNCHANGED gateVars

LEMMA TurnStepInv == TurnInv /\ [GateNext]_<<evidenceVars, gateVars>> => TurnInv'
<1> SUFFICES ASSUME TurnInv, [GateNext]_<<evidenceVars, gateVars>> PROVE TurnInv'
  OBVIOUS
<1> USE DEF gateVars
<1>1. CASE UNCHANGED <<evidenceVars, gateVars>>
  <2>1. EvidenceInv'
    BY <1>1, EvidenceStepInv DEF TurnInv
  <2>2. QED
    BY <1>1, <2>1 DEF TurnInv, GateTypes, TakeTurns, evidenceVars
<1>2. CASE \E bootstrap \in BOOLEAN : StartGate(bootstrap)
  <2>1. PICK bootstrap \in BOOLEAN : StartGate(bootstrap)
    BY <1>2
  <2>2. gate' \in GateSet /\ gate'.pc = "stage" /\ gate'.exit = "none"
    BY <2>1, GateStarts DEF StartGate
  <2>3. UNCHANGED <<evidenceVars, source>> /\ gen.pc = "idle"
    BY <2>1 DEF StartGate
  <2>4. EvidenceInv'
    BY <2>3, EvidenceStepInv DEF TurnInv
  <2>5. QED
    BY <2>2, <2>3, <2>4 DEF TurnInv, GateTypes, TakeTurns, evidenceVars
<1>3. CASE GateStep
  <2>1. GateGoesOn /\ GateRuns
    BY <1>3, GateStepGoesOn, TurnRuns
  <2>2. EvidenceInv'
    BY <2>1, WorldChangesIdle DEF GateGoesOn, GateRuns, TurnInv
  <2>3. QED
    BY <2>1, <2>2 DEF TurnInv, GateTypes, TakeTurns, GateGoesOn, GateRuns
<1>4. CASE GateFails \/ GateKilled
  <2>1. gate' \in GateSet /\ gate'.pc = "idle" /\ gate'.exit \in {"failed", "killed"}
    BY <1>4, GateIsOver DEF GateFails, GateKilled, Exits
  <2>2. UNCHANGED <<evidenceVars, source>> /\ gate.pc # "idle"
    BY <1>4 DEF GateFails, GateKilled, Breaks
  <2>3. EvidenceInv'
    BY <2>2, EvidenceStepInv DEF TurnInv
  <2>4. QED
    BY <2>1, <2>2, <2>3, TurnRuns DEF TurnInv, GateTypes, TakeTurns, evidenceVars, GateRuns
<1>5. CASE GeneratorTurn
  <2>1. EvidenceInv'
    BY <1>5, EvidenceStepInv DEF TurnInv, EvidenceNext, GeneratorTurn
  <2>2. QED
    BY <1>5, <2>1 DEF TurnInv, GateTypes, TakeTurns, GeneratorTurn
<1>6. CASE OwnersChange
  <2>1. EvidenceInv'
    BY <1>6, ReplacePieceInv DEF TurnInv, OwnersChange
  <2>2. gen' = gen /\ UNCHANGED gateVars
    BY <1>6 DEF OwnersChange, ReplacePiece
  <2>3. QED
    BY <2>1, <2>2 DEF TurnInv, GateTypes, TakeTurns
<1>7. CASE EditSource
  <2>1. changes' \in Nat /\ evidence' \in [Pieces -> Contents] /\ UNCHANGED <<world, gen, moment,
  gate>>
    BY <1>7 DEF EditSource, TurnInv, EvidenceInv
  <2>2. EvidenceInv'
    BY <2>1, OwnersChangeKeeps DEF TurnInv
  <2>3. source' \in [edition : Nat, version : Nat]
    BY <1>7 DEF EditSource, TurnInv, GateTypes
  <2>4. QED
    BY <2>1, <2>2, <2>3 DEF TurnInv, GateTypes, TakeTurns
<1>8. CASE RestoreEvidence
  <2>1. FirstRecord \in [Pieces -> Contents]
    BY DEF FirstRecord, Contents
  <2>2. changes' \in Nat /\ evidence' \in [Pieces -> Contents] /\ UNCHANGED <<world, gen, moment,
  gateVars>>
    BY <1>8, <2>1 DEF RestoreEvidence, TurnInv, EvidenceInv
  <2>3. EvidenceInv'
    BY <2>2, OwnersChangeKeeps DEF TurnInv
  <2>4. QED
    BY <2>2, <2>3 DEF TurnInv, GateTypes, TakeTurns
<1>9. QED
  BY <1>1, <1>2, <1>3, <1>4, <1>5, <1>6, <1>7, <1>8 DEF GateNext, GeneratorTurn

LEMMA TurnInitInv == GateInit => TurnInv
<1> SUFFICES ASSUME GateInit PROVE TurnInv
  OBVIOUS
<1>1. EvidenceInv
  BY EvidenceInitInv DEF GateInit
<1>2. gate \in GateSet /\ gate.pc = "idle" /\ gate.exit = "none"
  BY AbsentIsContents DEF GateInit, NoGate, GateSet, GateLabels, Dirs, Kinds, Exits
<1>3. gen.pc = "idle"
  BY DEF GateInit, EvidenceInit, NotGenerating
<1>4. QED
  BY <1>1, <1>2, <1>3 DEF GateInit, TurnInv, GateTypes, TakeTurns

(* Between gates, too, what the generator writes describes one moment.     *)
THEOREM GatesRecordOneMoment == GateSpec => []EvidenceIsOneMoment
<1>1. GateInit => TurnInv
  BY TurnInitInv
<1>2. TurnInv /\ [GateNext]_<<evidenceVars, gateVars>> => TurnInv'
  BY TurnStepInv
<1>3. TurnInv => EvidenceIsOneMoment
  BY EvidenceInvImplies DEF TurnInv
<1>4. QED
  BY <1>1, <1>2, <1>3, PTL DEF GateSpec

-----------------------------------------------------------------------------
(* The bundle.  Its packages are those of the stage for as long as both    *)
(* are there, and what a complete one was validated against is sound and   *)
(* about them.                                                             *)
Sound(record) ==
    /\ record["warm"].of = record["cold"].of /\ record["tools"].of = record["cold"].of
    /\ record["wheel"].of = record["cold"].of
    /\ record["channel"].of = record["warm"].at

StageSet == {"foreign", "marker", "reports", "packages", "publish"}
BundleSet == [wheel : Nat, sdist : Nat, evidence : [Pieces -> Contents],
              validated : [Pieces -> Contents], complete : BOOLEAN]

BundleTypes ==
    /\ stage \subseteq StageSet /\ bundle \in BundleSet
    /\ bundle = NoBundle \/ "publish" \in stage

PackagesAreOne ==
    /\ world["wheel"] = world["sdist"] /\ world["wheel"].at = world["wheel"].of
    /\ bundle.wheel = bundle.sdist
    /\ bundle # NoBundle /\ "packages" \in stage => bundle.wheel = world["wheel"].at

EvidenceIsSound ==
    /\ Sound(evidence)
    /\ bundle.complete => /\ Sound(bundle.validated)
                          /\ bundle.validated["wheel"].of = bundle.wheel
                          /\ bundle.validated["wheel"].at = bundle.wheel
                          /\ bundle.validated["sdist"].at = bundle.wheel

(* What the gate has established where it is.                              *)
GateKnows ==
    /\ gate.pc \in {"test", "accept", "build"} => "packages" \notin stage /\ "publish" \notin stage
    /\ gate.pc \in {"publish", "bundle packages", "bundle evidence", "bundle sums"} =>
          gate.bootstrap = FALSE
    /\ gate.pc \in {"site", "smoke", "checksums", "publish", "bundle packages", "bundle evidence",
                    "bundle sums"} /\ gate.bootstrap = FALSE =>
          /\ Sound(gate.validated)
          /\ gate.validated["wheel"] = world["wheel"] /\ gate.validated["sdist"] = world["sdist"]
    /\ gate.pc \in {"bundle packages", "bundle evidence", "bundle sums"} => "publish" \in stage
    /\ gate.pc \in {"bundle evidence", "bundle sums"} => bundle.wheel = world["wheel"].at
    /\ gate.pc = "bundle sums" => bundle.validated = gate.validated

BundleInv == BundleTypes /\ PackagesAreOne /\ EvidenceIsSound /\ GateKnows

LEMMA EmptyBundle ==
    /\ NoBundle \in BundleSet /\ NoBundle.complete = FALSE /\ NoBundle.wheel = NoBundle.sdist
BY AbsentIsContents DEF NoBundle, BundleSet

LEMMA SoundRecords == Sound(AllAbsent) /\ Sound(FirstRecord)
BY PiecesAre DEF Sound, AllAbsent, FirstRecord, Absent

(* A gate's step that touches neither the packages nor the bundle nor, but *)
(* for adding reports, the stage.                                          *)
LEMMA BundleKept ==
    ASSUME BundleInv, UNCHANGED <<evidence, bundle>>, stage' \subseteq StageSet,
           "packages" \in stage' => "packages" \in stage,
           "publish" \in stage => "publish" \in stage',
           world'["wheel"] = world["wheel"], world'["sdist"] = world["sdist"], GateKnows'
    PROVE BundleInv'
BY DEF BundleInv, BundleTypes, PackagesAreOne, EvidenceIsSound

(* What the bundle is about to be complete with.                           *)
LEMMA GatedBundle ==
    ASSUME BundleInv, gate.pc \in {"bundle evidence", "bundle sums"}
    PROVE  /\ Sound(gate.validated)
           /\ gate.validated["wheel"].of = bundle.wheel /\ gate.validated["wheel"].at = bundle.wheel
           /\ gate.validated["sdist"].at = bundle.wheel
           /\ gate.pc = "bundle sums" => bundle.validated = gate.validated
<1>1. gate.bootstrap = FALSE /\ bundle.wheel = world["wheel"].at
  BY DEF BundleInv, GateKnows
<1>2. /\ Sound(gate.validated)
      /\ gate.validated["wheel"] = world["wheel"] /\ gate.validated["sdist"] = world["sdist"]
  BY <1>1 DEF BundleInv, GateKnows
<1>3. QED
  BY <1>1, <1>2 DEF BundleInv, GateKnows, PackagesAreOne

LEMMA BundleGateStep ==
    ASSUME TurnInv, BundleInv, GateStep
    PROVE BundleInv'
<1> USE DEF GateAt, NothingElse
<1>1. gate \in GateSet /\ world \in [Pieces -> Contents] /\ source \in [edition : Nat,
version : Nat]
  BY Fields DEF TurnInv, GateTypes
<1> USE <1>1
<1>2. ASSUME NEW pc \in GateLabels, GateGoes(pc)
      PROVE  gate'.pc = pc /\ gate'.bootstrap = gate.bootstrap /\ gate'.validated = gate.validated
  BY <1>2, GateAdvances DEF GateGoes
<1>3. ASSUME NEW how \in Exits, GateEnds(how) PROVE gate'.pc = "idle" /\ GateKnows'
  <2>1. gate'.pc = "idle"
    BY <1>3, GateIsOver
  <2>2. QED
    BY <2>1 DEF GateKnows
<1>4. CASE PrepareStage
  <2>1. GateKnows'
    BY <1>4, <1>2, <1>3 DEF PrepareStage, BundleInv, GateKnows, GateLabels, Exits, Sound
  <2>2. QED
    BY <1>4, <2>1, BundleKept DEF PrepareStage, StageSet, BundleInv, BundleTypes
<1>5. CASE ClearStage
  <2>1. PICK child \in stage :
           /\ stage' = stage \ {child}
           /\ world' = IF child = "packages" THEN [p \in Pieces |-> IF p \in Kinds THEN Absent
                                                                    ELSE world[p]] ELSE world
           /\ bundle' = IF child = "publish" THEN NoBundle ELSE bundle
    BY <1>5 DEF ClearStage
  <2>2. UNCHANGED <<gate, evidence>> /\ gate.pc = "clear"
    BY <1>5 DEF ClearStage
  <2>3. GateKnows'
    BY <2>2 DEF GateKnows
  <2>4. BundleTypes'
    BY <2>1, EmptyBundle DEF BundleInv, BundleTypes
  <2>5. PackagesAreOne'
    <3>1. CASE child = "packages"
      <4>1. world'["wheel"] = Absent /\ world'["sdist"] = Absent /\ "packages" \notin stage'
        BY <2>1, <3>1, PiecesAre DEF Kinds
      <4>2. bundle' = bundle
        BY <2>1, <3>1
      <4>3. QED
        BY <4>1, <4>2 DEF BundleInv, PackagesAreOne, Absent
    <3>2. CASE child = "publish"
      BY <2>1, <3>2, EmptyBundle DEF BundleInv, PackagesAreOne
    <3>3. CASE child # "packages" /\ child # "publish"
      BY <2>1, <3>3 DEF BundleInv, PackagesAreOne
    <3>4. QED
      BY <3>1, <3>2, <3>3
  <2>6. EvidenceIsSound'
    BY <2>1, <2>2, EmptyBundle DEF BundleInv, EvidenceIsSound
  <2>7. QED
    BY <2>3, <2>4, <2>5, <2>6 DEF BundleInv
<1>6. CASE MarkStage
  <2>1. GateKnows'
    BY <1>6, <1>2 DEF MarkStage, BundleInv, GateKnows, GateLabels, Exits, Sound
  <2>2. QED
    BY <1>6, <2>1, BundleKept DEF MarkStage, StageSet, BundleInv, BundleTypes
<1>7. CASE RunTests
  <2>1. GateKnows'
    BY <1>7, <1>2 DEF RunTests, BundleInv, GateKnows, GateLabels, Exits, Sound
  <2>2. QED
    BY <1>7, <2>1, BundleKept DEF RunTests, StageSet, BundleInv, BundleTypes
<1>8. CASE AcceptFixture
  <2>1. GateKnows'
    BY <1>8, <1>2 DEF AcceptFixture, BundleInv, GateKnows, GateLabels, Exits, Sound
  <2>2. QED
    BY <1>8, <2>1, BundleKept DEF AcceptFixture, StageSet, BundleInv, BundleTypes
<1>9. CASE BuildPackages
  <2>1. /\ gate.pc = "build" /\ gate'.pc = "inspect" /\ UNCHANGED <<evidence, bundle>>
        /\ stage' = stage \union {"packages"}
        /\ world' = [p \in Pieces |-> IF p \in Kinds
                                      THEN [at |-> source.edition, of |-> source.edition]
                                      ELSE world[p]]
    BY <1>9 DEF BuildPackages, GateSet
  <2>2. bundle = NoBundle
    BY <2>1 DEF BundleInv, BundleTypes, GateKnows
  <2>3. GateKnows'
    BY <2>1 DEF GateKnows
  <2>4. world'["wheel"] = world'["sdist"] /\ world'["wheel"].at = world'["wheel"].of
    BY <2>1, PiecesAre DEF Kinds
  <2>5. BundleTypes'
    BY <2>1, <2>2 DEF BundleInv, BundleTypes, StageSet
  <2>6. QED
    BY <2>1, <2>2, <2>3, <2>4, <2>5 DEF BundleInv, PackagesAreOne, EvidenceIsSound
<1>10. CASE InspectPackages
  <2>1. GateKnows'
    BY <1>10, <1>2 DEF InspectPackages, BundleInv, GateKnows, GateLabels, Exits, Sound
  <2>2. QED
    BY <1>10, <2>1, BundleKept DEF InspectPackages, StageSet, BundleInv, BundleTypes
<1>11. CASE ScanDirectory
  <2>1. GateKnows'
    BY <1>11, <1>2, <1>3 DEF ScanDirectory, BundleInv, GateKnows, GateLabels, Exits, Sound
  <2>2. QED
    BY <1>11, <2>1, BundleKept DEF ScanDirectory, StageSet, BundleInv, BundleTypes
<1>12. CASE CopyPackage
  <2>1. gate'.pc \in {"copy", "stale", "sums"}
    <3>1. CASE gate.dir = "dist"
      BY <1>12, <3>1, GateEachKind DEF CopyPackage, GateLabels
    <3>2. CASE gate.dir # "dist"
      BY <1>12, <3>2, GateEachKind DEF CopyPackage, GateLabels
    <3>3. QED
      BY <3>1, <3>2
  <2>2. GateKnows'
    BY <2>1 DEF GateKnows
  <2>3. QED
    BY <1>12, <2>2, BundleKept DEF CopyPackage, BundleInv, BundleTypes
<1>13. CASE WriteSums
  <2>1. GateKnows'
    BY <1>13, <1>2 DEF WriteSums, BundleInv, GateKnows, GateLabels, Exits, Sound
  <2>2. QED
    BY <1>13, <2>1, BundleKept DEF WriteSums, StageSet, BundleInv, BundleTypes
<1>14. CASE RemoveStale
  <2>1. gate'.pc \in {"scan", "validate"}
    BY <1>14, GateNextDirectory DEF RemoveStale
  <2>2. GateKnows'
    BY <2>1 DEF GateKnows
  <2>3. QED
    BY <1>14, <2>2, BundleKept DEF RemoveStale, BundleInv, BundleTypes
<1>15. CASE ValidateEvidence
  <2>1. ASSUME gate.bootstrap = TRUE PROVE GateKnows'
    <3>1. GateGoes("site")
      BY <1>15, <2>1 DEF ValidateEvidence
    <3>2. gate'.pc = "site" /\ gate'.bootstrap = TRUE
      BY <2>1, <3>1, <1>2 DEF GateLabels
    <3>3. QED
      BY <3>2 DEF GateKnows
  <2>2. ASSUME gate.bootstrap = FALSE, evidence # AllAbsent, Binds(evidence) PROVE GateKnows'
    <3>1. gate' = [gate EXCEPT !.pc = "site", !.validated = evidence]
      BY <1>15, <2>2 DEF ValidateEvidence
    <3>2. gate'.pc = "site" /\ gate'.validated = evidence
      BY <3>1 DEF GateSet
    <3>3. /\ Sound(evidence) /\ evidence["wheel"] = world["wheel"]
          /\ evidence["sdist"] = world["sdist"]
      BY <2>2 DEF BundleInv, EvidenceIsSound, Binds, Kinds
    <3>4. Sound(gate'.validated) /\ gate'.validated["wheel"] = world'["wheel"]
          /\ gate'.validated["sdist"] = world'["sdist"]
      BY <1>15, <3>2, <3>3 DEF ValidateEvidence
    <3>5. QED
      BY <3>2, <3>4 DEF GateKnows
  <2>3. ASSUME gate.bootstrap = FALSE, ~(evidence # AllAbsent /\ Binds(evidence))
        PROVE GateKnows'
    <3>1. GateEnds("evidence")
      BY <1>15, <2>3 DEF ValidateEvidence
    <3>2. QED
      BY <3>1, <1>3 DEF Exits
  <2>4. GateKnows'
    BY <2>1, <2>2, <2>3, <1>1 DEF GateSet
  <2>5. QED
    BY <1>15, <2>4, BundleKept DEF ValidateEvidence, BundleInv, BundleTypes
<1>16. CASE ValidateSite
  <2>1. GateKnows'
    BY <1>16, <1>2 DEF ValidateSite, BundleInv, GateKnows, GateLabels, Exits, Sound
  <2>2. QED
    BY <1>16, <2>1, BundleKept DEF ValidateSite, StageSet, BundleInv, BundleTypes
<1>17. CASE SmokeInstall
  <2>1. /\ gate'.pc \in {"smoke", "checksums"} /\ gate.pc = "smoke"
        /\ gate'.bootstrap = gate.bootstrap /\ gate'.validated = gate.validated
    BY <1>17, GateEachKind DEF SmokeInstall, GateLabels
  <2>2. GateKnows'
    BY <1>17, <2>1 DEF SmokeInstall, BundleInv, GateKnows, Sound
  <2>3. QED
    BY <1>17, <2>2, BundleKept DEF SmokeInstall, BundleInv, BundleTypes
<1>18. CASE WriteChecksums
  <2>1. CASE gate.bootstrap = TRUE
    <3>1. GateEnds("ok")
      BY <1>18, <2>1 DEF WriteChecksums
    <3>2. QED
      BY <1>18, <3>1, <1>3, BundleKept DEF WriteChecksums, BundleInv, BundleTypes, Exits
  <2>2. CASE gate.bootstrap = FALSE
    <3>1. gate.pc = "checksums" /\ GateGoes("publish") /\ UNCHANGED <<world, stage, bundle,
    evidence>>
      BY <1>18, <2>2 DEF WriteChecksums
    <3>2. gate'.pc = "publish" /\ gate'.bootstrap = FALSE /\ gate'.validated = gate.validated
      BY <2>2, <3>1, <1>2 DEF GateLabels
    <3>3. GateKnows'
      BY <2>2, <3>1, <3>2 DEF GateKnows, BundleInv, Sound
    <3>4. QED
      BY <3>1, <3>3, BundleKept DEF BundleInv, BundleTypes
  <2>3. QED
    BY <2>1, <2>2, <1>1 DEF GateSet
<1>19. CASE OpenBundle
  <2>1. CASE "publish" \in stage
    <3>1. GateKnows' /\ UNCHANGED <<stage, evidence, bundle, world>>
      BY <1>19, <2>1, <1>3 DEF OpenBundle, Exits
    <3>2. QED
      BY <3>1, BundleKept DEF BundleInv, BundleTypes
  <2>2. CASE "publish" \notin stage
    <3>1. /\ gate.pc = "publish" /\ gate'.pc = "bundle packages" /\ gate'.bootstrap = gate.bootstrap
          /\ gate'.validated = gate.validated
          /\ stage' = stage \union {"publish"} /\ UNCHANGED <<evidence, bundle, world>>
      BY <1>19, <2>2, <1>2 DEF OpenBundle, GateLabels
    <3>2. GateKnows'
      BY <3>1 DEF GateKnows, BundleInv, Sound
    <3>3. QED
      BY <3>1, <3>2, BundleKept DEF BundleInv, BundleTypes, StageSet
  <2>3. QED
    BY <2>1, <2>2
<1>20. CASE BundlePackages
  <2> DEFINE b == [NoBundle EXCEPT !.wheel = world["wheel"].at, !.sdist = world["sdist"].at]
  <2>1. /\ gate.pc = "bundle packages" /\ gate'.pc = "bundle evidence"
        /\ gate'.bootstrap = gate.bootstrap /\ gate'.validated = gate.validated
        /\ bundle' = b /\ UNCHANGED <<world, stage, evidence>>
    BY <1>20, <1>2 DEF BundlePackages, GateLabels
  <2>2. /\ b \in BundleSet /\ b.wheel = world["wheel"].at /\ b.sdist = world["sdist"].at
        /\ b.complete = FALSE
    BY EmptyBundle, PiecesAre DEF BundleSet, Contents
  <2> HIDE DEF b
  <2>3. GateKnows'
    BY <2>1, <2>2 DEF GateKnows, BundleInv, Sound
  <2>4. QED
    BY <2>1, <2>2, <2>3 DEF BundleInv, BundleTypes, PackagesAreOne, EvidenceIsSound, GateKnows
<1>21. CASE BundleEvidence
  <2> DEFINE b == [bundle EXCEPT !.evidence = evidence, !.validated = gate.validated]
  <2>1. /\ gate.pc = "bundle evidence" /\ gate'.pc = "bundle sums"
        /\ gate'.bootstrap = gate.bootstrap /\ gate'.validated = gate.validated
        /\ bundle' = b /\ UNCHANGED <<world, stage, evidence>>
    BY <1>21, <1>2 DEF BundleEvidence, GateLabels
  <2>2. /\ b \in BundleSet /\ b.wheel = bundle.wheel /\ b.sdist = bundle.sdist
        /\ b.complete = bundle.complete /\ b.validated = gate.validated
    BY DEF TurnInv, EvidenceInv, BundleInv, BundleTypes, BundleSet, GateSet
  <2> HIDE DEF b
  <2>3. GateKnows'
    BY <2>1, <2>2 DEF GateKnows, BundleInv, Sound
  <2>4. EvidenceIsSound'
    BY <2>1, <2>2, GatedBundle DEF BundleInv, EvidenceIsSound
  <2>5. QED
    BY <2>1, <2>2, <2>3, <2>4 DEF BundleInv, BundleTypes, PackagesAreOne, GateKnows
<1>22. CASE BundleSums
  <2> DEFINE b == [bundle EXCEPT !.complete = TRUE]
  <2>1. /\ gate.pc = "bundle sums" /\ GateKnows'
        /\ bundle' = b /\ UNCHANGED <<world, stage, evidence>>
    BY <1>22, <1>3 DEF BundleSums, Exits
  <2>2. /\ b \in BundleSet /\ b.wheel = bundle.wheel /\ b.sdist = bundle.sdist
        /\ b.validated = bundle.validated
    BY DEF BundleInv, BundleTypes, BundleSet
  <2> HIDE DEF b
  <2>3. EvidenceIsSound'
    BY <2>1, <2>2, GatedBundle DEF BundleInv, EvidenceIsSound
  <2>4. QED
    BY <2>1, <2>2, <2>3 DEF BundleInv, BundleTypes, PackagesAreOne, GateKnows
<1>23. QED
  BY <1>4, <1>5, <1>6, <1>7, <1>8, <1>9, <1>10, <1>11, <1>12, <1>13, <1>14, <1>15, <1>16, <1>17,
     <1>18, <1>19, <1>20, <1>21, <1>22 DEF GateStep

(* What the generator writes is sound, because it is of one moment.        *)
LEMMA WrittenIsSound ==
    ASSUME EvidenceInv, WriteEvidence, Sound(evidence)
    PROVE Sound(evidence')
<1>1. gen.pc = "write"
  BY DEF WriteEvidence
<1>2. /\ \A p \in Pieces \ {"artifacts"} : gen.seen[p] = moment[p]
      /\ \A p \in {"warm", "artifacts", "tools", "wheel"} : moment[p].of = moment["cold"].of
      /\ moment["channel"].of = moment["warm"].at
  BY <1>1, EvidenceInvImplies DEF EvidenceIsOneMoment, Payload
<1>3. Sound(gen.seen)
  BY <1>2, PiecesAre DEF Sound
<1>4. QED
  BY <1>3 DEF WriteEvidence, Payload

LEMMA BundleStepInv == TurnInv /\ BundleInv /\ [GateNext]_<<evidenceVars, gateVars>> => BundleInv'
<1> SUFFICES ASSUME TurnInv, BundleInv, [GateNext]_<<evidenceVars, gateVars>> PROVE BundleInv'
  OBVIOUS
<1> USE DEF gateVars
<1>1. ASSUME UNCHANGED <<world, evidence, stage, bundle>>,
             UNCHANGED gate \/ gate'.pc \in {"idle", "stage"}
      PROVE BundleInv'
  <2>1. GateKnows'
    BY <1>1 DEF BundleInv, GateKnows, Sound
  <2>2. QED
    BY <1>1, <2>1 DEF BundleInv, BundleTypes, PackagesAreOne, EvidenceIsSound
<1>2. ASSUME UNCHANGED <<stage, bundle, gate>>, world'["wheel"] = world["wheel"],
             world'["sdist"] = world["sdist"], Sound(evidence')
      PROVE BundleInv'
  <2>1. GateKnows'
    BY <1>2 DEF BundleInv, GateKnows, Sound
  <2>2. QED
    BY <1>2, <2>1 DEF BundleInv, BundleTypes, PackagesAreOne, EvidenceIsSound
<1>3. CASE UNCHANGED <<evidenceVars, gateVars>>
  BY <1>1, <1>3 DEF evidenceVars
<1>4. CASE \E bootstrap \in BOOLEAN : StartGate(bootstrap)
  BY <1>1, <1>4, GateStarts DEF StartGate, evidenceVars
<1>5. CASE GateStep
  BY <1>5, BundleGateStep
<1>6. CASE GateFails \/ GateKilled
  BY <1>1, <1>6, GateIsOver DEF GateFails, GateKilled, Breaks, Exits, evidenceVars
<1>7. CASE GeneratorTurn
  <2>1. Sound(evidence') /\ UNCHANGED <<world, gateVars>>
    <3>1. CASE WriteEvidence
      BY <1>7, <3>1, WrittenIsSound DEF TurnInv, BundleInv, EvidenceIsSound, GeneratorTurn,
         WriteEvidence
    <3>2. CASE ~WriteEvidence
      <4>1. UNCHANGED <<evidence, world, gateVars>>
        BY <1>7, <3>2 DEF GeneratorTurn, StartGenerator, GeneratorStep, GeneratorStops
      <4>2. QED
        BY <4>1 DEF BundleInv, EvidenceIsSound, Sound
    <3>3. QED
      BY <3>1, <3>2
  <2>2. QED
    BY <1>2, <2>1
<1>8. CASE OwnersChange
  <2>1. PICK piece \in Pieces \ Kinds : ReplacePiece(piece)
    BY <1>8 DEF OwnersChange
  <2>2. world'["wheel"] = world["wheel"] /\ world'["sdist"] = world["sdist"]
    BY <2>1, Fields, PiecesAre DEF ReplacePiece, Kinds, TurnInv
  <2>3. UNCHANGED <<stage, bundle, gate, evidence>>
    BY <1>8, <2>1 DEF OwnersChange, ReplacePiece
  <2>4. Sound(evidence')
    BY <2>3 DEF BundleInv, EvidenceIsSound, Sound
  <2>5. QED
    BY <1>2, <2>2, <2>3, <2>4
<1>9. CASE EditSource
  BY <1>1, <1>9 DEF EditSource
<1>10. CASE RestoreEvidence
  BY <1>2, <1>10, SoundRecords DEF RestoreEvidence, Sound
<1>11. QED
  BY <1>3, <1>4, <1>5, <1>6, <1>7, <1>8, <1>9, <1>10 DEF GateNext, GeneratorTurn

LEMMA BundleInitInv == GateInit => BundleInv
<1> SUFFICES ASSUME GateInit PROVE BundleInv
  OBVIOUS
<1>1. gate.pc = "idle"
  BY DEF GateInit, NoGate
<1>2. GateKnows
  BY <1>1 DEF GateKnows
<1>3. Sound(evidence)
  BY SoundRecords DEF GateInit, EvidenceInit
<1>4. world["wheel"] = world["sdist"] /\ world["wheel"].at = world["wheel"].of
  BY PiecesAre DEF GateInit, EvidenceInit, FirstRecord
<1>5. stage \subseteq StageSet /\ bundle = NoBundle
  BY DEF GateInit, StageSet
<1>6. QED
  BY <1>2, <1>3, <1>4, <1>5, EmptyBundle DEF BundleInv, BundleTypes, PackagesAreOne, EvidenceIsSound

LEMMA BundleInvImplies == BundleInv => BundleIsGated
<1> SUFFICES ASSUME BundleInv, bundle.complete
             PROVE  /\ "packages" \in stage => \A kind \in Kinds : bundle[kind] = world[kind].at
                    /\ bundle.wheel = bundle.sdist
                    /\ \A kind \in Kinds : bundle.validated[kind].at = bundle[kind]
                    /\ \A p \in {"cold", "warm", "tools"} :
                          bundle.validated[p].of = bundle.wheel
                    /\ bundle.validated["channel"].of = bundle.validated["warm"].at
  BY DEF BundleIsGated
<1>1. bundle # NoBundle
  BY EmptyBundle
<1>2. bundle["wheel"] = bundle.wheel /\ bundle["sdist"] = bundle.sdist
  OBVIOUS
<1>3. "packages" \in stage => \A kind \in Kinds : bundle[kind] = world[kind].at
  BY <1>1, <1>2 DEF BundleInv, PackagesAreOne, Kinds
<1>4. bundle.wheel = bundle.sdist
  BY DEF BundleInv, PackagesAreOne
<1>5. /\ Sound(bundle.validated) /\ bundle.validated["wheel"].of = bundle.wheel
      /\ \A kind \in Kinds : bundle.validated[kind].at = bundle[kind]
  BY <1>2, <1>4 DEF BundleInv, EvidenceIsSound, Kinds
<1>6. QED
  BY <1>3, <1>4, <1>5 DEF Sound

(* What is published is the inspected pair, and only after evidence about  *)
(* exactly this pair was validated.                                        *)
THEOREM BundlesAreGated == GateSpec => []BundleIsGated
<1>1. GateInit => TurnInv /\ BundleInv
  BY TurnInitInv, BundleInitInv
<1>2. TurnInv /\ BundleInv /\ [GateNext]_<<evidenceVars, gateVars>> => (TurnInv /\ BundleInv)'
  BY TurnStepInv, BundleStepInv
<1>3. TurnInv /\ BundleInv => BundleIsGated
  BY BundleInvImplies
<1>4. QED
  BY <1>1, <1>2, <1>3, PTL DEF GateSpec

-----------------------------------------------------------------------------
(* What blocks.  A stage that is not being cleared is empty, marked or     *)
(* foreign, and a directory is clean, unless a gate was cut off.           *)
PackageSet == [kind : Kinds, version : Nat, edition : Nat]
DirSet == [files : SUBSET PackageSet, litter : BOOLEAN, sums : SUBSET PackageSet]

BlockInv ==
    /\ \A d \in Dirs : dirs[d].litter = TRUE => cut
    /\ ~cut /\ gate.pc # "clear" => stage = {} \/ "marker" \in stage \/ "foreign" \in stage
    /\ gate.pc \notin {"idle", "stage", "clear"} => "marker" \in stage
    /\ gate.exit = "unmarked" => cut \/ "foreign" \in stage
    /\ gate.exit = "litter" => cut

LEMMA FileIsPackage ==
    ASSUME TurnInv
    PROVE  \A kind \in Kinds : File(kind) \in PackageSet
BY Fields DEF TurnInv, GateTypes, GateSet, File, PackageSet, Contents, Kinds, Pieces

(* The three ways in which a gate's step changes the directories.          *)
FilesOf(files) == dirs' = [dirs EXCEPT ![gate.dir].files = files]

LEMMA FilesChange ==
    ASSUME dirs \in [Dirs -> DirSet], gate.dir \in Dirs, NEW files \in SUBSET PackageSet,
           FilesOf(files)
    PROVE  /\ dirs' \in [Dirs -> DirSet] /\ dirs'[gate.dir].files = files
           /\ dirs'[gate.dir].litter = dirs[gate.dir].litter
           /\ dirs'[gate.dir].sums = dirs[gate.dir].sums
           /\ \A d \in Dirs \ {gate.dir} : dirs'[d] = dirs[d]
<1> DEFINE rec == [dirs[gate.dir] EXCEPT !.files = files]
<1>1. dirs' = [dirs EXCEPT ![gate.dir] = rec]
  BY DEF FilesOf
<1>2. /\ rec \in DirSet /\ rec.files = files /\ rec.litter = dirs[gate.dir].litter
      /\ rec.sums = dirs[gate.dir].sums
  BY DEF DirSet
<1> HIDE DEF rec
<1>3. QED
  BY <1>1, <1>2

LEMMA SumsChange ==
    ASSUME dirs \in [Dirs -> DirSet], NEW files \in SUBSET PackageSet,
           dirs' = [dirs EXCEPT !["downloads"].sums = files]
    PROVE  /\ dirs' \in [Dirs -> DirSet] /\ dirs'["downloads"].sums = files
           /\ dirs'["downloads"].litter = dirs["downloads"].litter
           /\ dirs'["downloads"].files = dirs["downloads"].files
           /\ dirs'["dist"] = dirs["dist"]
<1> DEFINE rec == [dirs["downloads"] EXCEPT !.sums = files]
<1>1. dirs' = [dirs EXCEPT !["downloads"] = rec] /\ "downloads" \in Dirs /\ "dist" \in Dirs
  BY DEF Dirs
<1>2. /\ rec \in DirSet /\ rec.sums = files /\ rec.litter = dirs["downloads"].litter
      /\ rec.files = dirs["downloads"].files
  BY <1>1 DEF DirSet
<1> HIDE DEF rec
<1>3. QED
  BY <1>1, <1>2

DirTypes == dirs \in [Dirs -> DirSet]

(* What a gate's step may do to the directories.                           *)
DirsKept == dirs' \in [Dirs -> DirSet] /\ \A d \in Dirs : dirs'[d].litter = dirs[d].litter

LEMMA GateStepKeepsDirs ==
    ASSUME TurnInv, DirTypes, GateStep
    PROVE DirsKept
<1>1. gate.dir \in Dirs /\ gate.kind \in Kinds
  BY DEF TurnInv, GateTypes, GateSet
<1>2. CASE CopyPackage
  <2> DEFINE files == {f \in dirs[gate.dir].files : ~SameName(f, File(gate.kind))}
                      \union {File(gate.kind)}
  <2>1. FilesOf(files)
    BY <1>1, <1>2 DEF CopyPackage, FilesOf, DirTypes
  <2>2. files \in SUBSET PackageSet
    BY <1>1, FileIsPackage DEF DirTypes, DirSet
  <2> HIDE DEF files
  <2>3. QED
    BY <1>1, <2>1, <2>2, FilesChange DEF DirTypes, DirsKept
<1>3. CASE RemoveStale
  <2> DEFINE files == {f \in dirs[gate.dir].files : \E kind \in Kinds : SameName(f, File(kind))}
  <2>1. FilesOf(files)
    BY <1>1, <1>3 DEF RemoveStale, FilesOf, DirTypes
  <2>2. files \in SUBSET PackageSet
    BY <1>1 DEF DirTypes, DirSet
  <2> HIDE DEF files
  <2>3. QED
    BY <1>1, <2>1, <2>2, FilesChange DEF DirTypes, DirsKept
<1>4. CASE WriteSums
  <2> DEFINE files == {File(kind) : kind \in Kinds}
  <2>1. dirs' = [dirs EXCEPT !["downloads"].sums = files]
    BY <1>4 DEF WriteSums
  <2>2. files \in SUBSET PackageSet
    BY FileIsPackage
  <2> HIDE DEF files
  <2>3. QED
    BY <2>1, <2>2, SumsChange DEF DirTypes, DirsKept, Dirs
<1>5. CASE ~CopyPackage /\ ~RemoveStale /\ ~WriteSums
  <2>1. UNCHANGED dirs
    BY <1>5 DEF GateStep, PrepareStage, ClearStage, MarkStage, RunTests, AcceptFixture,
       BuildPackages, InspectPackages, ScanDirectory, ValidateEvidence, ValidateSite,
       SmokeInstall, WriteChecksums, OpenBundle, BundlePackages, BundleEvidence, BundleSums
  <2>2. QED
    BY <2>1 DEF DirTypes, DirsKept
<1>6. QED
  BY <1>2, <1>3, <1>4, <1>5

(* What a gate's step does to the stage.                                   *)
LEMMA BlockGateStep ==
    ASSUME TurnInv, DirTypes, BlockInv, GateStep
    PROVE BlockInv'
<1>1. DirsKept /\ cut' = cut /\ gate.exit = "none" /\ gate.pc # "idle" /\ gate' \in GateSet
  BY GateStepKeepsDirs, GateStepGoesOn, TurnRuns DEF GateGoesOn, GateRuns
<1>2. \A d \in Dirs : dirs'[d].litter = TRUE => cut'
  BY <1>1 DEF BlockInv, DirsKept
<1>3. gate \in GateSet
  BY DEF TurnInv, GateTypes
<1>4. CASE PrepareStage
  <2>1. gate.pc = "stage" /\ UNCHANGED <<stage, cut>>
    BY <1>4 DEF PrepareStage, GateAt, NothingElse
  <2>2. CASE stage = {} \/ "marker" \in stage
    <3>1. gate'.pc = "clear" /\ gate'.exit = "none"
      BY <1>1, <1>3, <1>4, <2>2, GateAdvances DEF PrepareStage, GateGoes, GateLabels
    <3>2. QED
      BY <1>2, <3>1 DEF BlockInv
  <2>3. CASE ~(stage = {} \/ "marker" \in stage)
    <3>1. gate'.pc = "idle" /\ gate'.exit = "unmarked"
      BY <1>4, <2>3, GateIsOver DEF PrepareStage, Exits
    <3>2. cut \/ "foreign" \in stage
      BY <2>1, <2>3 DEF BlockInv
    <3>3. QED
      BY <1>2, <2>1, <3>1, <3>2 DEF BlockInv
  <2>4. QED
    BY <2>2, <2>3
<1>5. CASE ClearStage
  BY <1>1, <1>2, <1>5 DEF ClearStage, GateAt, NothingElse, BlockInv
<1>6. CASE ScanDirectory
  <2>1. gate.pc = "scan" /\ UNCHANGED <<stage, cut>>
    BY <1>6 DEF ScanDirectory, GateAt, NothingElse
  <2>2. CASE dirs[gate.dir].litter
    <3>1. gate'.exit = "litter" /\ gate'.pc = "idle"
      BY <1>6, <2>2, GateIsOver DEF ScanDirectory, Exits
    <3>2. gate.dir \in Dirs /\ dirs[gate.dir].litter \in BOOLEAN
      BY <1>3 DEF GateSet, DirTypes, DirSet
    <3>3. cut
      BY <2>2, <3>2 DEF BlockInv
    <3>4. QED
      BY <1>2, <2>1, <3>1, <3>3 DEF BlockInv
  <2>3. CASE ~dirs[gate.dir].litter
    <3>1. gate'.exit = "none" /\ gate'.pc = "copy"
      BY <1>1, <1>3, <1>6, <2>3, GateAdvances DEF ScanDirectory, GateGoes, GateLabels
    <3>2. QED
      BY <1>2, <2>1, <3>1 DEF BlockInv
  <2>4. QED
    BY <2>2, <2>3
<1>7. CASE GateStep /\ ~PrepareStage /\ ~ClearStage /\ ~ScanDirectory
  <2>1. gate'.exit \notin {"unmarked", "litter"}
    <3>A. ASSUME NEW pc \in GateLabels, GateGoes(pc) PROVE gate'.exit = "none"
      BY <1>1, <1>3, <3>A, GateAdvances DEF GateGoes
    <3>B. ASSUME NEW how \in Exits, GateEnds(how) PROVE gate'.exit = how
      BY <3>B, GateIsOver
    <3>1. CASE MarkStage
      BY <3>1, <3>A DEF MarkStage, GateLabels, Exits
    <3>2. CASE RunTests
      BY <3>2, <3>A DEF RunTests, GateLabels, Exits
    <3>3. CASE AcceptFixture
      BY <3>3, <3>A DEF AcceptFixture, GateLabels, Exits
    <3>4. CASE BuildPackages
      BY <1>1, <1>3, <3>4 DEF BuildPackages, GateSet
    <3>5. CASE InspectPackages
      BY <3>5, <3>A DEF InspectPackages, GateLabels, Exits
    <3>6. CASE CopyPackage
      <4>1. CASE gate.dir = "dist"
        BY <1>1, <1>3, <3>6, <4>1, GateEachKind DEF CopyPackage, GateLabels
      <4>2. CASE gate.dir # "dist"
        BY <1>1, <1>3, <3>6, <4>2, GateEachKind DEF CopyPackage, GateLabels
      <4>3. QED
        BY <4>1, <4>2
    <3>7. CASE WriteSums
      BY <3>7, <3>A DEF WriteSums, GateLabels, Exits
    <3>8. CASE RemoveStale
      BY <1>1, <1>3, <3>8, GateNextDirectory DEF RemoveStale
    <3>9. CASE ValidateEvidence
      <4>1. CASE gate' = [gate EXCEPT !.pc = "site", !.validated = evidence]
        BY <1>1, <1>3, <4>1 DEF GateSet
      <4>2. CASE GateGoes("site") \/ GateEnds("evidence")
        BY <4>2, <3>A, <3>B DEF GateLabels, Exits
      <4>3. QED
        BY <3>9, <4>1, <4>2 DEF ValidateEvidence
    <3>10. CASE ValidateSite
      BY <3>10, <3>A DEF ValidateSite, GateLabels, Exits
    <3>11. CASE SmokeInstall
      BY <1>1, <1>3, <3>11, GateEachKind DEF SmokeInstall, GateLabels
    <3>12. CASE WriteChecksums
      BY <3>12, <3>A, <3>B DEF WriteChecksums, GateLabels, Exits
    <3>13. CASE OpenBundle
      BY <3>13, <3>A, <3>B DEF OpenBundle, GateLabels, Exits
    <3>14. CASE BundlePackages
      BY <3>14, <3>A DEF BundlePackages, GateLabels, Exits
    <3>15. CASE BundleEvidence
      BY <3>15, <3>A DEF BundleEvidence, GateLabels, Exits
    <3>16. CASE BundleSums
      BY <3>16, <3>B DEF BundleSums, GateLabels, Exits
    <3>C. QED
      BY <1>7, <3>1, <3>2, <3>3, <3>4, <3>5, <3>6, <3>7, <3>8, <3>9, <3>10, <3>11, <3>12, <3>13,
         <3>14, <3>15, <3>16 DEF GateStep
  <2>2. CASE MarkStage
    BY <1>1, <1>2, <2>1, <2>2 DEF MarkStage, BlockInv
  <2>3. CASE ~MarkStage
    <3>1. gate.pc \notin {"idle", "stage", "clear"} /\ stage \subseteq stage'
      BY <1>7, <2>3 DEF GateStep, GateAt, RunTests, AcceptFixture, BuildPackages, InspectPackages,
         CopyPackage, WriteSums, RemoveStale, ValidateEvidence, ValidateSite, SmokeInstall,
         WriteChecksums, OpenBundle, BundlePackages, BundleEvidence, BundleSums
    <3>2. "marker" \in stage'
      BY <3>1 DEF BlockInv
    <3>3. QED
      BY <1>1, <1>2, <2>1, <3>2 DEF BlockInv
  <2>4. QED
    BY <2>2, <2>3
<1>8. QED
  BY <1>4, <1>5, <1>6, <1>7

(* A gate that breaks off, and all that is not the gate.                   *)
LEMMA BreaksOff ==
    ASSUME DirTypes, GateFails \/ GateKilled
    PROVE  /\ DirTypes' /\ \A d \in Dirs : dirs'[d].litter = TRUE => dirs[d].litter = TRUE \/ cut'
           /\ \A d \in Dirs : dirs'[d].files = dirs[d].files /\ dirs'[d].sums = dirs[d].sums
           /\ gate'.pc = "idle" /\ gate'.exit \in {"failed", "killed"}
           /\ gate'.kind = "wheel" /\ gate'.dir = "dist"
           /\ UNCHANGED <<world, stage>> /\ (cut \/ gate.pc = "clear" => cut')
<1>1. CASE GateFails
  <2>1. dirs' = dirs
    BY <1>1 DEF GateFails
  <2>2. cut' = (cut \/ gate.pc = "clear")
    BY <1>1 DEF GateFails, GateAt
  <2>3. UNCHANGED <<world, stage>>
    BY <1>1 DEF GateFails, Breaks, evidenceVars
  <2>4. QED
    BY <1>1, <2>1, <2>2, <2>3, GateIsOver DEF GateFails, Exits, DirTypes
<1>2. CASE GateKilled
  <2>1. PICK littered \in BOOLEAN :
           dirs' = [d \in Dirs |->
                      IF littered /\ d = gate.dir /\ (GateAt("copy") \/ GateAt("sums"))
                      THEN [dirs[d] EXCEPT !.litter = TRUE] ELSE dirs[d]]
    BY <1>2 DEF GateKilled
  <2>2. ASSUME NEW d \in Dirs
        PROVE  /\ dirs'[d] \in DirSet /\ dirs'[d].files = dirs[d].files
               /\ dirs'[d].sums = dirs[d].sums
    BY <2>1 DEF DirTypes, DirSet
  <2>3. dirs' = [d \in Dirs |-> dirs'[d]]
    BY <2>1
  <2>4. cut' = TRUE /\ UNCHANGED <<world, stage>>
    BY <1>2 DEF GateKilled, Breaks, evidenceVars
  <2>5. DirTypes'
    BY <2>2, <2>3 DEF DirTypes
  <2>6. QED
    BY <1>2, <2>2, <2>4, <2>5, GateIsOver DEF GateKilled, Exits
<1>3. QED
  BY <1>1, <1>2

Elsewhere == GeneratorTurn \/ OwnersChange \/ EditSource \/ RestoreEvidence

LEMMA ElsewhereLeaves ==
    ASSUME TurnInv, Elsewhere
    PROVE  /\ UNCHANGED <<gate, stage, dirs, cut>>
           /\ \A kind \in Kinds : world'[kind] = world[kind]
<1>1. CASE GeneratorTurn
  BY <1>1 DEF GeneratorTurn, gateVars, StartGenerator, GeneratorStep, WriteEvidence, GeneratorStops
<1>2. CASE OwnersChange
  <2>1. PICK piece \in Pieces \ Kinds : ReplacePiece(piece)
    BY <1>2 DEF OwnersChange
  <2>2. \A kind \in Kinds : world'[kind] = world[kind]
    BY <2>1, Fields, PiecesAre DEF ReplacePiece, Kinds, TurnInv
  <2>3. QED
    BY <1>2, <2>2 DEF OwnersChange, gateVars
<1>3. CASE EditSource \/ RestoreEvidence
  BY <1>3 DEF EditSource, RestoreEvidence, gateVars
<1>4. QED
  BY <1>1, <1>2, <1>3 DEF Elsewhere

LEMMA NextCases ==
    GateNext => \/ \E bootstrap \in BOOLEAN : StartGate(bootstrap)
                \/ GateStep \/ GateFails \/ GateKilled \/ Elsewhere
BY DEF GateNext, Elsewhere, GeneratorTurn

LEMMA BlockStepInv ==
    TurnInv /\ DirTypes /\ BlockInv /\ [GateNext]_<<evidenceVars,
    gateVars>> => (DirTypes /\ BlockInv)'
<1> SUFFICES ASSUME TurnInv, DirTypes, BlockInv, [GateNext]_<<evidenceVars, gateVars>>
             PROVE (DirTypes /\ BlockInv)'
  OBVIOUS
<1>1. CASE UNCHANGED <<evidenceVars, gateVars>>
  BY <1>1 DEF gateVars, DirTypes, BlockInv
<1>2. CASE \E bootstrap \in BOOLEAN : StartGate(bootstrap)
  <2>1. PICK bootstrap \in BOOLEAN : StartGate(bootstrap)
    BY <1>2
  <2>2. gate.pc = "idle" /\ gate'.pc = "stage" /\ gate'.exit = "none" /\ UNCHANGED <<stage, dirs,
  cut>>
    BY <2>1, GateStarts DEF StartGate, GateAt
  <2>3. QED
    BY <2>2 DEF DirTypes, BlockInv
<1>3. CASE GateStep
  BY <1>3, BlockGateStep, GateStepKeepsDirs DEF DirsKept, DirTypes
<1>4. CASE GateFails \/ GateKilled
  BY <1>4, BreaksOff DEF BlockInv
<1>5. CASE Elsewhere
  BY <1>5, ElsewhereLeaves DEF DirTypes, BlockInv
<1>6. QED
  BY <1>1, <1>2, <1>3, <1>4, <1>5, NextCases

LEMMA BlockInitInv == GateInit => DirTypes /\ BlockInv
<1> SUFFICES ASSUME GateInit PROVE DirTypes /\ BlockInv
  OBVIOUS
<1>1. EmptyDir \in DirSet /\ EmptyDir.litter = FALSE
  BY DEF EmptyDir, DirSet
<1>2. DirTypes /\ \A d \in Dirs : dirs[d].litter = FALSE
  BY <1>1 DEF GateInit, DirTypes
<1>3. gate.pc = "idle" /\ gate.exit = "none" /\ (stage = {} \/ "foreign" \in stage)
  BY DEF GateInit, NoGate
<1>4. QED
  BY <1>2, <1>3 DEF BlockInv

(* Only a kill or a clearing that failed blocks the next gate.             *)
THEOREM BlocksAreCuts == GateSpec => []OnlyCutsBlock
<1>1. GateInit => TurnInv /\ DirTypes /\ BlockInv
  BY TurnInitInv, BlockInitInv
<1>2. TurnInv /\ DirTypes /\ BlockInv /\ [GateNext]_<<evidenceVars, gateVars>>
      => (TurnInv /\ DirTypes /\ BlockInv)'
  BY TurnStepInv, BlockStepInv
<1>3. BlockInv => OnlyCutsBlock
  BY DEF BlockInv, OnlyCutsBlock
<1>4. QED
  BY <1>1, <1>2, <1>3, PTL DEF GateSpec

-----------------------------------------------------------------------------
(* The directories.  One package of a name is in each, and the two that    *)
(* were built are there as far as the gate has come.                       *)
OneOfAName == \A d \in Dirs : \A f, g \in dirs[d].files : SameName(f, g) => f = g
Copied(d, kind) == File(kind) \in dirs[d].files
Built == {File(kind) : kind \in Kinds}

AtDownloads == gate.pc \in {"scan", "copy", "sums", "stale"} /\ gate.dir = "downloads"

CopyKnows ==
    /\ gate.pc \notin {"copy", "smoke"} => gate.kind = "wheel"
    /\ gate.pc \notin {"scan", "copy", "sums", "stale"} => gate.dir = "dist"
    /\ gate.pc = "sums" => gate.dir = "downloads"
    /\ gate.pc = "copy" /\ gate.kind = "sdist" => Copied(gate.dir, "wheel")
    /\ gate.pc \in {"sums", "stale"} => Copied(gate.dir, "wheel") /\ Copied(gate.dir, "sdist")
    /\ (AtDownloads \/ PastDownloads) => dirs["dist"].files = Built
    /\ (PastDownloads \/ (gate.pc = "stale" /\ gate.dir = "downloads"))
          => dirs["downloads"].sums = Built
    /\ PastDownloads => dirs["downloads"].files = Built

DownloadInv == OneOfAName /\ CopyKnows

LEMMA TwoKinds == Kinds = {"wheel", "sdist"} /\ Dirs = {"dist", "downloads"}
BY DEF Kinds, Dirs

(* A file is named by its kind and version, so the built files have two    *)
(* names.                                                                  *)
LEMMA NamesOfBuilt ==
    ASSUME NEW f, NEW kind \in Kinds, NEW other \in Kinds, SameName(File(kind), File(other))
    PROVE kind = other
BY DEF SameName, File

WithCopy(files, kind) == {f \in files : ~SameName(f, File(kind))} \union {File(kind)}

LEMMA OneCopied ==
    ASSUME NEW files \in SUBSET PackageSet, NEW kind \in Kinds,
           \A f, g \in files : SameName(f, g) => f = g
    PROVE  /\ \A f, g \in WithCopy(files, kind) : SameName(f, g) => f = g
           /\ \A other \in Kinds : File(other) \in files => File(other) \in WithCopy(files, kind)
           /\ File(kind) \in WithCopy(files, kind)
<1>1. ASSUME NEW f \in WithCopy(files, kind), NEW g \in WithCopy(files, kind), SameName(f, g)
      PROVE f = g
  BY <1>1 DEF SameName, WithCopy
<1>2. ASSUME NEW other \in Kinds, File(other) \in files
      PROVE File(other) \in WithCopy(files, kind)
  BY <1>2, NamesOfBuilt DEF WithCopy
<1>3. File(kind) \in WithCopy(files, kind)
  BY DEF WithCopy
<1>4. QED
  BY <1>1, <1>2, <1>3

LEMMA OnlyBuiltStay ==
    ASSUME NEW files \in SUBSET PackageSet, \A f, g \in files : SameName(f, g) => f = g,
           \A kind \in Kinds : File(kind) \in files
    PROVE {f \in files : \E kind \in Kinds : SameName(f, File(kind))} = Built
<1>1. ASSUME NEW f \in files, NEW kind \in Kinds, SameName(f, File(kind)) PROVE f \in Built
  BY <1>1 DEF Built
<1>2. ASSUME NEW kind \in Kinds PROVE SameName(File(kind), File(kind))
  BY DEF SameName
<1>3. QED
  BY <1>1, <1>2 DEF Built

(* Where the gate has no knowledge of the directories.                     *)
Early == {"idle", "stage", "clear", "test", "accept", "build", "inspect", "scan"}

LEMMA EarlyInv ==
    ASSUME OneOfAName, \A d \in Dirs : dirs'[d].files = dirs[d].files,
           gate'.pc \in Early, gate'.kind = "wheel", gate'.dir = "dist"
    PROVE DownloadInv'
<1>1. OneOfAName'
  BY DEF OneOfAName, SameName
<1>2. ~AtDownloads' /\ ~PastDownloads'
  BY DEF AtDownloads, PastDownloads, Early
<1>3. CopyKnows'
  BY <1>2 DEF CopyKnows, Early
<1>4. QED
  BY <1>1, <1>3 DEF DownloadInv

(* The built files stay what they are.                                     *)
FilesStay == gate'.version = gate.version /\ \A kind \in Kinds : world'[kind].at = world[kind].at

LEMMA BuiltStay ==
    ASSUME FilesStay
    PROVE  /\ \A kind \in Kinds : File(kind)' = File(kind)
           /\ Built' = Built
BY DEF FilesStay, File, Built

LEMMA LateInv ==
    ASSUME DownloadInv, UNCHANGED dirs, FilesStay, PastDownloads,
           gate'.pc \in GateLabels \ (Early \union {"copy", "sums", "stale"}), gate'.dir = "dist",
           gate'.pc # "smoke" => gate'.kind = "wheel"
    PROVE DownloadInv'
<1>1. OneOfAName'
  BY DEF DownloadInv, OneOfAName, SameName
<1>2. Built' = Built
  BY BuiltStay
<1>3. /\ dirs'["dist"].files = Built' /\ dirs'["downloads"].files = Built'
      /\ dirs'["downloads"].sums = Built'
  BY <1>2 DEF DownloadInv, CopyKnows
<1>4. CopyKnows'
  BY <1>3 DEF CopyKnows, Early, GateLabels
<1>5. QED
  BY <1>1, <1>4 DEF DownloadInv

LEMMA SameInv ==
    ASSUME DownloadInv, UNCHANGED <<gate, dirs>>, FilesStay
    PROVE DownloadInv'
<1>1. OneOfAName'
  BY DEF DownloadInv, OneOfAName, SameName
<1>2. Built' = Built /\ \A kind \in Kinds : File(kind)' = File(kind)
  BY BuiltStay
<1>3. File("wheel")' = File("wheel") /\ File("sdist")' = File("sdist")
  BY <1>2, TwoKinds
<1>4. Copied(gate.dir, "wheel")' = Copied(gate.dir, "wheel")
  BY <1>3 DEF Copied
<1>5. Copied(gate.dir, "sdist")' = Copied(gate.dir, "sdist")
  BY <1>3 DEF Copied
<1>6. CopyKnows'
  BY <1>2, <1>4, <1>5 DEF DownloadInv, CopyKnows, AtDownloads, PastDownloads
<1>7. QED
  BY <1>1, <1>6 DEF DownloadInv

LEMMA ScanInv ==
    ASSUME TurnInv, DirTypes, DownloadInv, ScanDirectory
    PROVE DownloadInv'
<1>1. gate \in GateSet /\ gate.pc = "scan" /\ UNCHANGED <<dirs, world>>
  BY DEF TurnInv, GateTypes, ScanDirectory, GateAt
<1>2. OneOfAName' /\ OneOfAName
  BY <1>1 DEF DownloadInv, OneOfAName, SameName
<1>3. CASE dirs[gate.dir].litter
  BY <1>1, <1>2, <1>3, GateIsOver, EarlyInv DEF ScanDirectory, Exits, Early
<1>4. CASE ~dirs[gate.dir].litter
  <2>1. gate'.pc = "copy" /\ gate'.dir = gate.dir /\ gate'.kind = gate.kind /\ FilesStay
    BY <1>1, <1>4, GateAdvances DEF ScanDirectory, GateGoes, GateLabels, FilesStay
  <2>2. gate.kind = "wheel" /\ gate.dir \in Dirs
    BY <1>1 DEF DownloadInv, CopyKnows, GateSet
  <2>3. Built' = Built
    BY <2>1, BuiltStay
  <2>4. AtDownloads' => dirs'["dist"].files = Built'
    BY <1>1, <2>1, <2>3 DEF DownloadInv, CopyKnows, AtDownloads
  <2>5. CopyKnows'
    BY <2>1, <2>2, <2>4 DEF CopyKnows, PastDownloads
  <2>6. QED
    BY <1>2, <2>5 DEF DownloadInv
<1>5. QED
  BY <1>3, <1>4

LEMMA CopyInv ==
    ASSUME TurnInv, DirTypes, DownloadInv, CopyPackage
    PROVE DownloadInv'
<1> DEFINE files == WithCopy(dirs[gate.dir].files, gate.kind)
<1>1. /\ gate \in GateSet /\ gate.dir \in Dirs /\ gate.kind \in Kinds
      /\ gate.pc = "copy" /\ UNCHANGED world
  BY DEF TurnInv, GateTypes, GateSet, CopyPackage, GateAt
<1>2. FilesOf(files) /\ files \in SUBSET PackageSet
  <2>1. FilesOf(files)
    BY <1>1 DEF CopyPackage, FilesOf, DirTypes, WithCopy
  <2>2. files \in SUBSET PackageSet
    BY <1>1, FileIsPackage DEF DirTypes, DirSet, WithCopy
  <2>3. QED
    BY <2>1, <2>2
<1>3. /\ \A f, g \in files : SameName(f, g) => f = g
      /\ \A other \in Kinds : File(other) \in dirs[gate.dir].files => File(other) \in files
      /\ File(gate.kind) \in files
  <2>1. dirs[gate.dir].files \in SUBSET PackageSet
    BY <1>1 DEF DirTypes, DirSet
  <2>2. \A f, g \in dirs[gate.dir].files : SameName(f, g) => f = g
    BY <1>1 DEF DownloadInv, OneOfAName
  <2>3. QED
    BY <1>1, <2>1, <2>2, OneCopied
<1> HIDE DEF files
<1>4. dirs'[gate.dir].files = files /\ \A d \in Dirs \ {gate.dir} : dirs'[d] = dirs[d]
  BY <1>1, <1>2, FilesChange DEF DirTypes
<1>5. OneOfAName'
  BY <1>3, <1>4 DEF DownloadInv, OneOfAName, SameName
<1>6. /\ gate'.dir = gate.dir /\ gate'.version = gate.version
      /\ gate.kind = "wheel" => gate'.pc = "copy" /\ gate'.kind = "sdist"
      /\ gate.kind # "wheel" /\ gate.dir = "dist" => gate'.pc = "stale" /\ gate'.kind = "wheel"
      /\ gate.kind # "wheel" /\ gate.dir # "dist" => gate'.pc = "sums" /\ gate'.kind = "wheel"
  <2>1. CASE gate.dir = "dist"
    BY <1>1, <2>1, GateEachKind DEF CopyPackage, GateLabels
  <2>2. CASE gate.dir # "dist"
    BY <1>1, <2>2, GateEachKind DEF CopyPackage, GateLabels
  <2>3. QED
    BY <2>1, <2>2
<1>7. FilesStay
  BY <1>1, <1>6 DEF FilesStay
<1>8. Built' = Built /\ File("wheel")' = File("wheel") /\ File("sdist")' = File("sdist")
  BY <1>7, BuiltStay, TwoKinds
<1>9. File("wheel")' \in dirs'[gate.dir].files
  <2>1. CASE gate.kind = "wheel"
    BY <1>3, <1>4, <1>8, <2>1
  <2>2. CASE gate.kind = "sdist"
    <3>1. File("wheel") \in dirs[gate.dir].files
      BY <1>1, <2>2 DEF DownloadInv, CopyKnows, Copied
    <3>2. QED
      BY <1>3, <1>4, <1>8, <3>1, TwoKinds
  <2>3. QED
    BY <1>1, <2>1, <2>2, TwoKinds
<1>10. gate.kind = "sdist" => File("sdist")' \in dirs'[gate.dir].files
  BY <1>3, <1>4, <1>8
<1>11. gate.dir = "downloads" => dirs'["dist"].files = Built'
  <2>1. gate.dir = "downloads" => dirs["dist"].files = Built
    BY <1>1 DEF DownloadInv, CopyKnows, AtDownloads
  <2>2. QED
    BY <1>4, <1>8, <2>1, TwoKinds
<1>12. CASE gate.kind = "wheel"
  <2>1. gate'.pc = "copy" /\ gate'.kind = "sdist" /\ gate'.dir = gate.dir
    BY <1>6, <1>12
  <2>2. Copied(gate.dir, "wheel")'
    BY <1>9, <2>1 DEF Copied
  <2>3. CopyKnows'
    BY <1>11, <2>1, <2>2 DEF CopyKnows, AtDownloads, PastDownloads
  <2>4. QED
    BY <1>5, <2>3 DEF DownloadInv
<1>13. CASE gate.kind = "sdist"
  <2>1. /\ gate'.kind = "wheel" /\ gate'.dir = gate.dir
        /\ gate.dir = "dist" => gate'.pc = "stale"
        /\ gate.dir # "dist" => gate.dir = "downloads" /\ gate'.pc = "sums"
    BY <1>1, <1>6, <1>13, TwoKinds
  <2>2. Copied(gate.dir, "wheel")' /\ Copied(gate.dir, "sdist")'
    BY <1>9, <1>10, <1>13, <2>1 DEF Copied
  <2>3. CopyKnows'
    BY <1>11, <2>1, <2>2 DEF CopyKnows, AtDownloads, PastDownloads
  <2>4. QED
    BY <1>5, <2>3 DEF DownloadInv
<1>14. QED
  BY <1>1, <1>12, <1>13, TwoKinds

LEMMA SumsInv ==
    ASSUME TurnInv, DirTypes, DownloadInv, WriteSums
    PROVE DownloadInv'
<1>1. /\ gate \in GateSet /\ gate.dir = "downloads" /\ gate.kind = "wheel"
      /\ gate.pc = "sums" /\ UNCHANGED world
  BY DEF TurnInv, GateTypes, WriteSums, GateAt, DownloadInv, CopyKnows
<1>2. Built \in SUBSET PackageSet
  BY FileIsPackage DEF Built
<1>3. dirs' = [dirs EXCEPT !["downloads"].sums = Built]
  BY DEF WriteSums, Built
<1>4. /\ dirs'["downloads"].sums = Built /\ dirs'["downloads"].files = dirs["downloads"].files
      /\ dirs'["dist"] = dirs["dist"]
  BY <1>2, <1>3, SumsChange DEF DirTypes
<1>5. OneOfAName'
  BY <1>4, TwoKinds DEF DownloadInv, OneOfAName, SameName
<1>6. /\ gate'.pc = "stale" /\ gate'.dir = "downloads" /\ gate'.kind = "wheel"
      /\ gate'.version = gate.version
  BY <1>1, GateAdvances DEF WriteSums, GateGoes, GateLabels
<1>7. Built' = Built /\ File("wheel")' = File("wheel") /\ File("sdist")' = File("sdist")
  BY <1>1, <1>6, BuiltStay, TwoKinds DEF FilesStay
<1>8. Copied(gate.dir, "wheel")' /\ Copied(gate.dir, "sdist")'
  BY <1>1, <1>4, <1>6, <1>7 DEF DownloadInv, CopyKnows, Copied
<1>9. dirs'["dist"].files = Built' /\ dirs'["downloads"].sums = Built'
  BY <1>1, <1>4, <1>7 DEF DownloadInv, CopyKnows, AtDownloads
<1>10. CopyKnows'
  BY <1>6, <1>8, <1>9 DEF CopyKnows, PastDownloads
<1>11. QED
  BY <1>5, <1>10 DEF DownloadInv

LEMMA StaleInv ==
    ASSUME TurnInv, DirTypes, DownloadInv, RemoveStale
    PROVE DownloadInv'
<1> DEFINE files == {f \in dirs[gate.dir].files : \E kind \in Kinds : SameName(f, File(kind))}
<1>1. /\ gate \in GateSet /\ gate.dir \in Dirs /\ gate.kind = "wheel"
      /\ gate.pc = "stale" /\ UNCHANGED world
  BY DEF TurnInv, GateTypes, GateSet, RemoveStale, GateAt, DownloadInv, CopyKnows
<1>2. FilesOf(files)
  BY <1>1 DEF RemoveStale, FilesOf, DirTypes
<1>3. files = Built /\ files \in SUBSET PackageSet
  <2>1. dirs[gate.dir].files \in SUBSET PackageSet
    BY <1>1 DEF DirTypes, DirSet
  <2>2. \A f, g \in dirs[gate.dir].files : SameName(f, g) => f = g
    BY <1>1 DEF DownloadInv, OneOfAName
  <2>3. \A kind \in Kinds : File(kind) \in dirs[gate.dir].files
    BY <1>1, TwoKinds DEF DownloadInv, CopyKnows, Copied
  <2>4. files = Built
    BY <2>1, <2>2, <2>3, OnlyBuiltStay
  <2>5. QED
    BY <2>1, <2>4
<1> HIDE DEF files
<1>4. /\ dirs'[gate.dir].files = Built /\ dirs'[gate.dir].sums = dirs[gate.dir].sums
      /\ \A d \in Dirs \ {gate.dir} : dirs'[d] = dirs[d]
  BY <1>1, <1>2, <1>3, FilesChange DEF DirTypes
<1>5. \A d \in Dirs : dirs'[d].files \in SUBSET dirs[d].files
  <2>1. dirs'[gate.dir].files \in SUBSET dirs[gate.dir].files
    BY <1>3, <1>4 DEF files
  <2>2. QED
    BY <1>4, <2>1
<1>6. OneOfAName'
  BY <1>5 DEF DownloadInv, OneOfAName, SameName
<1>7. /\ gate'.kind = "wheel" /\ gate'.version = gate.version
      /\ gate.dir = "dist" => gate'.pc = "scan" /\ gate'.dir = "downloads"
      /\ gate.dir # "dist" => gate'.pc = "validate" /\ gate'.dir = "dist"
  BY <1>1, GateNextDirectory DEF RemoveStale
<1>8. Built' = Built
  BY <1>1, <1>7, BuiltStay DEF FilesStay
<1>9. CASE gate.dir = "dist"
  <2>1. dirs'["dist"].files = Built'
    BY <1>4, <1>8, <1>9
  <2>2. CopyKnows'
    BY <1>7, <1>9, <2>1 DEF CopyKnows, PastDownloads
  <2>3. QED
    BY <1>6, <2>2 DEF DownloadInv
<1>10. CASE gate.dir = "downloads"
  <2>1. dirs["dist"].files = Built /\ dirs["downloads"].sums = Built
    BY <1>1, <1>10 DEF DownloadInv, CopyKnows, AtDownloads
  <2>2. /\ dirs'["dist"].files = Built' /\ dirs'["downloads"].files = Built'
        /\ dirs'["downloads"].sums = Built'
    BY <1>4, <1>8, <1>10, <2>1, TwoKinds
  <2>3. CopyKnows'
    BY <1>7, <1>10, <2>2 DEF CopyKnows, PastDownloads, AtDownloads
  <2>4. QED
    BY <1>6, <2>3 DEF DownloadInv
<1>11. QED
  BY <1>1, <1>9, <1>10, TwoKinds

LEMMA EndsInv ==
    ASSUME DownloadInv, UNCHANGED dirs, NEW how \in Exits, GateEnds(how)
    PROVE DownloadInv'
<1>1. gate'.pc \in Early /\ gate'.kind = "wheel" /\ gate'.dir = "dist"
  BY GateIsOver DEF Early
<1>2. QED
  BY <1>1, EarlyInv DEF DownloadInv

LEMMA GoesEarlyInv ==
    ASSUME gate \in GateSet, DownloadInv, UNCHANGED dirs, gate.pc \in Early \ {"scan"},
           NEW label \in Early, GateGoes(label)
    PROVE DownloadInv'
<1>1. gate.kind = "wheel" /\ gate.dir = "dist" /\ label \in GateLabels
  BY DEF DownloadInv, CopyKnows, Early, GateLabels
<1>2. gate'.pc = label /\ gate'.kind = "wheel" /\ gate'.dir = "dist"
  BY <1>1, GateAdvances DEF GateGoes
<1>3. QED
  BY <1>2, EarlyInv DEF DownloadInv

LateLabels == GateLabels \ (Early \union {"copy", "sums", "stale"})

LEMMA GoesLateInv ==
    ASSUME gate \in GateSet, DownloadInv, UNCHANGED <<dirs, world>>, PastDownloads,
           gate.pc # "smoke", NEW label \in LateLabels, GateGoes(label)
    PROVE DownloadInv'
<1>1. gate.kind = "wheel" /\ gate.dir = "dist" /\ label \in GateLabels
  BY DEF DownloadInv, CopyKnows, PastDownloads, LateLabels
<1>2. gate'.pc = label /\ gate'.kind = "wheel" /\ gate'.dir = "dist" /\ gate'.version = gate.version
  BY <1>1, GateAdvances DEF GateGoes
<1>3. FilesStay
  BY <1>2 DEF FilesStay
<1>4. QED
  BY <1>2, <1>3, LateInv DEF LateLabels

LEMMA DownloadGateStep ==
    ASSUME TurnInv, DirTypes, DownloadInv, GateStep
    PROVE DownloadInv'
<1>1. gate \in GateSet
  BY DEF TurnInv, GateTypes
<1> USE <1>1 DEF GateAt, NothingElse
<1>2. CASE PrepareStage
  BY <1>2, GoesEarlyInv, EndsInv DEF PrepareStage, Early, Exits
<1>3. CASE ClearStage
  <2>1. gate.pc = "clear" /\ UNCHANGED <<gate, dirs>>
    BY <1>3 DEF ClearStage
  <2>2. gate.kind = "wheel" /\ gate.dir = "dist"
    BY <2>1 DEF DownloadInv, CopyKnows
  <2>3. QED
    BY <2>1, <2>2, EarlyInv DEF DownloadInv, Early
<1>4. CASE MarkStage
  BY <1>4, GoesEarlyInv DEF MarkStage, Early
<1>5. CASE RunTests
  BY <1>5, GoesEarlyInv DEF RunTests, Early
<1>6. CASE AcceptFixture
  BY <1>6, GoesEarlyInv DEF AcceptFixture, Early
<1>7. CASE BuildPackages
  <2>1. gate.kind = "wheel" /\ gate.dir = "dist"
    BY <1>7 DEF BuildPackages, DownloadInv, CopyKnows
  <2>2. gate'.pc = "inspect" /\ gate'.kind = "wheel" /\ gate'.dir = "dist" /\ UNCHANGED dirs
    BY <1>7, <2>1 DEF BuildPackages, GateSet
  <2>3. QED
    BY <2>2, EarlyInv DEF DownloadInv, Early
<1>8. CASE InspectPackages
  BY <1>8, GoesEarlyInv DEF InspectPackages, Early
<1>9. CASE ScanDirectory
  BY <1>9, ScanInv
<1>10. CASE CopyPackage
  BY <1>10, CopyInv
<1>11. CASE WriteSums
  BY <1>11, SumsInv
<1>12. CASE RemoveStale
  BY <1>12, StaleInv
<1>13. CASE ValidateEvidence
  <2>1. gate.pc = "validate" /\ PastDownloads /\ UNCHANGED <<dirs, world>>
    BY <1>13 DEF ValidateEvidence, PastDownloads
  <2>2. CASE GateGoes("site")
    BY <2>1, <2>2, GoesLateInv DEF LateLabels, GateLabels, Early
  <2>3. CASE GateEnds("evidence")
    BY <2>1, <2>3, EndsInv DEF Exits
  <2>4. CASE gate' = [gate EXCEPT !.pc = "site", !.validated = evidence]
    <3>1. gate.kind = "wheel" /\ gate.dir = "dist"
      BY <2>1 DEF DownloadInv, CopyKnows
    <3>2. /\ gate'.pc = "site" /\ gate'.kind = "wheel" /\ gate'.dir = "dist"
          /\ gate'.version = gate.version
      BY <2>4, <3>1 DEF GateSet
    <3>3. FilesStay
      BY <2>1, <3>2 DEF FilesStay
    <3>4. QED
      BY <2>1, <3>2, <3>3, LateInv DEF GateLabels, Early
  <2>5. QED
    BY <1>13, <2>2, <2>3, <2>4 DEF ValidateEvidence
<1>14. CASE ValidateSite
  BY <1>14, GoesLateInv DEF ValidateSite, PastDownloads, LateLabels, GateLabels, Early
<1>15. CASE SmokeInstall
  <2>1. gate.pc = "smoke" /\ PastDownloads /\ UNCHANGED <<dirs, world>> /\ gate.dir = "dist"
    BY <1>15 DEF SmokeInstall, PastDownloads, DownloadInv, CopyKnows
  <2>2. /\ gate'.dir = "dist" /\ gate'.version = gate.version
        /\ \/ gate'.pc = "smoke"
           \/ gate'.pc = "checksums" /\ gate'.kind = "wheel"
    BY <1>15, <2>1, GateEachKind DEF SmokeInstall, GateLabels
  <2>3. FilesStay
    BY <2>1, <2>2 DEF FilesStay
  <2>4. QED
    BY <2>1, <2>2, <2>3, LateInv DEF GateLabels, Early
<1>16. CASE WriteChecksums
  BY <1>16, GoesLateInv, EndsInv
     DEF WriteChecksums, PastDownloads, LateLabels, GateLabels, Early, Exits
<1>17. CASE OpenBundle
  BY <1>17, GoesLateInv, EndsInv
     DEF OpenBundle, PastDownloads, LateLabels, GateLabels, Early, Exits
<1>18. CASE BundlePackages
  BY <1>18, GoesLateInv DEF BundlePackages, PastDownloads, LateLabels, GateLabels, Early
<1>19. CASE BundleEvidence
  BY <1>19, GoesLateInv DEF BundleEvidence, PastDownloads, LateLabels, GateLabels, Early
<1>20. CASE BundleSums
  BY <1>20, EndsInv DEF BundleSums, Exits
<1>21. QED
  BY <1>2, <1>3, <1>4, <1>5, <1>6, <1>7, <1>8, <1>9, <1>10, <1>11, <1>12, <1>13, <1>14, <1>15,
     <1>16, <1>17, <1>18, <1>19, <1>20 DEF GateStep

LEMMA DownloadStepInv ==
    TurnInv /\ DirTypes /\ DownloadInv /\ [GateNext]_<<evidenceVars, gateVars>> => DownloadInv'
<1> SUFFICES ASSUME TurnInv, DirTypes, DownloadInv, [GateNext]_<<evidenceVars, gateVars>>
             PROVE DownloadInv'
  OBVIOUS
<1>1. CASE UNCHANGED <<evidenceVars, gateVars>>
  BY <1>1, SameInv DEF gateVars, evidenceVars, FilesStay
<1>2. CASE \E bootstrap \in BOOLEAN : StartGate(bootstrap)
  <2>1. PICK bootstrap \in BOOLEAN : StartGate(bootstrap)
    BY <1>2
  <2>2. gate'.pc = "stage" /\ gate'.kind = "wheel" /\ gate'.dir = "dist" /\ UNCHANGED dirs
    BY <2>1, GateStarts DEF StartGate
  <2>3. QED
    BY <2>2, EarlyInv DEF DownloadInv, Early
<1>3. CASE GateStep
  BY <1>3, DownloadGateStep
<1>4. CASE GateFails \/ GateKilled
  <2>1. /\ \A d \in Dirs : dirs'[d].files = dirs[d].files
        /\ gate'.pc = "idle" /\ gate'.kind = "wheel" /\ gate'.dir = "dist"
    BY <1>4, BreaksOff
  <2>2. QED
    BY <2>1, EarlyInv DEF DownloadInv, Early
<1>5. CASE Elsewhere
  BY <1>5, ElsewhereLeaves, SameInv DEF FilesStay
<1>6. QED
  BY <1>1, <1>2, <1>3, <1>4, <1>5, NextCases

LEMMA DownloadInitInv == GateInit => DownloadInv
<1> SUFFICES ASSUME GateInit PROVE DownloadInv
  OBVIOUS
<1>1. OneOfAName
  BY DEF GateInit, EmptyDir, OneOfAName
<1>2. gate.pc = "idle" /\ gate.kind = "wheel" /\ gate.dir = "dist"
  BY DEF GateInit, NoGate
<1>3. CopyKnows
  BY <1>2 DEF CopyKnows, AtDownloads, PastDownloads
<1>4. QED
  BY <1>1, <1>3 DEF DownloadInv

(* Whatever was there and whatever broke before, a gate that is past the   *)
(* downloads has left both directories with the pair it built.             *)
THEOREM DownloadsHoldThePair == GateSpec => []DownloadsAgree
<1>1. GateInit => TurnInv /\ DirTypes /\ BlockInv /\ DownloadInv
  BY TurnInitInv, BlockInitInv, DownloadInitInv
<1>2. TurnInv /\ DirTypes /\ BlockInv /\ DownloadInv /\ [GateNext]_<<evidenceVars, gateVars>>
      => (TurnInv /\ DirTypes /\ BlockInv /\ DownloadInv)'
  BY TurnStepInv, BlockStepInv, DownloadStepInv
<1>3. DownloadInv => DownloadsAgree
  <2>1. SUFFICES ASSUME DownloadInv, PastDownloads
                 PROVE  /\ \A d \in Dirs : dirs[d].files = Built
                        /\ dirs["downloads"].sums = dirs["downloads"].files
    BY DEF DownloadsAgree, Built
  <2>2. QED
    BY <2>1, TwoKinds DEF DownloadInv, CopyKnows
<1>4. QED
  BY <1>1, <1>2, <1>3, PTL DEF GateSpec

(* A gate's variables are of their types: in a directory a name belongs to *)
(* one package, and a bundle is in the stage's directory of its name.      *)
THEOREM GateTypeCorrect == GateSpec => []GateTypeOK
<1> DEFINE Inv == TurnInv /\ DirTypes /\ BlockInv /\ DownloadInv /\ BundleInv
<1>1. GateInit => Inv
  BY TurnInitInv, BlockInitInv, DownloadInitInv, BundleInitInv
<1>2. Inv /\ [GateNext]_<<evidenceVars, gateVars>> => Inv'
  BY TurnStepInv, BlockStepInv, DownloadStepInv, BundleStepInv
<1>3. Inv => GateTypeOK
  <2> SUFFICES ASSUME Inv PROVE GateTypeOK
    OBVIOUS
  <2>1. EvidenceTypeOK
    BY DEF TurnInv, EvidenceInv, GenSet, EvidenceTypeOK
  <2>2. source.edition \in Nat /\ source.version \in Nat
    BY DEF TurnInv, GateTypes
  <2> QED
    BY <2>1, <2>2 DEF GateTypeOK, DownloadInv, OneOfAName, BundleInv, BundleTypes, StageSet
<1> QED
  BY <1>1, <1>2, <1>3, PTL DEF GateSpec
=============================================================================
