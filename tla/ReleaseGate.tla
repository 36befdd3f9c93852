----------------------------- MODULE ReleaseGate ----------------------------
(***************************************************************************)
(* release_check.py, from the staging directory to the public bundle, as   *)
(* maintainers run it: a bootstrap gate builds the packages, a real        *)
(* acceptance is recorded against them (PublicEvidence), and a normal gate *)
(* builds them again and publishes.  One of these runs at a time, and the  *)
(* acceptance only after a gate that ended well.  A gate fails or is killed*)
(* at any step; sources are edited, pieces replaced and an older evidence  *)
(* file restored meanwhile.                                                *)
(*                                                                         *)
(* Builds are reproducible: a package is the edition of the sources it was *)
(* built of, and its file is named by the version those sources carry.     *)
(***************************************************************************)
EXTENDS PublicEvidence, FiniteSets

CONSTANTS
    MaxGates,       \* bound: gates that are started
    MaxBreaks       \* bound: gates that fail or are killed

ASSUME GateAssumption == {MaxGates, MaxBreaks} \subseteq Nat

VARIABLES
    source,     \* the checkout: its edition and the version it carries
    gate,       \* the gate: its place, its mode, what it has built and read, and the
                \* directory and the kind of package it is at
    stage,      \* what the staging directory has in it; "reports" are all other files
    bundle,     \* stage/publish
    dirs,       \* dist and site/dist/downloads: package files, litter, SHA256SUMS
    gates,      \* gates started and broken so far
    cut         \* history: a gate was killed, or could not clear its stage

gateVars == <<source, gate, stage, bundle, dirs, gates, cut>>

Dirs == {"dist", "downloads"}
Kinds == {"wheel", "sdist"}
NoBundle == [wheel |-> 0, sdist |-> 0, evidence |-> AllAbsent, validated |-> AllAbsent,
             complete |-> FALSE]
EmptyDir == [files |-> {}, litter |-> FALSE, sums |-> {}]
NoGate == [pc |-> "idle", dir |-> "dist", kind |-> "wheel", bootstrap |-> FALSE, version |-> 0,
           validated |-> AllAbsent, exit |-> "none"]

GateInit ==
    /\ EvidenceInit
    /\ source = [edition |-> 1, version |-> 1]
    /\ gate = NoGate
    /\ stage \in {{}, {"foreign"}}
    /\ bundle = NoBundle
    /\ dirs = [d \in Dirs |-> EmptyDir]
    /\ gates = [started |-> 0, broken |-> 0]
    /\ cut = FALSE

GateAt(label) == gate.pc = label
GateGoes(label) == gate' = [gate EXCEPT !.pc = label]
EachKind(label, done) ==
    gate' = IF gate.kind = "wheel" THEN [gate EXCEPT !.kind = "sdist", !.pc = label]
                                   ELSE [gate EXCEPT !.kind = "wheel", !.pc = done]
NextDirectory ==
    gate' = IF gate.dir = "dist" THEN [gate EXCEPT !.dir = "downloads", !.pc = "scan"]
                                 ELSE [gate EXCEPT !.dir = "dist", !.pc = "validate"]
GateEnds(how) == gate' = [NoGate EXCEPT !.exit = how]
NothingElse == UNCHANGED <<gen, moment, evidence, changes, source, gates, cut>>

-----------------------------------------------------------------------------
StartGate(bootstrap) ==
    /\ GateAt("idle") /\ gen.pc = "idle" /\ gates.started < MaxGates
    /\ gate' = [NoGate EXCEPT !.pc = "stage", !.bootstrap = bootstrap]
    /\ gates' = [gates EXCEPT !.started = @ + 1]
    /\ UNCHANGED <<evidenceVars, source, stage, bundle, dirs, cut>>

(* prepare_stage: what is not empty must carry the marker, and then all of *)
(* it is removed, the marker too, in any order.                            *)
PrepareStage ==
    /\ GateAt("stage")
    /\ IF stage = {} \/ "marker" \in stage THEN GateGoes("clear") ELSE GateEnds("unmarked")
    /\ UNCHANGED <<world, stage, bundle, dirs>> /\ NothingElse

ClearStage ==
    /\ GateAt("clear")
    /\ \E child \in stage :
          /\ stage' = stage \ {child}
          /\ world' = IF child = "packages" THEN [p \in Pieces |-> IF p \in Kinds THEN Absent
                                                                   ELSE world[p]] ELSE world
          /\ bundle' = IF child = "publish" THEN NoBundle ELSE bundle
    /\ UNCHANGED <<gate, dirs>> /\ NothingElse

MarkStage ==
    /\ GateAt("clear") /\ stage = {}
    /\ stage' = {"marker"}
    /\ GateGoes("test")
    /\ UNCHANGED <<world, bundle, dirs>> /\ NothingElse

(* The test suite, Ruff, compileall.                                       *)
RunTests ==
    /\ GateAt("test") /\ GateGoes("accept")
    /\ UNCHANGED <<world, stage, bundle, dirs>> /\ NothingElse

(* _run_fixture_acceptance: a cold and a warm build, their reports and     *)
(* comparison, and the demo evidence of the site.                          *)
AcceptFixture ==
    /\ GateAt("accept") /\ GateGoes("build")
    /\ stage' = stage \union {"reports"}
    /\ UNCHANGED <<world, bundle, dirs>> /\ NothingElse

(* python -m build: the sdist of the sources, and the wheel of the sdist.  *)
BuildPackages ==
    /\ GateAt("build")
    /\ gate' = [gate EXCEPT !.pc = "inspect", !.version = source.version]
    /\ stage' = stage \union {"packages"}
    /\ world' = [p \in Pieces |-> IF p \in Kinds
                                  THEN [at |-> source.edition, of |-> source.edition]
                                  ELSE world[p]]
    /\ UNCHANGED <<bundle, dirs>> /\ NothingElse

(* inspect_archives, validate_distribution_parity, the inventory.          *)
InspectPackages ==
    /\ GateAt("inspect") /\ world["wheel"].of = world["sdist"].of
    /\ GateGoes("scan")
    /\ UNCHANGED <<world, stage, bundle, dirs>> /\ NothingElse

-----------------------------------------------------------------------------
(* sync_release_distributions and sync_site_downloads: the wheel, the      *)
(* sdist, in the downloads their checksums, and only then the files of     *)
(* other names that were there before.                                     *)
File(kind) == [kind |-> kind, version |-> gate.version, edition |-> world[kind].at]
SameName(f, g) == f.kind = g.kind /\ f.version = g.version

ScanDirectory ==
    /\ GateAt("scan")
    /\ IF dirs[gate.dir].litter THEN GateEnds("litter") ELSE GateGoes("copy")
    /\ UNCHANGED <<world, stage, bundle, dirs>> /\ NothingElse

CopyPackage ==
    /\ GateAt("copy")
    /\ dirs' = [dirs EXCEPT ![gate.dir].files =
                   {f \in @ : ~SameName(f, File(gate.kind))} \union {File(gate.kind)}]
    /\ EachKind("copy", IF gate.dir = "dist" THEN "stale" ELSE "sums")
    /\ UNCHANGED <<world, stage, bundle>> /\ NothingElse

WriteSums ==
    /\ GateAt("sums")
    /\ dirs' = [dirs EXCEPT !["downloads"].sums = {File(kind) : kind \in Kinds}]
    /\ GateGoes("stale")
    /\ UNCHANGED <<world, stage, bundle>> /\ NothingElse

(* Mutant of RemoveStale: what is not a package of the version is kept.    *)
KeepStale ==
    /\ GateAt("stale") /\ NextDirectory
    /\ UNCHANGED <<world, stage, bundle, dirs>> /\ NothingElse

RemoveStale ==
    /\ GateAt("stale") /\ NextDirectory
    /\ dirs' = [dirs EXCEPT ![gate.dir].files =
                   {f \in @ : \E kind \in Kinds : SameName(f, File(kind))}]
    /\ UNCHANGED <<world, stage, bundle>> /\ NothingElse

-----------------------------------------------------------------------------
(* validate_public_evidence: the evidence must be about these two files.   *)
(* It is not asked whether the channel still says what the evidence says.  *)
(* Mutant of Binds: the record is only looked at by itself.                *)
BindsItself(record) == record["wheel"].of = record["cold"].of

Binds(record) == \A kind \in Kinds : record[kind] = world[kind]

ValidateEvidence ==
    /\ GateAt("validate")
    /\ IF gate.bootstrap THEN GateGoes("site")
       ELSE IF evidence # AllAbsent /\ Binds(evidence)
       THEN gate' = [gate EXCEPT !.pc = "site", !.validated = evidence]
       ELSE GateEnds("evidence")
    /\ UNCHANGED <<world, stage, bundle, dirs>> /\ NothingElse

ValidateSite ==
    /\ GateAt("site") /\ GateGoes("smoke")
    /\ UNCHANGED <<world, stage, bundle, dirs>> /\ NothingElse

(* _smoke_install, in an environment of its own.                           *)
SmokeInstall ==
    /\ GateAt("smoke") /\ EachKind("smoke", "checksums")
    /\ UNCHANGED <<world, stage, bundle, dirs>> /\ NothingElse

WriteChecksums ==
    /\ GateAt("checksums")
    /\ IF gate.bootstrap THEN GateEnds("ok") ELSE GateGoes("publish")
    /\ UNCHANGED <<world, stage, bundle, dirs>> /\ NothingElse

(* create_publish_bundle: the directory must be new; then the packages,    *)
(* the inventory, the evidence as it is now, and the checksums.            *)
OpenBundle ==
    /\ GateAt("publish")
    /\ IF "publish" \in stage THEN GateEnds("bundle exists") /\ UNCHANGED stage
       ELSE GateGoes("bundle packages") /\ stage' = stage \union {"publish"}
    /\ UNCHANGED <<world, bundle, dirs>> /\ NothingElse

BundlePackages ==
    /\ GateAt("bundle packages") /\ GateGoes("bundle evidence")
    /\ bundle' = [NoBundle EXCEPT !.wheel = world["wheel"].at, !.sdist = world["sdist"].at]
    /\ UNCHANGED <<world, stage, dirs>> /\ NothingElse

BundleEvidence ==
    /\ GateAt("bundle evidence") /\ GateGoes("bundle sums")
    /\ bundle' = [bundle EXCEPT !.evidence = evidence, !.validated = gate.validated]
    /\ UNCHANGED <<world, stage, dirs>> /\ NothingElse

BundleSums ==
    /\ GateAt("bundle sums") /\ GateEnds("ok")
    /\ bundle' = [bundle EXCEPT !.complete = TRUE]
    /\ UNCHANGED <<world, stage, dirs>> /\ NothingElse

-----------------------------------------------------------------------------
(* A ReleaseCheckError or another error anywhere, or a kill.  An error of a*)
(* copy removes its temporary file, a kill does not.                       *)
Breaks ==
    /\ gate.pc # "idle" /\ gates.broken < MaxBreaks
    /\ gates' = [gates EXCEPT !.broken = @ + 1]
    /\ UNCHANGED <<evidenceVars, source, stage, bundle>>

(* Mutant of GateFails: the temporary file of a failed copy is left.       *)
GateFailsLittering ==
    /\ Breaks /\ GateEnds("failed")
    /\ cut' = (cut \/ GateAt("clear"))
    /\ dirs' = [d \in Dirs |-> IF GateAt("copy") /\ d = gate.dir
                               THEN [dirs[d] EXCEPT !.litter = TRUE] ELSE dirs[d]]

GateFails ==
    /\ Breaks /\ GateEnds("failed")
    /\ cut' = (cut \/ GateAt("clear"))
    /\ UNCHANGED dirs

GateKilled ==
    /\ Breaks /\ GateEnds("killed") /\ cut' = TRUE
    /\ \E littered \in BOOLEAN :
          dirs' = [d \in Dirs |->
                      IF littered /\ d = gate.dir /\ (GateAt("copy") \/ GateAt("sums"))
                      THEN [dirs[d] EXCEPT !.litter = TRUE] ELSE dirs[d]]

GateStep ==
    \/ PrepareStage \/ ClearStage \/ MarkStage \/ RunTests \/ AcceptFixture
    \/ BuildPackages \/ InspectPackages
    \/ ScanDirectory \/ CopyPackage \/ WriteSums \/ RemoveStale
    \/ ValidateEvidence \/ ValidateSite \/ SmokeInstall
    \/ WriteChecksums \/ OpenBundle \/ BundlePackages \/ BundleEvidence \/ BundleSums

(* The owners: an acceptance is repeated, a decision accepted, the tools   *)
(* replaced; the sources edited, and with or without a new version.        *)
OwnersChange ==
    /\ \E piece \in Pieces \ Kinds : ReplacePiece(piece)
    /\ UNCHANGED gateVars

EditSource ==
    /\ changes < MaxChanges
    /\ \E version \in source.version .. source.version + 1 :
          source' = [edition |-> source.edition + 1, version |-> version]
    /\ changes' = changes + 1
    /\ UNCHANGED <<world, gen, moment, evidence, gate, stage, bundle, dirs, gates, cut>>

(* The evidence file of the first release comes back from the repository.  *)
RestoreEvidence ==
    /\ changes < MaxChanges /\ evidence # FirstRecord
    /\ evidence' = FirstRecord
    /\ changes' = changes + 1
    /\ UNCHANGED <<world, gen, moment, gateVars>>

GateNext ==
    \/ \E bootstrap \in BOOLEAN : StartGate(bootstrap)
    \/ GateStep \/ GateFails \/ GateKilled
    \/ gate.exit = "ok" /\ (StartGenerator \/ GeneratorStep) /\ UNCHANGED gateVars
    \/ OwnersChange \/ EditSource \/ RestoreEvidence

GateSpec == GateInit /\ [][GateNext]_<<evidenceVars, gateVars>>

-----------------------------------------------------------------------------
GateTypeOK ==
    /\ EvidenceTypeOK
    /\ source.edition \in Nat /\ source.version \in Nat
    /\ stage \subseteq {"foreign", "marker", "reports", "packages", "publish"}
    /\ \A d \in Dirs : \A f, g \in dirs[d].files : SameName(f, g) => f = g
    /\ bundle = NoBundle \/ "publish" \in stage

(* "Create the only CI-uploadable bundle from already validated public     *)
(* files" (release_check.py:1201): a complete bundle holds the packages of *)
(* its own stage, of one edition, and its gate has validated evidence about*)
(* exactly these packages, of runs of their code by the toolchain it names,*)
(* the warm one of which the channel it names had accepted when the record *)
(* was made.  It need not be the evidence in the bundle, which is what the *)
(* file holds when it is copied.                                           *)
BundleIsGated ==
    bundle.complete =>
        /\ "packages" \in stage => \A kind \in Kinds : bundle[kind] = world[kind].at
        /\ bundle.wheel = bundle.sdist
        /\ \A kind \in Kinds : bundle.validated[kind].at = bundle[kind]
        /\ \A p \in {"cold", "warm", "tools"} : bundle.validated[p].of = bundle.wheel
        /\ bundle.validated["channel"].of = bundle.validated["warm"].at

(* "It also requires the warm manifest to be the exact current release in  *)
(* a verified baseline channel [...] a changed [...] current baseline fails*)
(* the gate" (docs/REAL_ACCEPTANCE.md:5-11): what a normal gate validates  *)
(* quotes the channel as it is (generate_public_evidence.py:1580).         *)
EvidenceIsCurrent ==
    [][GateAt("validate") /\ gate'.pc = "site" /\ ~gate.bootstrap
          => evidence["channel"] = world["channel"]]_gateVars

(* "Replace the conventional dist/ contents with the exact inspected pair" *)
(* and "refresh their public checksum manifest" (release_check.py:1120,    *)
(* 1035): whatever was there and whatever broke before, a gate that has got*)
(* past the downloads leaves both directories with the pair it built and   *)
(* with checksums of exactly these two files.                              *)
PastDownloads ==
    gate.pc \in {"validate", "site", "smoke", "checksums", "publish",
                 "bundle packages", "bundle evidence", "bundle sums"}

DownloadsAgree ==
    PastDownloads =>
        /\ \A d \in Dirs : dirs[d].files = {File(kind) : kind \in Kinds}
        /\ dirs["downloads"].sums = dirs["downloads"].files

(* "Reset only a directory carrying our exact marker; refuse unknown       *)
(* contents" (release_check.py:206): the refusals that end it all until    *)
(* somebody cleans up by hand, of a stage without a marker and of a        *)
(* temporary file in the downloads, meet only a foreign directory or what  *)
(* was left by a kill or a clearing that failed.                           *)
OnlyCutsBlock ==
    gate.exit \in {"unmarked", "litter"} => cut \/ "foreign" \in stage
=============================================================================
