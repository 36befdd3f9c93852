--------------------------- MODULE PublicEvidence ---------------------------
(***************************************************************************)
(* generate_public_evidence.py: the record of a real acceptance is put     *)
(* together from seven pieces that are read one after the other while      *)
(* their owners may replace them: the manifests of a cold and a warm run,  *)
(* their artifacts, the live toolchain, the baseline channel, the wheel    *)
(* and the sdist.                                                          *)
(*                                                                         *)
(* What a piece holds is a number, "at", and what it is about, "of": a     *)
(* release, and for the channel the warm manifest its last decision        *)
(* accepts.  Pieces that are about the same release pass the checks that   *)
(* compare them.  What was replaced does not come back.                    *)
(***************************************************************************)
EXTENDS Naturals, Sequences

CONSTANTS
    Releases,       \* numbers of releases, from 1
    MaxChanges      \* bound: pieces replaced

ASSUME EvidenceAssumption ==
    /\ Releases \subseteq Nat \ {0} /\ 1 \in Releases
    /\ MaxChanges \in Nat

VARIABLES
    world,      \* what each piece holds
    gen,        \* the generator: its place, the run, what it has recorded and parsed
    moment,     \* history: the world when the sdist was recorded
    evidence,   \* real-evidence.json
    changes

evidenceVars == <<world, gen, moment, evidence, changes>>

Runs == {"cold", "warm"}
Pieces == Runs \union {"artifacts", "tools", "channel", "wheel", "sdist"}
Contents == [at : Nat, of : Nat]
Absent == [at |-> 0, of |-> 0]
AllAbsent == [p \in Pieces |-> Absent]

NotGenerating == [pc |-> "idle", run |-> "cold", seen |-> AllAbsent,
                  parsed |-> [run \in Runs |-> Absent], code |-> 0, again |-> FALSE]

FirstRecord == [p \in Pieces |-> [at |-> 1, of |-> 1]]

(* The first release has been made, and its evidence is there or not.      *)
EvidenceInit ==
    /\ world = FirstRecord
    /\ gen = NotGenerating
    /\ moment = AllAbsent
    /\ evidence \in {AllAbsent, FirstRecord}
    /\ changes = 0

(* The step of the generator at "label": a PublicEvidenceError rejects the *)
(* record.                                                                 *)
Step(label, accepted, next) ==
    /\ gen.pc = label
    /\ gen' = IF accepted THEN next ELSE NotGenerating

Goes(label) == [gen EXCEPT !.pc = label]
EachRun(again, done) ==
    IF gen.run = "cold" THEN [gen EXCEPT !.run = "warm", !.pc = again]
                        ELSE [gen EXCEPT !.run = "cold", !.pc = done]
Sees(piece, label) == [gen EXCEPT !.seen[piece] = world[piece], !.pc = label]
Unchanged(piece) == world[piece] = gen.seen[piece]
Verifies(run) == world["artifacts"].of = world[run].of

StartGenerator ==
    /\ gen.pc = "idle"
    /\ gen' = [NotGenerating EXCEPT !.pc = "record"]
    /\ UNCHANGED <<world, moment, evidence, changes>>

-----------------------------------------------------------------------------
(* _strict_manifest, of the cold and of the warm run.                      *)
RecordManifest == Step("record", world[gen.run] # Absent, Sees(gen.run, "load"))

LoadManifest ==
    Step("load", TRUE, [gen EXCEPT !.parsed[gen.run] = world[gen.run], !.pc = "verify"])

VerifyManifest == Step("verify", Verifies(gen.run), Goes("same"))

ManifestUnchanged == Step("same", Unchanged(gen.run), EachRun("record", "digest"))

(* _modelbake_file_digest                                                  *)
DigestManifest == Step("digest", Unchanged(gen.run), EachRun("digest", "lineage"))

(* What the two manifests say of their recipe, sources and outputs, and of *)
(* the tools, commands, host and code that made them.  Of the outputs only *)
(* the sizes are read, which other contents may have as well.              *)
SameRelease == gen.parsed["cold"].of = gen.parsed["warm"].of

CompareLineage == Step("lineage", SameRelease, Goes("tools"))

(* The live toolchain is the one the manifests recorded.                   *)
ToolchainFits == world["tools"].of = gen.parsed["cold"].of

ObserveToolchain == Step("tools", ToolchainFits, Sees("tools", "artifacts"))

(* The GGUF headers and the smoke outputs: contents of another release may *)
(* have the same.                                                          *)
CheckArtifacts == Step("artifacts", TRUE, Goes("ledger"))

-----------------------------------------------------------------------------
(* _baseline_acceptance_binding, twice.  What the second one binds is      *)
(* compared at once: the code compares it at its end.                      *)
VerifyLedger ==
    Step("ledger", /\ world["channel"].of = gen.seen["warm"].at
                   /\ gen.again => Unchanged("channel"),
         IF gen.again THEN Goes("bind") ELSE Sees("channel", "bind"))

BindManifest == Step("bind", Unchanged("warm"), Goes("check"))

CheckBaseline ==
    Step("check", Unchanged("channel") /\ world["channel"].of = world["warm"].at /\ Verifies("warm"),
         Goes("ledger again"))

VerifyLedgerAgain ==
    Step("ledger again", Unchanged("channel"), Goes(IF gen.again THEN "validate wheel" ELSE "wheel"))

-----------------------------------------------------------------------------
RecordWheel == Step("wheel", world["wheel"] # Absent, Sees("wheel", "wheel code"))

ReadWheelCode ==
    Step("wheel code", TRUE, [gen EXCEPT !.code = world["wheel"].of, !.pc = "wheel same"])

WheelUnchanged == Step("wheel same", Unchanged("wheel"), Goes("sdist"))

RecordSdist ==
    /\ Step("sdist", world["sdist"] # Absent /\ gen.code = gen.parsed["cold"].of,
            Sees("sdist", "final"))
    /\ moment' = world

(* _final_manifest_verification                                            *)
(* Mutant of FinalRecord: the manifests are not read again.                *)
FinalNothing == Step("final", TRUE, Goes("final verify"))

FinalRecord == Step("final", Unchanged(gen.run), Goes("final verify"))

FinalVerification == Step("final verify", Verifies(gen.run), EachRun("final", "tools again"))

ObserveAgain ==
    Step("tools again", Unchanged("tools"), [gen EXCEPT !.again = TRUE, !.pc = "ledger"])

(* validate_public_evidence, of the payload and the two packages.          *)
ValidateWheel == Step("validate wheel", Unchanged("wheel"), Goes("validate sdist"))
ValidateSdist == Step("validate sdist", Unchanged("sdist"), Goes("validate code"))
ValidateCode == Step("validate code", world["wheel"].of = gen.code, Goes("write"))

(* The payload names what was recorded of each piece.                      *)
(* write_private_json: the file is replaced, or an OSError leaves it.      *)
Payload == gen.seen

WriteEvidence ==
    /\ gen.pc = "write"
    /\ evidence' \in {Payload, evidence}
    /\ gen' = NotGenerating
    /\ UNCHANGED <<world, moment, changes>>

(* An OSError or a kill.                                                   *)
GeneratorStops ==
    /\ gen.pc # "idle"
    /\ gen' = NotGenerating
    /\ UNCHANGED <<world, moment, evidence, changes>>

Reads ==
    \/ RecordManifest \/ LoadManifest \/ VerifyManifest \/ ManifestUnchanged \/ DigestManifest
    \/ CompareLineage \/ ObserveToolchain \/ CheckArtifacts
    \/ VerifyLedger \/ BindManifest \/ CheckBaseline \/ VerifyLedgerAgain
    \/ RecordWheel \/ ReadWheelCode \/ WheelUnchanged
    \/ FinalRecord \/ FinalVerification \/ ObserveAgain
    \/ ValidateWheel \/ ValidateSdist \/ ValidateCode

GeneratorStep ==
    \/ Reads /\ UNCHANGED <<world, moment, evidence, changes>>
    \/ RecordSdist /\ UNCHANGED <<world, evidence, changes>>
    \/ WriteEvidence \/ GeneratorStops

(* Somebody replaces a piece.  Artifacts that are about a release again    *)
(* would be their old bytes.                                               *)
ReplacePiece(piece) ==
    /\ changes < MaxChanges
    /\ \E of \in Releases :
          /\ piece = "artifacts" => of > world[piece].of
          /\ world' = [world EXCEPT ![piece] = [at |-> @.at + 1, of |-> of]]
    /\ changes' = changes + 1
    /\ UNCHANGED <<gen, moment, evidence>>

EvidenceNext == StartGenerator \/ GeneratorStep \/ \E piece \in Pieces : ReplacePiece(piece)

EvidenceSpec == EvidenceInit /\ [][EvidenceNext]_evidenceVars

-----------------------------------------------------------------------------
EvidenceTypeOK ==
    /\ world \in [Pieces -> Contents]
    /\ gen.run \in Runs
    /\ gen.seen \in [Pieces -> Contents] /\ gen.parsed \in [Runs -> Contents]
    /\ gen.code \in Nat /\ gen.again \in BOOLEAN
    /\ moment \in [Pieces -> Contents]
    /\ evidence \in [Pieces -> Contents]
    /\ changes \in Nat

(* "Validate private evidence and return its deliberately narrow public    *)
(* form" (generate_public_evidence.py:1755): a payload that is written     *)
(* describes one moment.  When the sdist was recorded, all that the payload*)
(* quotes was there together: the manifests it has read are the ones it    *)
(* names, their artifacts and the toolchain belong to them, the channel    *)
(* accepted that warm manifest, and the wheel is the code both ran.        *)
EvidenceIsOneMoment ==
    gen.pc = "write" =>
        /\ \A p \in Pieces \ {"artifacts"} : Payload[p] = moment[p]
        /\ \A run \in Runs : gen.parsed[run] = moment[run]
        /\ \A p \in {"warm", "artifacts", "tools", "wheel"} : moment[p].of = moment["cold"].of
        /\ moment["channel"].of = moment["warm"].at
=============================================================================
