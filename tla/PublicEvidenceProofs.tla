------------------------ MODULE PublicEvidenceProofs ------------------------
(***************************************************************************)
(* Proofs about PublicEvidence, for any number of releases and of changes: *)
(* what the generator writes describes one moment.                         *)
(*                                                                         *)
(* The generator is at one place after the other.  What it knows grows with*)
(* the place: each piece it has recorded is as old as the world's or older,*)
(* and a check that finds them equal squeezes all that was read between the*)
(* two looks.                                                              *)
(***************************************************************************)
EXTENDS PublicEvidence, Integers, TLAPS

(* The contents a and later b of one piece.                                *)
Older(a, b) == a = b \/ a.at < b.at

Place(pc, run, again) ==
    CASE pc = "record" -> IF run = "cold" THEN 1 ELSE 5
      [] pc = "load" -> IF run = "cold" THEN 2 ELSE 6
      [] pc = "verify" -> IF run = "cold" THEN 3 ELSE 7
      [] pc = "same" -> IF run = "cold" THEN 4 ELSE 8
      [] pc = "digest" -> IF run = "cold" THEN 9 ELSE 10
      [] pc = "lineage" -> 11
      [] pc = "tools" -> 12
      [] pc = "artifacts" -> 13
      [] pc = "ledger" -> IF again THEN 27 ELSE 14
      [] pc = "bind" -> IF again THEN 28 ELSE 15
      [] pc = "check" -> IF again THEN 29 ELSE 16
      [] pc = "ledger again" -> IF again THEN 30 ELSE 17
      [] pc = "wheel" -> 18
      [] pc = "wheel code" -> 19
      [] pc = "wheel same" -> 20
      [] pc = "sdist" -> 21
      [] pc = "final" -> IF run = "cold" THEN 22 ELSE 24
      [] pc = "final verify" -> IF run = "cold" THEN 23 ELSE 25
      [] pc = "tools again" -> 26
      [] pc = "validate wheel" -> 31
      [] pc = "validate sdist" -> 32
      [] pc = "validate code" -> 33
      [] pc = "write" -> 34
      [] OTHER -> 0

RunLabels == {"record", "load", "verify", "same", "digest", "final", "final verify"}
AgainLabels == {"ledger", "bind", "check", "ledger again"}
LastLabels == {"validate wheel", "validate sdist", "validate code", "write"}
Labels == RunLabels \union AgainLabels \union LastLabels \union
          {"idle", "lineage", "tools", "artifacts", "wheel", "wheel code", "wheel same", "sdist",
           "tools again"}

(* Only a loop over the runs is at the warm one, and only the second look  *)
(* at the ledger and what follows it come again.                           *)
WellPlaced(pc, run, again) ==
    /\ pc \notin RunLabels => run = "cold"
    /\ again => pc \in AgainLabels \union LastLabels
    /\ pc \in LastLabels => again

-----------------------------------------------------------------------------
(* What the generator knows at place k of the pieces s it has recorded, the*)
(* manifests q it has parsed, and the code c of the wheel, in the world w. *)
RecordedBefore(k, s, w) ==
    /\ k > 1 => Older(s["cold"], w["cold"])
    /\ k > 5 => Older(s["warm"], w["warm"])
    /\ k > 12 => Older(s["tools"], w["tools"])
    /\ k > 14 => Older(s["channel"], w["channel"])
    /\ k > 18 => Older(s["wheel"], w["wheel"])
    /\ k > 21 => Older(s["sdist"], w["sdist"])

ParsedBetween(k, s, q, w) ==
    /\ k > 2 => Older(s["cold"], q["cold"]) /\ Older(q["cold"], w["cold"])
    /\ k > 6 => Older(s["warm"], q["warm"]) /\ Older(q["warm"], w["warm"])
    /\ k > 4 => q["cold"] = s["cold"]
    /\ k > 8 => q["warm"] = s["warm"]

BelongTogether(k, s, c, w) ==
    /\ k = 4 => (w["cold"] = s["cold"] => s["cold"].of <= w["artifacts"].of)
    /\ k > 4 => s["cold"].of <= w["artifacts"].of
    /\ k > 11 => s["warm"].of = s["cold"].of
    /\ k > 12 => s["tools"].of = s["cold"].of
    /\ k > 14 => s["channel"].of = s["warm"].at
    /\ k = 20 => (w["wheel"] = s["wheel"] => c = s["wheel"].of)
    /\ k > 20 => c = s["wheel"].of
    /\ k > 21 => c = s["cold"].of

(* The moment m is between the records and the checks of the second half.  *)
MomentBetween(k, s, m, w) ==
    k > 21 =>
        /\ \A p \in Pieces \ {"artifacts"} : Older(s[p], m[p]) /\ Older(m[p], w[p])
        /\ m["sdist"] = s["sdist"]
        /\ s["cold"].of <= m["artifacts"].of /\ m["artifacts"].of <= w["artifacts"].of

MomentIsSeen(k, s, m) ==
    /\ k > 22 => m["cold"] = s["cold"]
    /\ k > 24 => m["warm"] = s["warm"]
    /\ k > 26 => m["tools"] = s["tools"]
    /\ k > 27 => m["channel"] = s["channel"]
    /\ k > 31 => m["wheel"] = s["wheel"]
    /\ k > 29 => m["artifacts"].of <= s["cold"].of

Knows(k, s, q, c, m, w) ==
    /\ RecordedBefore(k, s, w) /\ ParsedBetween(k, s, q, w) /\ BelongTogether(k, s, c, w)
    /\ MomentBetween(k, s, m, w) /\ MomentIsSeen(k, s, m)

PlaceOf == Place(gen.pc, gen.run, gen.again)

GenSet == [pc : Labels, run : Runs, seen : [Pieces -> Contents], parsed : [Runs -> Contents],
           code : Nat, again : BOOLEAN]

EvidenceInv ==
    /\ world \in [Pieces -> Contents]
    /\ gen \in GenSet
    /\ moment \in [Pieces -> Contents] /\ evidence \in [Pieces -> Contents]
    /\ changes \in Nat
    /\ WellPlaced(gen.pc, gen.run, gen.again)
    /\ Knows(PlaceOf, gen.seen, gen.parsed, gen.code, moment, world)

-----------------------------------------------------------------------------
LEMMA OlderIsTransitive ==
    ASSUME NEW a \in Contents, NEW b \in Contents, NEW c \in Contents, Older(a, b), Older(b, c)
    PROVE Older(a, c)
BY DEF Older, Contents

LEMMA Squeezed ==
    ASSUME NEW a \in Contents, NEW b \in Contents, Older(a, b), Older(b, a)
    PROVE a = b
BY DEF Older, Contents

LEMMA AbsentIsContents == Absent \in Contents /\ AllAbsent \in [Pieces -> Contents]
BY DEF Absent, AllAbsent, Contents

LEMMA PiecesAre ==
    /\ {"cold", "warm", "artifacts", "tools", "channel", "wheel", "sdist"} \subseteq Pieces
    /\ Runs = {"cold", "warm"}
BY DEF Pieces, Runs

(* At place 0 nothing is known.                                            *)
LEMMA IdleKnowsNothing ==
    ASSUME gen' = NotGenerating, world' \in [Pieces -> Contents], moment' \in [Pieces -> Contents],
           evidence' \in [Pieces -> Contents], changes' \in Nat
    PROVE EvidenceInv'
<1>1. gen' \in GenSet
  <2> DEFINE none == [run \in Runs |-> Absent]
  <2>1. none \in [Runs -> Contents] /\ AllAbsent \in [Pieces -> Contents]
    BY AbsentIsContents
  <2>2. gen' = [pc |-> "idle", run |-> "cold", seen |-> AllAbsent, parsed |-> none, code |-> 0,
                again |-> FALSE]
    BY DEF NotGenerating
  <2> HIDE DEF none
  <2>3. QED
    BY <2>1, <2>2, PiecesAre DEF GenSet, Labels
<1>2. gen'.pc = "idle" /\ gen'.run = "cold" /\ gen'.again = FALSE
  BY DEF NotGenerating
<1>3. PlaceOf' = 0 /\ WellPlaced(gen'.pc, gen'.run, gen'.again)
  BY <1>2 DEF PlaceOf, Place, WellPlaced, RunLabels, AgainLabels, LastLabels
<1>4. QED
  BY <1>1, <1>3 DEF EvidenceInv, Knows, RecordedBefore, ParsedBetween, BelongTogether,
     MomentBetween, MomentIsSeen

(* Knowledge ages well.                                                    *)
LEMMA KnowledgeAges ==
    ASSUME NEW k \in Nat, NEW s \in [Pieces -> Contents], NEW q \in [Runs -> Contents],
           NEW c \in Nat, NEW m \in [Pieces -> Contents], NEW v \in [Pieces -> Contents],
           NEW w \in [Pieces -> Contents], Knows(k, s, q, c, m, v),
           \A p \in Pieces : Older(v[p], w[p]), v["artifacts"].of <= w["artifacts"].of
    PROVE Knows(k, s, q, c, m, w)
<1> USE PiecesAre
<1>1. \A p \in Pieces : /\ s[p] \in Contents /\ m[p] \in Contents
                       /\ v[p] \in Contents /\ w[p] \in Contents
  OBVIOUS
<1>2. \A r \in Runs : q[r] \in Contents
  OBVIOUS
<1>3. RecordedBefore(k, s, w)
  BY <1>1, OlderIsTransitive DEF Knows, RecordedBefore
<1>4. ParsedBetween(k, s, q, w)
  BY <1>1, <1>2, OlderIsTransitive DEF Knows, ParsedBetween
<1>5. BelongTogether(k, s, c, w)
  <2>1. k > 4 => s["cold"].of <= w["artifacts"].of
    BY <1>1 DEF Knows, BelongTogether, Contents
  <2>2. k = 4 => (w["cold"] = s["cold"] => s["cold"].of <= w["artifacts"].of)
    <3> SUFFICES ASSUME k = 4, w["cold"] = s["cold"]
                 PROVE  s["cold"].of <= w["artifacts"].of
      OBVIOUS
    <3>1. Older(s["cold"], v["cold"]) /\ Older(v["cold"], s["cold"])
      BY DEF Knows, RecordedBefore
    <3>2. s["cold"] = v["cold"]
      BY <3>1, <1>1, Squeezed
    <3>3. s["cold"].of <= v["artifacts"].of
      BY <3>2 DEF Knows, BelongTogether
    <3> QED
      BY <1>1, <3>3 DEF Contents
  <2>3. k = 20 => (w["wheel"] = s["wheel"] => c = s["wheel"].of)
    <3> SUFFICES ASSUME k = 20, w["wheel"] = s["wheel"] PROVE c = s["wheel"].of
      OBVIOUS
    <3>1. Older(s["wheel"], v["wheel"]) /\ Older(v["wheel"], s["wheel"])
      BY DEF Knows, RecordedBefore
    <3>2. s["wheel"] = v["wheel"]
      BY <3>1, <1>1, Squeezed
    <3>3. QED
      BY <3>2 DEF Knows, BelongTogether
  <2>4. QED
    BY <2>1, <2>2, <2>3 DEF Knows, BelongTogether
<1>6. MomentBetween(k, s, m, w)
  <2> SUFFICES ASSUME k > 21
               PROVE  /\ \A p \in Pieces \ {"artifacts"} : Older(m[p], w[p])
                      /\ m["artifacts"].of <= w["artifacts"].of
    BY DEF Knows, MomentBetween
  <2>1. \A p \in Pieces \ {"artifacts"} : Older(m[p], w[p])
    BY <1>1, OlderIsTransitive DEF Knows, MomentBetween
  <2>2. QED
    BY <2>1, <1>1 DEF Knows, MomentBetween, Contents
<1>7. QED
  BY <1>3, <1>4, <1>5, <1>6 DEF Knows

-----------------------------------------------------------------------------
(* One step of the generator: it is rejected, or what it then knows is to  *)
(* be shown.                                                               *)
LEMMA Advances ==
    ASSUME EvidenceInv, NEW rec \in GenSet, gen' = rec, moment' \in [Pieces -> Contents],
           UNCHANGED <<world, evidence, changes>>, WellPlaced(rec.pc, rec.run, rec.again),
           Knows(Place(rec.pc, rec.run, rec.again), rec.seen, rec.parsed, rec.code, moment', world)
    PROVE EvidenceInv'
BY DEF EvidenceInv, PlaceOf

LEMMA Rejected ==
    ASSUME EvidenceInv, gen' = NotGenerating, UNCHANGED <<world, moment, evidence, changes>>
    PROVE EvidenceInv'
BY IdleKnowsNothing DEF EvidenceInv

(* The generator's record after a step, field by field.                    *)
Becomes(pc, run, again, s) ==
    /\ gen' \in GenSet
    /\ gen'.pc = pc /\ gen'.run = run /\ gen'.again = again
    /\ gen'.seen = s /\ gen'.parsed = gen.parsed /\ gen'.code = gen.code

LEMMA BecomesGoes ==
    ASSUME EvidenceInv, NEW pc \in Labels, gen' = Goes(pc)
    PROVE Becomes(pc, gen.run, gen.again, gen.seen)
BY DEF EvidenceInv, GenSet, Goes, Becomes

LEMMA BecomesSees ==
    ASSUME EvidenceInv, NEW pc \in Labels, NEW p \in Pieces, gen' = Sees(p, pc)
    PROVE Becomes(pc, gen.run, gen.again, [gen.seen EXCEPT ![p] = world[p]])
<1> DEFINE s == [gen.seen EXCEPT ![p] = world[p]]
<1>1. gen' = [gen EXCEPT !.seen = s, !.pc = pc] /\ s \in [Pieces -> Contents]
  BY DEF EvidenceInv, GenSet, Sees
<1> HIDE DEF s
<1>2. Becomes(pc, gen.run, gen.again, s)
  BY <1>1 DEF EvidenceInv, GenSet, Becomes
<1>3. QED
  BY <1>2 DEF s

LEMMA BecomesRun ==
    ASSUME EvidenceInv, NEW a \in Labels, NEW d \in Labels, gen' = EachRun(a, d)
    PROVE  /\ gen.run = "cold" => Becomes(a, "warm", gen.again, gen.seen)
           /\ gen.run = "warm" => Becomes(d, "cold", gen.again, gen.seen)
<1>1. CASE gen.run = "cold"
  <2>1. gen' = [gen EXCEPT !.run = "warm", !.pc = a]
    BY <1>1 DEF EachRun
  <2>2. QED
    BY <2>1, <1>1, PiecesAre DEF EvidenceInv, GenSet, Becomes
<1>2. CASE gen.run # "cold"
  <2>1. gen' = [gen EXCEPT !.run = "cold", !.pc = d]
    BY <1>2 DEF EachRun
  <2>2. QED
    BY <2>1, <1>2, PiecesAre DEF EvidenceInv, GenSet, Becomes
<1>3. QED
  BY <1>1, <1>2

LEMMA NextPlace ==
    ASSUME EvidenceInv, NEW pc \in Labels, NEW run \in Runs, NEW again \in BOOLEAN,
           NEW s \in [Pieces -> Contents], NEW k \in Nat, Becomes(pc, run, again, s),
           moment' \in [Pieces -> Contents], UNCHANGED <<world, evidence, changes>>,
           WellPlaced(pc, run, again), Place(pc, run, again) = k,
           Knows(k, s, gen.parsed, gen.code, moment', world)
    PROVE EvidenceInv'
<1>1. gen' \in GenSet
  BY DEF Becomes
<1>2. WellPlaced(gen'.pc, gen'.run, gen'.again)
  BY DEF Becomes
<1>3. Knows(Place(gen'.pc, gen'.run, gen'.again), gen'.seen, gen'.parsed, gen'.code, moment', world)
  BY DEF Becomes
<1>4. QED
  BY <1>1, <1>2, <1>3, Advances

(* Where the generator is at a label.                                      *)
LEMMA Situation ==
    ASSUME EvidenceInv
    PROVE  /\ gen.run \in {"cold", "warm"} /\ gen.again \in BOOLEAN
           /\ gen.pc \in Labels \ RunLabels => gen.run = "cold"
           /\ gen.pc \in Labels \ (AgainLabels \union LastLabels) => gen.again = FALSE
           /\ gen.pc \in LastLabels => gen.again = TRUE
BY PiecesAre DEF EvidenceInv, GenSet, WellPlaced

LEMMA Fields ==
    ASSUME EvidenceInv
    PROVE  /\ world \in [Pieces -> Contents] /\ moment \in [Pieces -> Contents]
           /\ gen.seen \in [Pieces -> Contents] /\ gen.parsed \in [Runs -> Contents]
           /\ gen.code \in Nat /\ gen.pc \in Labels
           /\ \A p \in Pieces : /\ world[p] \in Contents /\ moment[p] \in Contents
                                 /\ gen.seen[p] \in Contents
           /\ \A r \in Runs : gen.parsed[r] \in Contents
           /\ Knows(PlaceOf, gen.seen, gen.parsed, gen.code, moment, world)
BY DEF EvidenceInv, GenSet

(* Two looks that agree.                                                   *)
LEMMA Agreeing ==
    ASSUME NEW a \in Contents, NEW b \in Contents, NEW c \in Contents,
           Older(a, b), Older(b, c), a = c
    PROVE b = a
BY DEF Older, Contents

-----------------------------------------------------------------------------
(* _strict_manifest. A rejection forgets; else one more thing is known.    *)
LEMMA RecordManifestInv ==
    ASSUME EvidenceInv, RecordManifest, UNCHANGED <<world, moment, evidence, changes>>
    PROVE EvidenceInv'
<1>1. CASE gen' = NotGenerating
  BY <1>1, Rejected
<1>2. CASE gen' = Sees(gen.run, "load")
  <2>1. gen.pc = "record" /\ gen.again = FALSE
    BY Situation DEF RecordManifest, Step, Labels, RunLabels, AgainLabels, LastLabels
  <2> DEFINE s == [gen.seen EXCEPT ![gen.run] = world[gen.run]]
  <2>2. s \in [Pieces -> Contents] /\ gen.run \in Pieces /\ gen.run \in Runs
    BY Fields, Situation, PiecesAre
  <2>3. WellPlaced("load", gen.run, FALSE) /\ "load" \in Labels
    BY DEF WellPlaced, Labels, RunLabels, AgainLabels, LastLabels
  <2>4. Becomes("load", gen.run, FALSE, s)
    BY <1>2, <2>1, <2>2, <2>3, BecomesSees
  <2>5. ASSUME NEW k \in Nat, Place("load", gen.run, FALSE) = k,
               Knows(k, s, gen.parsed, gen.code, moment', world)
        PROVE EvidenceInv'
    <3> HIDE DEF s
    <3>1. moment' \in [Pieces -> Contents]
      BY Fields
    <3>2. QED
      BY <2>2, <2>3, <2>4, <2>5, <3>1, NextPlace
  <2>6. CASE gen.run = "cold"
    <3>1. PlaceOf = 1 /\ Place("load", gen.run, FALSE) = 2
      BY <2>1, <2>6 DEF PlaceOf, Place
    <3>2. Knows(2, s, gen.parsed, gen.code, moment', world)
      BY <2>6, <3>1, Fields, PiecesAre DEF Older, Knows, RecordedBefore, ParsedBetween,
         BelongTogether, MomentBetween, MomentIsSeen
    <3>3. QED
      BY <2>5, <3>1, <3>2
  <2>7. CASE gen.run = "warm"
    <3>1. PlaceOf = 5 /\ Place("load", gen.run, FALSE) = 6
      BY <2>1, <2>7 DEF PlaceOf, Place
    <3>2. Knows(6, s, gen.parsed, gen.code, moment', world)
      BY <2>7, <3>1, Fields, PiecesAre DEF Older, Knows, RecordedBefore, ParsedBetween,
         BelongTogether, MomentBetween, MomentIsSeen
    <3>3. QED
      BY <2>5, <3>1, <3>2
  <2>8. QED
    BY <2>6, <2>7, Situation
<1>3. QED
  BY <1>1, <1>2 DEF RecordManifest, Step
(* After the moment all is known but what the second looks say of it.      *)
LEMMA LaterKnows ==
    ASSUME NEW k \in Nat, NEW j \in Nat, k > 21, j > k, NEW s, NEW q, NEW c, NEW m, NEW w,
           Knows(k, s, q, c, m, w), MomentIsSeen(j, s, m)
    PROVE Knows(j, s, q, c, m, w)
<1>1. RecordedBefore(j, s, w)
  BY DEF Knows, RecordedBefore
<1>2. ParsedBetween(j, s, q, w)
  BY DEF Knows, ParsedBetween
<1>3. BelongTogether(j, s, c, w)
  BY DEF Knows, BelongTogether
<1>4. MomentBetween(j, s, m, w)
  BY DEF Knows, MomentBetween
<1>5. QED
  BY <1>1, <1>2, <1>3, <1>4 DEF Knows

LEMMA MomentAgrees ==
    ASSUME EvidenceInv, PlaceOf \in Nat, PlaceOf > 21, NEW p \in Pieces, p # "artifacts",
    Unchanged(p)
    PROVE moment[p] = gen.seen[p]
<1>1. Older(gen.seen[p], moment[p]) /\ Older(moment[p], world[p])
  BY Fields DEF Knows, MomentBetween
<1>2. QED
  BY <1>1, Fields, Agreeing DEF Unchanged

LEMMA VerifyManifestInv ==
    ASSUME EvidenceInv, VerifyManifest, UNCHANGED <<world, moment, evidence, changes>>
    PROVE EvidenceInv'
<1>1. CASE gen' = NotGenerating
  BY <1>1, Rejected
<1>2. ASSUME gen' = Goes("same"), Verifies(gen.run)
      PROVE EvidenceInv'
  <2>1. gen.pc = "verify" /\ gen.again = FALSE
    BY <1>2, Situation DEF VerifyManifest, Step, Labels, RunLabels, AgainLabels, LastLabels
  <2>2. CASE gen.run = "cold"
    <3>1. PlaceOf = 3
      BY <2>1, <2>2 DEF PlaceOf, Place
    <3>2. Place("same", "cold", FALSE) = 4
      BY DEF Place
    <3>3. Becomes("same", "cold", FALSE, gen.seen)
      BY <1>2, <2>1, <2>2, BecomesGoes DEF Labels, RunLabels, AgainLabels, LastLabels
    <3>4. WellPlaced("same", "cold", FALSE) /\ "same" \in Labels
      BY DEF WellPlaced, Labels, RunLabels, AgainLabels, LastLabels
    <3>5. world["cold"] = gen.seen["cold"] => gen.seen["cold"].of <= world["artifacts"].of
      BY <1>2, <2>2, Fields, PiecesAre DEF Verifies, Contents
    <3>6. Knows(4, gen.seen, gen.parsed, gen.code, moment, world)
      BY <2>2, <3>1, <3>5, Fields, PiecesAre DEF Contents, Knows, RecordedBefore, ParsedBetween,
         BelongTogether, MomentBetween, MomentIsSeen
    <3>7. QED
      BY <3>2, <3>3, <3>4, <3>6, Fields, PiecesAre, NextPlace
  <2>3. CASE gen.run = "warm"
    <3>1. PlaceOf = 7
      BY <2>1, <2>3 DEF PlaceOf, Place
    <3>2. Place("same", "warm", FALSE) = 8
      BY DEF Place
    <3>3. Becomes("same", "warm", FALSE, gen.seen)
      BY <1>2, <2>1, <2>3, BecomesGoes DEF Labels, RunLabels, AgainLabels, LastLabels
    <3>4. WellPlaced("same", "warm", FALSE) /\ "same" \in Labels
      BY DEF WellPlaced, Labels, RunLabels, AgainLabels, LastLabels
    <3>5. Knows(8, gen.seen, gen.parsed, gen.code, moment, world)
      BY <2>3, <3>1, Fields, PiecesAre DEF Contents, Knows, RecordedBefore, ParsedBetween,
         BelongTogether, MomentBetween, MomentIsSeen
    <3>6. QED
      BY <3>2, <3>3, <3>4, <3>5, Fields, PiecesAre, NextPlace
  <2>4. QED
    BY <2>2, <2>3, Situation
<1>3. QED
  BY <1>1, <1>2 DEF VerifyManifest, Step

(* What was parsed is what was recorded.                                   *)
LEMMA ManifestUnchangedInv ==
    ASSUME EvidenceInv, ManifestUnchanged, UNCHANGED <<world, moment, evidence, changes>>
    PROVE EvidenceInv'
<1>1. CASE gen' = NotGenerating
  BY <1>1, Rejected
<1>2. ASSUME gen' = EachRun("record", "digest"), Unchanged(gen.run)
      PROVE EvidenceInv'
  <2>1. gen.pc = "same" /\ gen.again = FALSE
    BY <1>2, Situation DEF ManifestUnchanged, Step, Labels, RunLabels, AgainLabels, LastLabels
  <2>2. CASE gen.run = "cold"
    <3>1. PlaceOf = 4
      BY <2>1, <2>2 DEF PlaceOf, Place
    <3>2. Place("record", "warm", FALSE) = 5
      BY DEF Place
    <3>3. Becomes("record", "warm", FALSE, gen.seen)
      BY <1>2, <2>1, <2>2, BecomesRun DEF Labels, RunLabels, AgainLabels, LastLabels
    <3>4. WellPlaced("record", "warm", FALSE) /\ "record" \in Labels
      BY DEF WellPlaced, Labels, RunLabels, AgainLabels, LastLabels
    <3>5. gen.parsed["cold"] = gen.seen["cold"]
      BY <1>2, <2>2, <3>1, Fields, PiecesAre, Agreeing DEF Unchanged, Knows, RecordedBefore,
         ParsedBetween, BelongTogether, MomentBetween, MomentIsSeen
    <3>6. gen.seen["cold"].of <= world["artifacts"].of
      BY <1>2, <2>2, <3>1, Fields DEF Unchanged, Knows, BelongTogether
    <3>7. Knows(5, gen.seen, gen.parsed, gen.code, moment, world)
      BY <2>2, <3>1, <3>5, <3>6, Fields, PiecesAre DEF Contents, Knows, RecordedBefore, ParsedBetween,
         BelongTogether, MomentBetween, MomentIsSeen
    <3>8. QED
      BY <3>2, <3>3, <3>4, <3>7, Fields, PiecesAre, NextPlace
  <2>3. CASE gen.run = "warm"
    <3>1. PlaceOf = 8
      BY <2>1, <2>3 DEF PlaceOf, Place
    <3>2. Place("digest", "cold", FALSE) = 9
      BY DEF Place
    <3>3. Becomes("digest", "cold", FALSE, gen.seen)
      BY <1>2, <2>1, <2>3, BecomesRun DEF Labels, RunLabels, AgainLabels, LastLabels
    <3>4. WellPlaced("digest", "cold", FALSE) /\ "digest" \in Labels
      BY DEF WellPlaced, Labels, RunLabels, AgainLabels, LastLabels
    <3>5. gen.parsed["warm"] = gen.seen["warm"]
      BY <1>2, <2>3, <3>1, Fields, PiecesAre, Agreeing DEF Unchanged, Knows, RecordedBefore,
         ParsedBetween, BelongTogether, MomentBetween, MomentIsSeen
    <3>6. Knows(9, gen.seen, gen.parsed, gen.code, moment, world)
      BY <2>3, <3>1, <3>5, Fields, PiecesAre DEF Contents, Knows, RecordedBefore, ParsedBetween,
         BelongTogether, MomentBetween, MomentIsSeen
    <3>7. QED
      BY <3>2, <3>3, <3>4, <3>6, Fields, PiecesAre, NextPlace
  <2>4. QED
    BY <2>2, <2>3, Situation
<1>3. QED
  BY <1>1, <1>2 DEF ManifestUnchanged, Step

LEMMA DigestManifestInv ==
    ASSUME EvidenceInv, DigestManifest, UNCHANGED <<world, moment, evidence, changes>>
    PROVE EvidenceInv'
<1>1. CASE gen' = NotGenerating
  BY <1>1, Rejected
<1>2. ASSUME gen' = EachRun("digest", "lineage"), Unchanged(gen.run)
      PROVE EvidenceInv'
  <2>1. gen.pc = "digest" /\ gen.again = FALSE
    BY <1>2, Situation DEF DigestManifest, Step, Labels, RunLabels, AgainLabels, LastLabels
  <2>2. CASE gen.run = "cold"
    <3>1. PlaceOf = 9
      BY <2>1, <2>2 DEF PlaceOf, Place
    <3>2. Place("digest", "warm", FALSE) = 10
      BY DEF Place
    <3>3. Becomes("digest", "warm", FALSE, gen.seen)
      BY <1>2, <2>1, <2>2, BecomesRun DEF Labels, RunLabels, AgainLabels, LastLabels
    <3>4. WellPlaced("digest", "warm", FALSE) /\ "digest" \in Labels
      BY DEF WellPlaced, Labels, RunLabels, AgainLabels, LastLabels
    <3>5. Knows(10, gen.seen, gen.parsed, gen.code, moment, world)
      BY <2>2, <3>1, Fields, PiecesAre DEF Contents, Knows, RecordedBefore, ParsedBetween,
         BelongTogether, MomentBetween, MomentIsSeen
    <3>6. QED
      BY <3>2, <3>3, <3>4, <3>5, Fields, PiecesAre, NextPlace
  <2>3. CASE gen.run = "warm"
    <3>1. PlaceOf = 10
      BY <2>1, <2>3 DEF PlaceOf, Place
    <3>2. Place("lineage", "cold", FALSE) = 11
      BY DEF Place
    <3>3. Becomes("lineage", "cold", FALSE, gen.seen)
      BY <1>2, <2>1, <2>3, BecomesRun DEF Labels, RunLabels, AgainLabels, LastLabels
    <3>4. WellPlaced("lineage", "cold", FALSE) /\ "lineage" \in Labels
      BY DEF WellPlaced, Labels, RunLabels, AgainLabels, LastLabels
    <3>5. Knows(11, gen.seen, gen.parsed, gen.code, moment, world)
      BY <2>3, <3>1, Fields, PiecesAre DEF Contents, Knows, RecordedBefore, ParsedBetween,
         BelongTogether, MomentBetween, MomentIsSeen
    <3>6. QED
      BY <3>2, <3>3, <3>4, <3>5, Fields, PiecesAre, NextPlace
  <2>4. QED
    BY <2>2, <2>3, Situation
<1>3. QED
  BY <1>1, <1>2 DEF DigestManifest, Step

LEMMA CompareLineageInv ==
    ASSUME EvidenceInv, CompareLineage, UNCHANGED <<world, moment, evidence, changes>>
    PROVE EvidenceInv'
<1>1. CASE gen' = NotGenerating
  BY <1>1, Rejected
<1>2. ASSUME gen' = Goes("tools"), SameRelease
      PROVE EvidenceInv'
  <2>1. gen.pc = "lineage" /\ gen.run = "cold" /\ gen.again = FALSE
    <3>1. gen.pc = "lineage"
      BY DEF CompareLineage, Step
    <3>2. gen.pc \in Labels \ RunLabels /\ gen.pc \in Labels \ (AgainLabels \union LastLabels)
      BY <3>1 DEF Labels, RunLabels, AgainLabels, LastLabels
    <3>3. QED
      BY <3>1, <3>2, Situation
  <2>2. PlaceOf = 11
    BY <2>1 DEF PlaceOf, Place
  <2>3. Place("tools", "cold", FALSE) = 12
    BY DEF Place
  <2>4. Becomes("tools", "cold", FALSE, gen.seen)
    BY <1>2, <2>1, BecomesGoes DEF Labels, RunLabels, AgainLabels, LastLabels
  <2>5. WellPlaced("tools", "cold", FALSE) /\ "tools" \in Labels
    BY DEF WellPlaced, Labels, RunLabels, AgainLabels, LastLabels
  <2>6. gen.seen["warm"].of = gen.seen["cold"].of
    BY <1>2, <2>2, Fields DEF SameRelease, Knows, RecordedBefore, ParsedBetween, BelongTogether,
       MomentBetween, MomentIsSeen
  <2>7. Knows(12, gen.seen, gen.parsed, gen.code, moment, world)
    BY <2>2, <2>6, Fields, PiecesAre DEF Contents, Knows, RecordedBefore, ParsedBetween,
       BelongTogether, MomentBetween, MomentIsSeen
  <2>8. QED
    BY <2>3, <2>4, <2>5, <2>7, Fields, PiecesAre, NextPlace
<1>3. QED
  BY <1>1, <1>2 DEF CompareLineage, Step

LEMMA CheckArtifactsInv ==
    ASSUME EvidenceInv, CheckArtifacts, UNCHANGED <<world, moment, evidence, changes>>
    PROVE EvidenceInv'
<1>1. CASE gen' = NotGenerating
  BY <1>1, Rejected
<1>2. ASSUME gen' = Goes("ledger")
      PROVE EvidenceInv'
  <2>1. gen.pc = "artifacts" /\ gen.run = "cold" /\ gen.again = FALSE
    <3>1. gen.pc = "artifacts"
      BY DEF CheckArtifacts, Step
    <3>2. gen.pc \in Labels \ RunLabels /\ gen.pc \in Labels \ (AgainLabels \union LastLabels)
      BY <3>1 DEF Labels, RunLabels, AgainLabels, LastLabels
    <3>3. QED
      BY <3>1, <3>2, Situation
  <2>2. PlaceOf = 13
    BY <2>1 DEF PlaceOf, Place
  <2>3. Place("ledger", "cold", FALSE) = 14
    BY DEF Place
  <2>4. Becomes("ledger", "cold", FALSE, gen.seen)
    BY <1>2, <2>1, BecomesGoes DEF Labels, RunLabels, AgainLabels, LastLabels
  <2>5. WellPlaced("ledger", "cold", FALSE) /\ "ledger" \in Labels
    BY DEF WellPlaced, Labels, RunLabels, AgainLabels, LastLabels
  <2>6. Knows(14, gen.seen, gen.parsed, gen.code, moment, world)
    BY <2>2, Fields, PiecesAre DEF Contents, Knows, RecordedBefore, ParsedBetween,
       BelongTogether, MomentBetween, MomentIsSeen
  <2>7. QED
    BY <2>3, <2>4, <2>5, <2>6, Fields, PiecesAre, NextPlace
<1>3. QED
  BY <1>1, <1>2 DEF CheckArtifacts, Step

LEMMA WheelUnchangedInv ==
    ASSUME EvidenceInv, WheelUnchanged, UNCHANGED <<world, moment, evidence, changes>>
    PROVE EvidenceInv'
<1>1. CASE gen' = NotGenerating
  BY <1>1, Rejected
<1>2. ASSUME gen' = Goes("sdist"), Unchanged("wheel")
      PROVE EvidenceInv'
  <2>1. gen.pc = "wheel same" /\ gen.run = "cold" /\ gen.again = FALSE
    <3>1. gen.pc = "wheel same"
      BY DEF WheelUnchanged, Step
    <3>2. gen.pc \in Labels \ RunLabels /\ gen.pc \in Labels \ (AgainLabels \union LastLabels)
      BY <3>1 DEF Labels, RunLabels, AgainLabels, LastLabels
    <3>3. QED
      BY <3>1, <3>2, Situation
  <2>2. PlaceOf = 20
    BY <2>1 DEF PlaceOf, Place
  <2>3. Place("sdist", "cold", FALSE) = 21
    BY DEF Place
  <2>4. Becomes("sdist", "cold", FALSE, gen.seen)
    BY <1>2, <2>1, BecomesGoes DEF Labels, RunLabels, AgainLabels, LastLabels
  <2>5. WellPlaced("sdist", "cold", FALSE) /\ "sdist" \in Labels
    BY DEF WellPlaced, Labels, RunLabels, AgainLabels, LastLabels
  <2>6. gen.code = gen.seen["wheel"].of
    BY <1>2, <2>2, Fields DEF Unchanged, Knows, RecordedBefore, ParsedBetween, BelongTogether,
       MomentBetween, MomentIsSeen
  <2>7. Knows(21, gen.seen, gen.parsed, gen.code, moment, world)
    BY <2>2, <2>6, Fields, PiecesAre DEF Contents, Knows, RecordedBefore, ParsedBetween,
       BelongTogether, MomentBetween, MomentIsSeen
  <2>8. QED
    BY <2>3, <2>4, <2>5, <2>7, Fields, PiecesAre, NextPlace
<1>3. QED
  BY <1>1, <1>2 DEF WheelUnchanged, Step

(* The manifest was there at the moment between its two records.           *)
LEMMA FinalRecordInv ==
    ASSUME EvidenceInv, FinalRecord, UNCHANGED <<world, moment, evidence, changes>>
    PROVE EvidenceInv'
<1>1. CASE gen' = NotGenerating
  BY <1>1, Rejected
<1>2. ASSUME gen' = Goes("final verify"), Unchanged(gen.run)
      PROVE EvidenceInv'
  <2>1. gen.pc = "final" /\ gen.again = FALSE
    BY <1>2, Situation DEF FinalRecord, Step, Labels, RunLabels, AgainLabels, LastLabels
  <2>2. CASE gen.run = "cold"
    <3>1. PlaceOf = 22
      BY <2>1, <2>2 DEF PlaceOf, Place
    <3>2. Place("final verify", "cold", FALSE) = 23
      BY DEF Place
    <3>3. Becomes("final verify", "cold", FALSE, gen.seen)
      BY <1>2, <2>1, <2>2, BecomesGoes DEF Labels, RunLabels, AgainLabels, LastLabels
    <3>4. WellPlaced("final verify", "cold", FALSE) /\ "final verify" \in Labels
      BY DEF WellPlaced, Labels, RunLabels, AgainLabels, LastLabels
    <3>5. moment["cold"] = gen.seen["cold"]
      <4>1. Unchanged("cold")
        BY <1>2, <2>2
      <4>2. QED
        BY <3>1, <4>1, PiecesAre, MomentAgrees
    <3>6. MomentIsSeen(PlaceOf, gen.seen, moment)
      BY Fields DEF Knows
    <3>7. MomentIsSeen(23, gen.seen, moment)
      BY <3>1, <3>6, <3>5 DEF MomentIsSeen
    <3>8. Knows(23, gen.seen, gen.parsed, gen.code, moment, world)
      BY <3>1, <3>7, Fields, LaterKnows
    <3>9. QED
      BY <3>2, <3>3, <3>4, <3>8, Fields, PiecesAre, NextPlace
  <2>3. CASE gen.run = "warm"
    <3>1. PlaceOf = 24
      BY <2>1, <2>3 DEF PlaceOf, Place
    <3>2. Place("final verify", "warm", FALSE) = 25
      BY DEF Place
    <3>3. Becomes("final verify", "warm", FALSE, gen.seen)
      BY <1>2, <2>1, <2>3, BecomesGoes DEF Labels, RunLabels, AgainLabels, LastLabels
    <3>4. WellPlaced("final verify", "warm", FALSE) /\ "final verify" \in Labels
      BY DEF WellPlaced, Labels, RunLabels, AgainLabels, LastLabels
    <3>5. moment["warm"] = gen.seen["warm"]
      <4>1. Unchanged("warm")
        BY <1>2, <2>3
      <4>2. QED
        BY <3>1, <4>1, PiecesAre, MomentAgrees
    <3>6. MomentIsSeen(PlaceOf, gen.seen, moment)
      BY Fields DEF Knows
    <3>7. MomentIsSeen(25, gen.seen, moment)
      BY <3>1, <3>6, <3>5 DEF MomentIsSeen
    <3>8. Knows(25, gen.seen, gen.parsed, gen.code, moment, world)
      BY <3>1, <3>7, Fields, LaterKnows
    <3>9. QED
      BY <3>2, <3>3, <3>4, <3>8, Fields, PiecesAre, NextPlace
  <2>4. QED
    BY <2>2, <2>3, Situation
<1>3. QED
  BY <1>1, <1>2 DEF FinalRecord, Step

LEMMA FinalVerificationInv ==
    ASSUME EvidenceInv, FinalVerification, UNCHANGED <<world, moment, evidence, changes>>
    PROVE EvidenceInv'
<1>1. CASE gen' = NotGenerating
  BY <1>1, Rejected
<1>2. ASSUME gen' = EachRun("final", "tools again"), Verifies(gen.run)
      PROVE EvidenceInv'
  <2>1. gen.pc = "final verify" /\ gen.again = FALSE
    BY <1>2, Situation DEF FinalVerification, Step, Labels, RunLabels, AgainLabels, LastLabels
  <2>2. CASE gen.run = "cold"
    <3>1. PlaceOf = 23
      BY <2>1, <2>2 DEF PlaceOf, Place
    <3>2. Place("final", "warm", FALSE) = 24
      BY DEF Place
    <3>3. Becomes("final", "warm", FALSE, gen.seen)
      BY <1>2, <2>1, <2>2, BecomesRun DEF Labels, RunLabels, AgainLabels, LastLabels
    <3>4. WellPlaced("final", "warm", FALSE) /\ "final" \in Labels
      BY DEF WellPlaced, Labels, RunLabels, AgainLabels, LastLabels
    <3>5. MomentIsSeen(PlaceOf, gen.seen, moment)
      BY Fields DEF Knows
    <3>6. MomentIsSeen(24, gen.seen, moment)
      BY <3>1, <3>5 DEF MomentIsSeen
    <3>7. Knows(24, gen.seen, gen.parsed, gen.code, moment, world)
      BY <3>1, <3>6, Fields, LaterKnows
    <3>8. QED
      BY <3>2, <3>3, <3>4, <3>7, Fields, PiecesAre, NextPlace
  <2>3. CASE gen.run = "warm"
    <3>1. PlaceOf = 25
      BY <2>1, <2>3 DEF PlaceOf, Place
    <3>2. Place("tools again", "cold", FALSE) = 26
      BY DEF Place
    <3>3. Becomes("tools again", "cold", FALSE, gen.seen)
      BY <1>2, <2>1, <2>3, BecomesRun DEF Labels, RunLabels, AgainLabels, LastLabels
    <3>4. WellPlaced("tools again", "cold", FALSE) /\ "tools again" \in Labels
      BY DEF WellPlaced, Labels, RunLabels, AgainLabels, LastLabels
    <3>5. MomentIsSeen(PlaceOf, gen.seen, moment)
      BY Fields DEF Knows
    <3>6. MomentIsSeen(26, gen.seen, moment)
      BY <3>1, <3>5 DEF MomentIsSeen
    <3>7. Knows(26, gen.seen, gen.parsed, gen.code, moment, world)
      BY <3>1, <3>6, Fields, LaterKnows
    <3>8. QED
      BY <3>2, <3>3, <3>4, <3>7, Fields, PiecesAre, NextPlace
  <2>4. QED
    BY <2>2, <2>3, Situation
<1>3. QED
  BY <1>1, <1>2 DEF FinalVerification, Step

LEMMA ValidateWheelInv ==
    ASSUME EvidenceInv, ValidateWheel, UNCHANGED <<world, moment, evidence, changes>>
    PROVE EvidenceInv'
<1>1. CASE gen' = NotGenerating
  BY <1>1, Rejected
<1>2. ASSUME gen' = Goes("validate sdist"), Unchanged("wheel")
      PROVE EvidenceInv'
  <2>1. gen.pc = "validate wheel" /\ gen.run = "cold" /\ gen.again = TRUE
    <3>1. gen.pc = "validate wheel"
      BY DEF ValidateWheel, Step
    <3>2. gen.pc \in Labels \ RunLabels /\ gen.pc \in LastLabels
      BY <3>1 DEF Labels, RunLabels, AgainLabels, LastLabels
    <3>3. QED
      BY <3>1, <3>2, Situation
  <2>2. PlaceOf = 31
    BY <2>1 DEF PlaceOf, Place
  <2>3. Place("validate sdist", "cold", TRUE) = 32
    BY DEF Place
  <2>4. Becomes("validate sdist", "cold", TRUE, gen.seen)
    BY <1>2, <2>1, BecomesGoes DEF Labels, RunLabels, AgainLabels, LastLabels
  <2>5. WellPlaced("validate sdist", "cold", TRUE) /\ "validate sdist" \in Labels
    BY DEF WellPlaced, Labels, RunLabels, AgainLabels, LastLabels
  <2>6. moment["wheel"] = gen.seen["wheel"]
    <3>1. Unchanged("wheel")
      BY <1>2
    <3>2. QED
      BY <2>2, <3>1, PiecesAre, MomentAgrees
  <2>7. MomentIsSeen(PlaceOf, gen.seen, moment)
    BY Fields DEF Knows
  <2>8. MomentIsSeen(32, gen.seen, moment)
    BY <2>2, <2>7, <2>6 DEF MomentIsSeen
  <2>9. Knows(32, gen.seen, gen.parsed, gen.code, moment, world)
    BY <2>2, <2>8, Fields, LaterKnows
  <2>10. QED
    BY <2>3, <2>4, <2>5, <2>9, Fields, PiecesAre, NextPlace
<1>3. QED
  BY <1>1, <1>2 DEF ValidateWheel, Step

LEMMA ValidateSdistInv ==
    ASSUME EvidenceInv, ValidateSdist, UNCHANGED <<world, moment, evidence, changes>>
    PROVE EvidenceInv'
<1>1. CASE gen' = NotGenerating
  BY <1>1, Rejected
<1>2. ASSUME gen' = Goes("validate code"), Unchanged("sdist")
      PROVE EvidenceInv'
  <2>1. gen.pc = "validate sdist" /\ gen.run = "cold" /\ gen.again = TRUE
    <3>1. gen.pc = "validate sdist"
      BY DEF ValidateSdist, Step
    <3>2. gen.pc \in Labels \ RunLabels /\ gen.pc \in LastLabels
      BY <3>1 DEF Labels, RunLabels, AgainLabels, LastLabels
    <3>3. QED
      BY <3>1, <3>2, Situation
  <2>2. PlaceOf = 32
    BY <2>1 DEF PlaceOf, Place
  <2>3. Place("validate code", "cold", TRUE) = 33
    BY DEF Place
  <2>4. Becomes("validate code", "cold", TRUE, gen.seen)
    BY <1>2, <2>1, BecomesGoes DEF Labels, RunLabels, AgainLabels, LastLabels
  <2>5. WellPlaced("validate code", "cold", TRUE) /\ "validate code" \in Labels
    BY DEF WellPlaced, Labels, RunLabels, AgainLabels, LastLabels
  <2>6. MomentIsSeen(PlaceOf, gen.seen, moment)
    BY Fields DEF Knows
  <2>7. MomentIsSeen(33, gen.seen, moment)
    BY <2>2, <2>6 DEF MomentIsSeen
  <2>8. Knows(33, gen.seen, gen.parsed, gen.code, moment, world)
    BY <2>2, <2>7, Fields, LaterKnows
  <2>9. QED
    BY <2>3, <2>4, <2>5, <2>8, Fields, PiecesAre, NextPlace
<1>3. QED
  BY <1>1, <1>2 DEF ValidateSdist, Step

LEMMA ValidateCodeInv ==
    ASSUME EvidenceInv, ValidateCode, UNCHANGED <<world, moment, evidence, changes>>
    PROVE EvidenceInv'
<1>1. CASE gen' = NotGenerating
  BY <1>1, Rejected
<1>2. ASSUME gen' = Goes("write"), TRUE
      PROVE EvidenceInv'
  <2>1. gen.pc = "validate code" /\ gen.run = "cold" /\ gen.again = TRUE
    <3>1. gen.pc = "validate code"
      BY DEF ValidateCode, Step
    <3>2. gen.pc \in Labels \ RunLabels /\ gen.pc \in LastLabels
      BY <3>1 DEF Labels, RunLabels, AgainLabels, LastLabels
    <3>3. QED
      BY <3>1, <3>2, Situation
  <2>2. PlaceOf = 33
    BY <2>1 DEF PlaceOf, Place
  <2>3. Place("write", "cold", TRUE) = 34
    BY DEF Place
  <2>4. Becomes("write", "cold", TRUE, gen.seen)
    BY <1>2, <2>1, BecomesGoes DEF Labels, RunLabels, AgainLabels, LastLabels
  <2>5. WellPlaced("write", "cold", TRUE) /\ "write" \in Labels
    BY DEF WellPlaced, Labels, RunLabels, AgainLabels, LastLabels
  <2>6. MomentIsSeen(PlaceOf, gen.seen, moment)
    BY Fields DEF Knows
  <2>7. MomentIsSeen(34, gen.seen, moment)
    BY <2>2, <2>6 DEF MomentIsSeen
  <2>8. Knows(34, gen.seen, gen.parsed, gen.code, moment, world)
    BY <2>2, <2>7, Fields, LaterKnows
  <2>9. QED
    BY <2>3, <2>4, <2>5, <2>8, Fields, PiecesAre, NextPlace
<1>3. QED
  BY <1>1, <1>2 DEF ValidateCode, Step

-----------------------------------------------------------------------------
(* The steps that record a piece, and the two looks at the ledger.         *)
LEMMA ObserveToolchainInv ==
    ASSUME EvidenceInv, ObserveToolchain, UNCHANGED <<world, moment, evidence, changes>>
    PROVE EvidenceInv'
<1>1. CASE gen' = NotGenerating
  BY <1>1, Rejected
<1>2. ASSUME gen' = Sees("tools", "artifacts"), ToolchainFits
      PROVE EvidenceInv'
  <2>1. gen.pc = "tools" /\ gen.run = "cold" /\ gen.again = FALSE
    <3>1. gen.pc = "tools"
      BY DEF ObserveToolchain, Step
    <3>2. gen.pc \in Labels \ RunLabels /\ gen.pc \in Labels \ (AgainLabels \union LastLabels)
      BY <3>1 DEF Labels, RunLabels, AgainLabels, LastLabels
    <3>3. QED
      BY <3>1, <3>2, Situation
  <2>2. PlaceOf = 12
    BY <2>1 DEF PlaceOf, Place
  <2>3. Place("artifacts", "cold", FALSE) = 13
    BY DEF Place
  <2>4. WellPlaced("artifacts", "cold", FALSE) /\ "artifacts" \in Labels
    BY DEF WellPlaced, Labels, RunLabels, AgainLabels, LastLabels
  <2> DEFINE s == [gen.seen EXCEPT !["tools"] = world["tools"]]
  <2>5. Becomes("artifacts", "cold", FALSE, s)
    BY <1>2, <2>1, <2>4, PiecesAre, BecomesSees
  <2>6. world["tools"].of = gen.seen["cold"].of
    BY <1>2, <2>2, Fields DEF ToolchainFits, Knows, RecordedBefore, ParsedBetween, BelongTogether,
       MomentBetween, MomentIsSeen
  <2>7. Knows(13, s, gen.parsed, gen.code, moment, world)
    BY <2>2, <2>6, Fields, PiecesAre DEF Older, Knows, RecordedBefore, ParsedBetween,
       BelongTogether, MomentBetween, MomentIsSeen
  <2>8. s \in [Pieces -> Contents]
    BY Fields
  <2> HIDE DEF s
  <2>9. QED
    BY <2>3, <2>4, <2>5, <2>7, <2>8, Fields, PiecesAre, NextPlace
<1>3. QED
  BY <1>1, <1>2 DEF ObserveToolchain, Step

LEMMA RecordWheelInv ==
    ASSUME EvidenceInv, RecordWheel, UNCHANGED <<world, moment, evidence, changes>>
    PROVE EvidenceInv'
<1>1. CASE gen' = NotGenerating
  BY <1>1, Rejected
<1>2. ASSUME gen' = Sees("wheel", "wheel code"), TRUE
      PROVE EvidenceInv'
  <2>1. gen.pc = "wheel" /\ gen.run = "cold" /\ gen.again = FALSE
    <3>1. gen.pc = "wheel"
      BY DEF RecordWheel, Step
    <3>2. gen.pc \in Labels \ RunLabels /\ gen.pc \in Labels \ (AgainLabels \union LastLabels)
      BY <3>1 DEF Labels, RunLabels, AgainLabels, LastLabels
    <3>3. QED
      BY <3>1, <3>2, Situation
  <2>2. PlaceOf = 18
    BY <2>1 DEF PlaceOf, Place
  <2>3. Place("wheel code", "cold", FALSE) = 19
    BY DEF Place
  <2>4. WellPlaced("wheel code", "cold", FALSE) /\ "wheel code" \in Labels
    BY DEF WellPlaced, Labels, RunLabels, AgainLabels, LastLabels
  <2> DEFINE s == [gen.seen EXCEPT !["wheel"] = world["wheel"]]
  <2>5. Becomes("wheel code", "cold", FALSE, s)
    BY <1>2, <2>1, <2>4, PiecesAre, BecomesSees
  <2>6. Knows(19, s, gen.parsed, gen.code, moment, world)
    BY <2>2, Fields, PiecesAre DEF Older, Knows, RecordedBefore, ParsedBetween, BelongTogether,
       MomentBetween, MomentIsSeen
  <2>7. s \in [Pieces -> Contents]
    BY Fields
  <2> HIDE DEF s
  <2>8. QED
    BY <2>3, <2>4, <2>5, <2>6, <2>7, Fields, PiecesAre, NextPlace
<1>3. QED
  BY <1>1, <1>2 DEF RecordWheel, Step

LEMMA VerifyLedgerInv ==
    ASSUME EvidenceInv, VerifyLedger, UNCHANGED <<world, moment, evidence, changes>>
    PROVE EvidenceInv'
<1>1. CASE gen' = NotGenerating
  BY <1>1, Rejected
<1>2. ASSUME gen' # NotGenerating PROVE EvidenceInv'
  <2>1. gen.pc = "ledger" /\ gen.run = "cold" /\ gen.again \in BOOLEAN
    <3>1. gen.pc = "ledger"
      BY <1>2 DEF VerifyLedger, Step
    <3>2. gen.pc \in Labels \ RunLabels
      BY <3>1 DEF Labels, RunLabels, AgainLabels, LastLabels
    <3>3. QED
      BY <3>1, <3>2, Situation
  <2>2. CASE gen.again = FALSE
    <3>1. PlaceOf = 14
      BY <2>1, <2>2 DEF PlaceOf, Place
    <3>2. Place("bind", "cold", FALSE) = 15
      BY DEF Place
    <3>3. WellPlaced("bind", "cold", FALSE) /\ "bind" \in Labels
      BY DEF WellPlaced, Labels, RunLabels, AgainLabels, LastLabels
    <3>4. gen' = Sees("channel", "bind")
      BY <1>2, <2>2 DEF VerifyLedger, Step
    <3> DEFINE s == [gen.seen EXCEPT !["channel"] = world["channel"]]
    <3>5. Becomes("bind", "cold", FALSE, s)
      BY <2>1, <2>2, <3>3, <3>4, PiecesAre, BecomesSees
    <3>6. world["channel"].of = gen.seen["warm"].at
      BY <1>2 DEF VerifyLedger, Step
    <3>7. Knows(15, s, gen.parsed, gen.code, moment, world)
      BY <3>1, <3>6, Fields, PiecesAre DEF Older, Knows, RecordedBefore, ParsedBetween,
         BelongTogether, MomentBetween, MomentIsSeen
    <3>8. s \in [Pieces -> Contents]
      BY Fields
    <3> HIDE DEF s
    <3>9. QED
      BY <3>2, <3>3, <3>5, <3>7, <3>8, Fields, PiecesAre, NextPlace
  <2>3. CASE gen.again = TRUE
    <3>1. PlaceOf = 27
      BY <2>1, <2>3 DEF PlaceOf, Place
    <3>2. Place("bind", "cold", TRUE) = 28
      BY DEF Place
    <3>3. WellPlaced("bind", "cold", TRUE) /\ "bind" \in Labels
      BY DEF WellPlaced, Labels, RunLabels, AgainLabels, LastLabels
    <3>4. gen' = Goes("bind")
      BY <1>2, <2>3 DEF VerifyLedger, Step
    <3>5. Becomes("bind", "cold", TRUE, gen.seen)
      BY <2>1, <2>3, <3>3, <3>4, PiecesAre, BecomesGoes
    <3>6. moment["channel"] = gen.seen["channel"]
      <4>1. Unchanged("channel")
        BY <1>2, <2>3 DEF VerifyLedger, Step
      <4>2. QED
        BY <3>1, <4>1, PiecesAre, MomentAgrees
    <3>7. MomentIsSeen(28, gen.seen, moment)
      <4>1. MomentIsSeen(PlaceOf, gen.seen, moment)
        BY Fields DEF Knows
      <4>2. QED
        BY <3>1, <3>6, <4>1 DEF MomentIsSeen
    <3>8. Knows(28, gen.seen, gen.parsed, gen.code, moment, world)
      BY <3>1, <3>7, Fields, LaterKnows
    <3>9. QED
      BY <3>2, <3>3, <3>5, <3>8, Fields, PiecesAre, NextPlace
  <2>4. QED
    BY <2>1, <2>2, <2>3
<1>3. QED
  BY <1>1, <1>2

LEMMA BindManifestInv ==
    ASSUME EvidenceInv, BindManifest, UNCHANGED <<world, moment, evidence, changes>>
    PROVE EvidenceInv'
<1>1. CASE gen' = NotGenerating
  BY <1>1, Rejected
<1>2. ASSUME gen' # NotGenerating PROVE EvidenceInv'
  <2>1. gen.pc = "bind" /\ gen.run = "cold" /\ gen.again \in BOOLEAN
    <3>1. gen.pc = "bind"
      BY <1>2 DEF BindManifest, Step
    <3>2. gen.pc \in Labels \ RunLabels
      BY <3>1 DEF Labels, RunLabels, AgainLabels, LastLabels
    <3>3. QED
      BY <3>1, <3>2, Situation
  <2>2. CASE gen.again = FALSE
    <3>1. PlaceOf = 15
      BY <2>1, <2>2 DEF PlaceOf, Place
    <3>2. Place("check", "cold", FALSE) = 16
      BY DEF Place
    <3>3. WellPlaced("check", "cold", FALSE) /\ "check" \in Labels
      BY DEF WellPlaced, Labels, RunLabels, AgainLabels, LastLabels
    <3>4. gen' = Goes("check")
      BY <1>2, <2>2 DEF BindManifest, Step
    <3>5. Becomes("check", "cold", FALSE, gen.seen)
      BY <2>1, <2>2, <3>3, <3>4, PiecesAre, BecomesGoes
    <3>6. Knows(16, gen.seen, gen.parsed, gen.code, moment, world)
      BY <3>1, Fields, PiecesAre DEF Contents, Knows, RecordedBefore, ParsedBetween,
         BelongTogether, MomentBetween, MomentIsSeen
    <3>7. QED
      BY <3>2, <3>3, <3>5, <3>6, Fields, PiecesAre, NextPlace
  <2>3. CASE gen.again = TRUE
    <3>1. PlaceOf = 28
      BY <2>1, <2>3 DEF PlaceOf, Place
    <3>2. Place("check", "cold", TRUE) = 29
      BY DEF Place
    <3>3. WellPlaced("check", "cold", TRUE) /\ "check" \in Labels
      BY DEF WellPlaced, Labels, RunLabels, AgainLabels, LastLabels
    <3>4. gen' = Goes("check")
      BY <1>2, <2>3 DEF BindManifest, Step
    <3>5. Becomes("check", "cold", TRUE, gen.seen)
      BY <2>1, <2>3, <3>3, <3>4, PiecesAre, BecomesGoes
    <3>6. MomentIsSeen(29, gen.seen, moment)
      <4>1. MomentIsSeen(PlaceOf, gen.seen, moment)
        BY Fields DEF Knows
      <4>2. QED
        BY <3>1, <4>1 DEF MomentIsSeen
    <3>7. Knows(29, gen.seen, gen.parsed, gen.code, moment, world)
      BY <3>1, <3>6, Fields, LaterKnows
    <3>8. QED
      BY <3>2, <3>3, <3>5, <3>7, Fields, PiecesAre, NextPlace
  <2>4. QED
    BY <2>1, <2>2, <2>3
<1>3. QED
  BY <1>1, <1>2

(* The channel accepts the warm manifest as it is, and the channel is as it*)
(* was recorded: so is the warm manifest.  Its artifacts have been verified*)
(* by now, so at the moment they were not yet newer.                       *)
LEMMA CheckBaselineInv ==
    ASSUME EvidenceInv, CheckBaseline, UNCHANGED <<world, moment, evidence, changes>>
    PROVE EvidenceInv'
<1>1. CASE gen' = NotGenerating
  BY <1>1, Rejected
<1>2. ASSUME gen' # NotGenerating PROVE EvidenceInv'
  <2>1. gen.pc = "check" /\ gen.run = "cold" /\ gen.again \in BOOLEAN
    <3>1. gen.pc = "check"
      BY <1>2 DEF CheckBaseline, Step
    <3>2. gen.pc \in Labels \ RunLabels
      BY <3>1 DEF Labels, RunLabels, AgainLabels, LastLabels
    <3>3. QED
      BY <3>1, <3>2, Situation
  <2>2. CASE gen.again = FALSE
    <3>1. PlaceOf = 16
      BY <2>1, <2>2 DEF PlaceOf, Place
    <3>2. Place("ledger again", "cold", FALSE) = 17
      BY DEF Place
    <3>3. WellPlaced("ledger again", "cold", FALSE) /\ "ledger again" \in Labels
      BY DEF WellPlaced, Labels, RunLabels, AgainLabels, LastLabels
    <3>4. gen' = Goes("ledger again")
      BY <1>2, <2>2 DEF CheckBaseline, Step
    <3>5. Becomes("ledger again", "cold", FALSE, gen.seen)
      BY <2>1, <2>2, <3>3, <3>4, PiecesAre, BecomesGoes
    <3>6. Knows(17, gen.seen, gen.parsed, gen.code, moment, world)
      BY <3>1, Fields, PiecesAre DEF Contents, Knows, RecordedBefore, ParsedBetween,
         BelongTogether, MomentBetween, MomentIsSeen
    <3>7. QED
      BY <3>2, <3>3, <3>5, <3>6, Fields, PiecesAre, NextPlace
  <2>3. CASE gen.again = TRUE
    <3>1. PlaceOf = 29
      BY <2>1, <2>3 DEF PlaceOf, Place
    <3>2. Place("ledger again", "cold", TRUE) = 30
      BY DEF Place
    <3>3. WellPlaced("ledger again", "cold", TRUE) /\ "ledger again" \in Labels
      BY DEF WellPlaced, Labels, RunLabels, AgainLabels, LastLabels
    <3>4. gen' = Goes("ledger again")
      BY <1>2, <2>3 DEF CheckBaseline, Step
    <3>5. Becomes("ledger again", "cold", TRUE, gen.seen)
      BY <2>1, <2>3, <3>3, <3>4, PiecesAre, BecomesGoes
    <3>6. moment["artifacts"].of <= gen.seen["cold"].of
      <4>1. /\ world["channel"] = gen.seen["channel"] /\ world["channel"].of = world["warm"].at
            /\ world["artifacts"].of = world["warm"].of
        BY <1>2 DEF CheckBaseline, Step, Unchanged, Verifies
      <4>2. gen.seen["channel"].of = gen.seen["warm"].at /\ Older(gen.seen["warm"], world["warm"])
        BY <3>1, Fields DEF Knows, BelongTogether, RecordedBefore
      <4>3. world["warm"] = gen.seen["warm"]
        BY <4>1, <4>2, Fields, PiecesAre DEF Older, Contents
      <4>4. /\ moment["artifacts"].of <= world["artifacts"].of
            /\ gen.seen["warm"].of = gen.seen["cold"].of
        BY <3>1, Fields DEF Knows, MomentBetween, BelongTogether
      <4>5. QED
        BY <4>1, <4>3, <4>4
    <3>7. MomentIsSeen(30, gen.seen, moment)
      <4>1. MomentIsSeen(PlaceOf, gen.seen, moment)
        BY Fields DEF Knows
      <4>2. QED
        BY <3>1, <3>6, <4>1 DEF MomentIsSeen
    <3>8. Knows(30, gen.seen, gen.parsed, gen.code, moment, world)
      BY <3>1, <3>7, Fields, LaterKnows
    <3>9. QED
      BY <3>2, <3>3, <3>5, <3>8, Fields, PiecesAre, NextPlace
  <2>4. QED
    BY <2>1, <2>2, <2>3
<1>3. QED
  BY <1>1, <1>2

LEMMA VerifyLedgerAgainInv ==
    ASSUME EvidenceInv, VerifyLedgerAgain, UNCHANGED <<world, moment, evidence, changes>>
    PROVE EvidenceInv'
<1>1. CASE gen' = NotGenerating
  BY <1>1, Rejected
<1>2. ASSUME gen' # NotGenerating PROVE EvidenceInv'
  <2>1. gen.pc = "ledger again" /\ gen.run = "cold" /\ gen.again \in BOOLEAN
    <3>1. gen.pc = "ledger again"
      BY <1>2 DEF VerifyLedgerAgain, Step
    <3>2. gen.pc \in Labels \ RunLabels
      BY <3>1 DEF Labels, RunLabels, AgainLabels, LastLabels
    <3>3. QED
      BY <3>1, <3>2, Situation
  <2>2. CASE gen.again = FALSE
    <3>1. PlaceOf = 17
      BY <2>1, <2>2 DEF PlaceOf, Place
    <3>2. Place("wheel", "cold", FALSE) = 18
      BY DEF Place
    <3>3. WellPlaced("wheel", "cold", FALSE) /\ "wheel" \in Labels
      BY DEF WellPlaced, Labels, RunLabels, AgainLabels, LastLabels
    <3>4. gen' = Goes("wheel")
      BY <1>2, <2>2 DEF VerifyLedgerAgain, Step
    <3>5. Becomes("wheel", "cold", FALSE, gen.seen)
      BY <2>1, <2>2, <3>3, <3>4, PiecesAre, BecomesGoes
    <3>6. Knows(18, gen.seen, gen.parsed, gen.code, moment, world)
      BY <3>1, Fields, PiecesAre DEF Contents, Knows, RecordedBefore, ParsedBetween,
         BelongTogether, MomentBetween, MomentIsSeen
    <3>7. QED
      BY <3>2, <3>3, <3>5, <3>6, Fields, PiecesAre, NextPlace
  <2>3. CASE gen.again = TRUE
    <3>1. PlaceOf = 30
      BY <2>1, <2>3 DEF PlaceOf, Place
    <3>2. Place("validate wheel", "cold", TRUE) = 31
      BY DEF Place
    <3>3. WellPlaced("validate wheel", "cold", TRUE) /\ "validate wheel" \in Labels
      BY DEF WellPlaced, Labels, RunLabels, AgainLabels, LastLabels
    <3>4. gen' = Goes("validate wheel")
      BY <1>2, <2>3 DEF VerifyLedgerAgain, Step
    <3>5. Becomes("validate wheel", "cold", TRUE, gen.seen)
      BY <2>1, <2>3, <3>3, <3>4, PiecesAre, BecomesGoes
    <3>6. MomentIsSeen(31, gen.seen, moment)
      <4>1. MomentIsSeen(PlaceOf, gen.seen, moment)
        BY Fields DEF Knows
      <4>2. QED
        BY <3>1, <4>1 DEF MomentIsSeen
    <3>7. Knows(31, gen.seen, gen.parsed, gen.code, moment, world)
      BY <3>1, <3>6, Fields, LaterKnows
    <3>8. QED
      BY <3>2, <3>3, <3>5, <3>7, Fields, PiecesAre, NextPlace
  <2>4. QED
    BY <2>1, <2>2, <2>3
<1>3. QED
  BY <1>1, <1>2

-----------------------------------------------------------------------------
(* The steps that change another field.                                    *)
LEMMA LoadManifestInv ==
    ASSUME EvidenceInv, LoadManifest, UNCHANGED <<world, moment, evidence, changes>>
    PROVE EvidenceInv'
<1> DEFINE q == [gen.parsed EXCEPT ![gen.run] = world[gen.run]]
<1>1. gen.pc = "load" /\ gen.again = FALSE
  BY Situation DEF LoadManifest, Step, Labels, RunLabels, AgainLabels, LastLabels
<1>2. q \in [Runs -> Contents]
  BY Fields, Situation, PiecesAre
<1>3. gen' = [gen EXCEPT !.parsed = q, !.pc = "verify"]
  BY DEF EvidenceInv, GenSet, LoadManifest, Step
<1>4. WellPlaced("verify", gen.run, FALSE) /\ "verify" \in Labels
  BY DEF WellPlaced, Labels, RunLabels, AgainLabels, LastLabels
<1>5. ASSUME NEW k \in Nat, Place("verify", gen.run, FALSE) = k,
             Knows(k, gen.seen, q, gen.code, moment, world)
      PROVE EvidenceInv'
  <2> HIDE DEF q
  <2>1. gen' \in GenSet
    BY <1>2, <1>3, <1>4 DEF EvidenceInv, GenSet
  <2>2. /\ gen'.pc = "verify" /\ gen'.run = gen.run /\ gen'.again = FALSE
        /\ gen'.seen = gen.seen /\ gen'.parsed = q /\ gen'.code = gen.code
    BY <1>1, <1>3 DEF EvidenceInv, GenSet
  <2>3. WellPlaced(gen'.pc, gen'.run, gen'.again)
    BY <1>4, <2>2
  <2>4. Knows(Place(gen'.pc, gen'.run, gen'.again), gen'.seen, gen'.parsed, gen'.code, moment',
  world)
    BY <1>5, <2>2
  <2>5. QED
    BY <2>1, <2>3, <2>4, Fields, Advances
<1>6. CASE gen.run = "cold"
  <2>1. PlaceOf = 2
    BY <1>1, <1>6 DEF PlaceOf, Place
  <2>2. Place("verify", gen.run, FALSE) = 3
    BY <1>6 DEF Place
  <2>3. Knows(3, gen.seen, q, gen.code, moment, world)
    BY <1>6, <2>1, Fields, PiecesAre DEF Older, Knows, RecordedBefore, ParsedBetween,
       BelongTogether, MomentBetween, MomentIsSeen
  <2>4. QED
    BY <1>5, <2>2, <2>3
<1>7. CASE gen.run = "warm"
  <2>1. PlaceOf = 6
    BY <1>1, <1>7 DEF PlaceOf, Place
  <2>2. Place("verify", gen.run, FALSE) = 7
    BY <1>7 DEF Place
  <2>3. Knows(7, gen.seen, q, gen.code, moment, world)
    BY <1>7, <2>1, Fields, PiecesAre DEF Older, Knows, RecordedBefore, ParsedBetween,
       BelongTogether, MomentBetween, MomentIsSeen
  <2>4. QED
    BY <1>5, <2>2, <2>3
<1>8. QED
  BY <1>6, <1>7, Situation

LEMMA ReadWheelCodeInv ==
    ASSUME EvidenceInv, ReadWheelCode, UNCHANGED <<world, moment, evidence, changes>>
    PROVE EvidenceInv'
<1> DEFINE c == world["wheel"].of
<1>1. gen.pc = "wheel code" /\ gen.run = "cold" /\ gen.again = FALSE
  <2>1. gen.pc = "wheel code"
    BY DEF ReadWheelCode, Step
  <2>2. gen.pc \in Labels \ RunLabels /\ gen.pc \in Labels \ (AgainLabels \union LastLabels)
    BY <2>1 DEF Labels, RunLabels, AgainLabels, LastLabels
  <2>3. QED
    BY <2>1, <2>2, Situation
<1>2. c \in Nat
  BY Fields, PiecesAre DEF Contents
<1>3. gen' = [gen EXCEPT !.code = c, !.pc = "wheel same"]
  BY DEF ReadWheelCode, Step
<1>4. PlaceOf = 19
  BY <1>1 DEF PlaceOf, Place
<1>5. Place("wheel same", "cold", FALSE) = 20
  BY DEF Place
<1>6. WellPlaced("wheel same", "cold", FALSE) /\ "wheel same" \in Labels
  BY DEF WellPlaced, Labels, RunLabels, AgainLabels, LastLabels
<1>7. Knows(20, gen.seen, gen.parsed, c, moment, world)
  BY <1>4, Fields, PiecesAre DEF Knows, RecordedBefore, ParsedBetween, BelongTogether,
     MomentBetween, MomentIsSeen
<1> HIDE DEF c
<1>8. gen' \in GenSet
  BY <1>2, <1>3, <1>6 DEF EvidenceInv, GenSet
<1>9. /\ gen'.pc = "wheel same" /\ gen'.run = "cold" /\ gen'.again = FALSE
      /\ gen'.seen = gen.seen /\ gen'.parsed = gen.parsed /\ gen'.code = c
  BY <1>1, <1>3 DEF EvidenceInv, GenSet
<1>10. WellPlaced(gen'.pc, gen'.run, gen'.again)
  BY <1>6, <1>9
<1>11. Knows(Place(gen'.pc, gen'.run, gen'.again), gen'.seen, gen'.parsed, gen'.code, moment',
world)
  BY <1>5, <1>7, <1>9
<1>12. QED
  BY <1>8, <1>10, <1>11, Fields, Advances

(* The moment: what has been recorded is older, and the sdist is recorded. *)
LEMMA RecordSdistInv ==
    ASSUME EvidenceInv, RecordSdist, UNCHANGED <<world, evidence, changes>>
    PROVE EvidenceInv'
<1> DEFINE s == [gen.seen EXCEPT !["sdist"] = world["sdist"]]
<1>1. CASE gen' = NotGenerating
  BY <1>1, IdleKnowsNothing DEF EvidenceInv, RecordSdist
<1>2. ASSUME gen' = Sees("sdist", "final"), gen.code = gen.parsed["cold"].of
      PROVE EvidenceInv'
  <2>1. gen.pc = "sdist" /\ gen.run = "cold" /\ gen.again = FALSE
    <3>1. gen.pc = "sdist"
      BY DEF RecordSdist, Step
    <3>2. gen.pc \in Labels \ RunLabels /\ gen.pc \in Labels \ (AgainLabels \union LastLabels)
      BY <3>1 DEF Labels, RunLabels, AgainLabels, LastLabels
    <3>3. QED
      BY <3>1, <3>2, Situation
  <2>2. PlaceOf = 21 /\ moment' = world
    BY <2>1 DEF PlaceOf, Place, RecordSdist
  <2>3. Place("final", "cold", FALSE) = 22
    BY DEF Place
  <2>4. WellPlaced("final", "cold", FALSE) /\ "final" \in Labels
    BY DEF WellPlaced, Labels, RunLabels, AgainLabels, LastLabels
  <2>5. Becomes("final", "cold", FALSE, s)
    BY <1>2, <2>1, <2>4, PiecesAre, BecomesSees
  <2>6. Knows(22, s, gen.parsed, gen.code, world, world)
    <3>1. RecordedBefore(22, s, world)
      BY <2>2, Fields, PiecesAre DEF Older, Knows, RecordedBefore
    <3>2. ParsedBetween(22, s, gen.parsed, world)
      BY <2>2, Fields, PiecesAre DEF Knows, ParsedBetween
    <3>3. BelongTogether(22, s, gen.code, world)
      BY <1>2, <2>2, Fields, PiecesAre DEF Knows, BelongTogether, ParsedBetween
    <3>4. MomentBetween(22, s, world, world)
      <4>1. \A p \in Pieces \ {"artifacts"} : Older(s[p], world[p])
        BY <2>2, <3>1, Fields DEF RecordedBefore, Pieces, Runs, Older
      <4>2. s["sdist"] = world["sdist"] /\ s["cold"].of <= world["artifacts"].of
        BY <3>3, Fields, PiecesAre DEF BelongTogether
      <4>3. world["artifacts"].of \in Nat
        BY Fields, PiecesAre DEF Contents
      <4>4. QED
        BY <4>1, <4>2, <4>3 DEF MomentBetween, Older
    <3>5. MomentIsSeen(22, s, world)
      BY DEF MomentIsSeen
    <3>6. QED
      BY <3>1, <3>2, <3>3, <3>4, <3>5 DEF Knows
  <2>7. s \in [Pieces -> Contents]
    BY Fields
  <2> HIDE DEF s
  <2>8. QED
    BY <2>2, <2>3, <2>4, <2>5, <2>6, <2>7, Fields, PiecesAre, NextPlace
<1>3. QED
  BY <1>1, <1>2 DEF RecordSdist, Step

LEMMA ObserveAgainInv ==
    ASSUME EvidenceInv, ObserveAgain, UNCHANGED <<world, moment, evidence, changes>>
    PROVE EvidenceInv'
<1>1. CASE gen' = NotGenerating
  BY <1>1, Rejected
<1>2. ASSUME gen' = [gen EXCEPT !.again = TRUE, !.pc = "ledger"], Unchanged("tools")
      PROVE EvidenceInv'
  <2>1. gen.pc = "tools again" /\ gen.run = "cold" /\ gen.again = FALSE
    <3>1. gen.pc = "tools again"
      BY DEF ObserveAgain, Step
    <3>2. gen.pc \in Labels \ RunLabels /\ gen.pc \in Labels \ (AgainLabels \union LastLabels)
      BY <3>1 DEF Labels, RunLabels, AgainLabels, LastLabels
    <3>3. QED
      BY <3>1, <3>2, Situation
  <2>2. PlaceOf = 26
    BY <2>1 DEF PlaceOf, Place
  <2>3. Place("ledger", "cold", TRUE) = 27
    BY DEF Place
  <2>4. WellPlaced("ledger", "cold", TRUE) /\ "ledger" \in Labels
    BY DEF WellPlaced, Labels, RunLabels, AgainLabels, LastLabels
  <2>5. Becomes("ledger", "cold", TRUE, gen.seen)
    BY <1>2, <2>1, <2>4 DEF Becomes, EvidenceInv, GenSet
  <2>6. moment["tools"] = gen.seen["tools"]
    BY <1>2, <2>2, PiecesAre, MomentAgrees
  <2>7. MomentIsSeen(27, gen.seen, moment)
    <3>1. MomentIsSeen(PlaceOf, gen.seen, moment)
      BY Fields DEF Knows
    <3>2. QED
      BY <2>2, <2>6, <3>1 DEF MomentIsSeen
  <2>8. Knows(27, gen.seen, gen.parsed, gen.code, moment, world)
    BY <2>2, <2>7, Fields, LaterKnows
  <2>9. QED
    BY <2>3, <2>4, <2>5, <2>8, Fields, PiecesAre, NextPlace
<1>3. QED
  BY <1>1, <1>2 DEF ObserveAgain, Step

(* The file is written or not, and the generator is done.                  *)
LEMMA WriteEvidenceInv == EvidenceInv /\ WriteEvidence => EvidenceInv'
<1> SUFFICES ASSUME EvidenceInv, WriteEvidence PROVE EvidenceInv'
  OBVIOUS
<1>1. evidence' \in [Pieces -> Contents]
  BY Fields DEF WriteEvidence, Payload, EvidenceInv
<1>2. QED
  BY <1>1, IdleKnowsNothing DEF WriteEvidence, EvidenceInv

LEMMA StartGeneratorInv == EvidenceInv /\ StartGenerator => EvidenceInv'
<1> SUFFICES ASSUME EvidenceInv, StartGenerator PROVE EvidenceInv'
  OBVIOUS
<1> DEFINE none == [run \in Runs |-> Absent]
           rec == [pc |-> "record", run |-> "cold", seen |-> AllAbsent, parsed |-> none, code |-> 0,
                   again |-> FALSE]
<1>1. gen' = rec
  BY DEF StartGenerator, NotGenerating
<1>2. none \in [Runs -> Contents] /\ AllAbsent \in [Pieces -> Contents]
  BY AbsentIsContents
<1> HIDE DEF none
<1>3. rec \in GenSet
  BY <1>2, PiecesAre DEF GenSet, Labels, RunLabels
<1>4. WellPlaced("record", "cold", FALSE)
  BY DEF WellPlaced, RunLabels, AgainLabels, LastLabels
<1>5. Place("record", "cold", FALSE) = 1
  BY DEF Place
<1>6. Knows(1, AllAbsent, none, 0, moment, world)
  BY DEF Knows, RecordedBefore, ParsedBetween, BelongTogether, MomentBetween, MomentIsSeen
<1>7. /\ rec.pc = "record" /\ rec.run = "cold" /\ rec.again = FALSE
      /\ rec.seen = AllAbsent /\ rec.parsed = none /\ rec.code = 0
  OBVIOUS
<1> HIDE DEF rec
<1>8. WellPlaced(rec.pc, rec.run, rec.again)
  BY <1>4, <1>7
<1>9. Knows(Place(rec.pc, rec.run, rec.again), rec.seen, rec.parsed, rec.code, moment, world)
  BY <1>5, <1>6, <1>7
<1>10. UNCHANGED <<world, moment, evidence, changes>>
  BY DEF StartGenerator
<1>11. QED
  BY <1>1, <1>3, <1>8, <1>9, <1>10, Fields, Advances

(* What is replaced gets younger, and artifacts get a newer release.       *)
LEMMA ReplacePieceInv ==
    ASSUME EvidenceInv, NEW piece \in Pieces, ReplacePiece(piece)
    PROVE EvidenceInv'
<1>1. PICK of \in Releases :
         /\ piece = "artifacts" => of > world[piece].of
         /\ world' = [world EXCEPT ![piece] = [at |-> @.at + 1, of |-> of]]
  BY DEF ReplacePiece
<1> DEFINE new == [at |-> world[piece].at + 1, of |-> of]
<1>2. new \in Contents /\ Older(world[piece], new)
  BY Fields, EvidenceAssumption DEF Contents, Older
<1>3. world' = [world EXCEPT ![piece] = new]
  BY <1>1
<1>4. piece = "artifacts" => world[piece].of <= new.of
  BY <1>1, Fields, EvidenceAssumption DEF Contents
<1> HIDE DEF new
<1>5. world' \in [Pieces -> Contents] /\ \A p \in Pieces : Older(world[p], world'[p])
  BY <1>2, <1>3, Fields DEF Older
<1>6. world["artifacts"].of <= world'["artifacts"].of
  BY <1>3, <1>4, Fields, PiecesAre DEF Contents
<1>7. Place(gen.pc, gen.run, gen.again) \in Nat
  BY DEF Place
<1>8. Knows(PlaceOf, gen.seen, gen.parsed, gen.code, moment, world')
  BY <1>5, <1>6, <1>7, Fields, KnowledgeAges DEF PlaceOf
<1>9. UNCHANGED <<gen, moment, evidence>> /\ changes' \in Nat
  BY DEF ReplacePiece, EvidenceInv
<1>10. QED
  BY <1>5, <1>8, <1>9 DEF EvidenceInv, PlaceOf

-----------------------------------------------------------------------------
LEMMA EvidenceInitInv == EvidenceInit => EvidenceInv
<1> SUFFICES ASSUME EvidenceInit PROVE EvidenceInv
  OBVIOUS
<1> DEFINE none == [run \in Runs |-> Absent]
<1>1. FirstRecord \in [Pieces -> Contents]
  BY DEF FirstRecord, Contents
<1>2. none \in [Runs -> Contents] /\ AllAbsent \in [Pieces -> Contents]
  BY AbsentIsContents
<1>3. gen = [pc |-> "idle", run |-> "cold", seen |-> AllAbsent, parsed |-> none, code |-> 0,
             again |-> FALSE]
  BY DEF EvidenceInit, NotGenerating
<1> HIDE DEF none
<1>4. gen \in GenSet
  BY <1>2, <1>3, PiecesAre DEF GenSet, Labels
<1>5. gen.pc = "idle" /\ gen.run = "cold" /\ gen.again = FALSE
  BY <1>3
<1>6. PlaceOf = 0 /\ WellPlaced(gen.pc, gen.run, gen.again)
  BY <1>5 DEF PlaceOf, Place, WellPlaced, RunLabels, AgainLabels, LastLabels
<1>7. Knows(PlaceOf, gen.seen, gen.parsed, gen.code, moment, world)
  BY <1>6 DEF Knows, RecordedBefore, ParsedBetween, BelongTogether, MomentBetween, MomentIsSeen
<1>8. QED
  BY <1>1, <1>2, <1>4, <1>6, <1>7 DEF EvidenceInit, EvidenceInv

LEMMA GeneratorStepInv == EvidenceInv /\ GeneratorStep => EvidenceInv'
<1> SUFFICES ASSUME EvidenceInv, GeneratorStep PROVE EvidenceInv'
  OBVIOUS
<1>1. ASSUME Reads, UNCHANGED <<world, moment, evidence, changes>> PROVE EvidenceInv'
  BY <1>1, RecordManifestInv, LoadManifestInv, VerifyManifestInv, ManifestUnchangedInv,
     DigestManifestInv, CompareLineageInv, ObserveToolchainInv, CheckArtifactsInv, VerifyLedgerInv,
     BindManifestInv, CheckBaselineInv, VerifyLedgerAgainInv, RecordWheelInv, ReadWheelCodeInv,
     WheelUnchangedInv, FinalRecordInv, FinalVerificationInv, ObserveAgainInv, ValidateWheelInv,
     ValidateSdistInv, ValidateCodeInv DEF Reads
<1>2. ASSUME RecordSdist, UNCHANGED <<world, evidence, changes>> PROVE EvidenceInv'
  BY <1>2, RecordSdistInv
<1>3. CASE WriteEvidence
  BY <1>3, WriteEvidenceInv
<1>4. CASE GeneratorStops
  BY <1>4, Rejected DEF GeneratorStops
<1>5. QED
  BY <1>1, <1>2, <1>3, <1>4 DEF GeneratorStep

LEMMA EvidenceStepInv == EvidenceInv /\ [EvidenceNext]_evidenceVars => EvidenceInv'
<1> SUFFICES ASSUME EvidenceInv, [EvidenceNext]_evidenceVars PROVE EvidenceInv'
  OBVIOUS
<1>1. CASE UNCHANGED evidenceVars
  BY <1>1 DEF evidenceVars, EvidenceInv, PlaceOf
<1>2. CASE StartGenerator \/ GeneratorStep
  BY <1>2, StartGeneratorInv, GeneratorStepInv
<1>3. CASE \E piece \in Pieces : ReplacePiece(piece)
  BY <1>3, ReplacePieceInv
<1>4. QED
  BY <1>1, <1>2, <1>3 DEF EvidenceNext

(* At the last place all is known.                                         *)
LEMMA EvidenceInvImplies == EvidenceInv => EvidenceIsOneMoment
<1> SUFFICES ASSUME EvidenceInv, gen.pc = "write"
             PROVE  /\ \A p \in Pieces \ {"artifacts"} : gen.seen[p] = moment[p]
                    /\ \A run \in Runs : gen.parsed[run] = moment[run]
                    /\ \A p \in {"warm", "artifacts", "tools", "wheel"} :
                          moment[p].of = moment["cold"].of
                    /\ moment["channel"].of = moment["warm"].at
  BY DEF EvidenceIsOneMoment, Payload
<1>1. PlaceOf = 34
  BY DEF PlaceOf, Place
<1>2. /\ moment["cold"] = gen.seen["cold"] /\ moment["warm"] = gen.seen["warm"]
      /\ moment["tools"] = gen.seen["tools"] /\ moment["channel"] = gen.seen["channel"]
      /\ moment["wheel"] = gen.seen["wheel"] /\ moment["artifacts"].of <= gen.seen["cold"].of
  BY <1>1, Fields DEF Knows, MomentIsSeen
<1>3. moment["sdist"] = gen.seen["sdist"] /\ gen.seen["cold"].of <= moment["artifacts"].of
  BY <1>1, Fields DEF Knows, MomentBetween
<1>4. gen.parsed["cold"] = gen.seen["cold"] /\ gen.parsed["warm"] = gen.seen["warm"]
  BY <1>1, Fields DEF Knows, ParsedBetween
<1>5. /\ gen.seen["warm"].of = gen.seen["cold"].of /\ gen.seen["tools"].of = gen.seen["cold"].of
      /\ gen.seen["channel"].of = gen.seen["warm"].at
      /\ gen.code = gen.seen["wheel"].of /\ gen.code = gen.seen["cold"].of
  BY <1>1, Fields DEF Knows, BelongTogether
<1>6. moment["artifacts"].of = moment["cold"].of
  <2>1. moment["artifacts"] \in Contents /\ gen.seen["cold"] \in Contents
    BY Fields, PiecesAre
  <2>2. moment["artifacts"].of \in Nat /\ gen.seen["cold"].of \in Nat
    BY <2>1 DEF Contents
  <2>3. QED
    BY <1>2, <1>3, <2>2
<1>7. QED
  BY <1>2, <1>3, <1>4, <1>5, <1>6 DEF Pieces, Runs

(* What generate_public_evidence.py writes describes the one moment when   *)
(* the sdist was recorded, whatever is replaced while it runs.             *)
THEOREM RecordsOneMoment == EvidenceSpec => []EvidenceIsOneMoment
<1>1. EvidenceInit => EvidenceInv
  BY EvidenceInitInv
<1>2. EvidenceInv /\ [EvidenceNext]_evidenceVars => EvidenceInv'
  BY EvidenceStepInv
<1>3. EvidenceInv => EvidenceIsOneMoment
  BY EvidenceInvImplies
<1>4. QED
  BY <1>1, <1>2, <1>3, PTL DEF EvidenceSpec
=============================================================================
