------------------------- MODULE CommandLineProofs -------------------------
(***************************************************************************)
(* Proofs that CommandLine implements the specifications of the parts it   *)
(* is composed of, about PlanOrder in it, for plans of any size, about the *)
(* tour's comparison in ReleaseTour, for any adapters and whatever the     *)
(* owner does between and during tours, and about the types of a session,  *)
(* the update notice's for any number of processes.                        *)
(***************************************************************************)
EXTENDS CommandLine, ToolProcessProofs, ReleaseGateProofs, FunctionTheorems, FiniteSetTheorems,
        SequenceTheorems, WellFoundedInduction, TLAPS

-----------------------------------------------------------------------------
(* The update notice: the shape of its data.                               *)
CheckSet == [pc : {"idle", "read", "fetch", "write", "replace", "done"}, now : Nat, latest : Nat]

NoticeInv ==
    /\ clock \in Nat /\ server \in Nat
    /\ cacheFile \in [at : Nat, version : Nat]
    /\ check \in [Procs -> CheckSet]
    /\ lastAsk \in Nat /\ lastAsk <= clock

LEMMA NoticeInitInv == NoticeInit => NoticeInv
BY NoticeAssumption DEF NoticeInit, NoticeInv, NoFile, NoCheck, Unknown, CheckSet

LEMMA NoticeStepInv == NoticeInv /\ [NoticeNext]_noticeVars => NoticeInv'
<1> SUFFICES ASSUME NoticeInv, [NoticeNext]_noticeVars PROVE NoticeInv'
  OBVIOUS
<1> USE DEF Unknown
<1>1. CASE UNCHANGED noticeVars
  BY <1>1 DEF noticeVars, NoticeInv
<1>2. ASSUME NEW p \in Procs,
             \/ NoticeSkipped(p) \/ NoticeStops(p) \/ NoticeEnds(p) \/ FetchRaises(p)
             \/ WriteTemporary(p) \/ NoticeBegins(p)
      PROVE  NoticeInv'
  <2>1. check[p] \in CheckSet
    BY DEF NoticeInv
  <2>2. check' \in [Procs -> CheckSet]
    <3>1. CASE NoticeSkipped(p) \/ WriteTemporary(p)
      BY <2>1, <3>1 DEF NoticeSkipped, WriteTemporary, Become, CheckSet, NoticeInv
    <3>2. CASE NoticeStops(p) \/ NoticeEnds(p) \/ FetchRaises(p)
      BY <3>2 DEF NoticeStops, NoticeEnds, FetchRaises, NoCheck, CheckSet, NoticeInv
    <3>3. CASE NoticeBegins(p)
      BY <3>3 DEF NoticeBegins, NoCheck, CheckSet, NoticeInv
    <3>4. QED
      BY <1>2, <3>1, <3>2, <3>3
  <2>3. UNCHANGED <<clock, server, cacheFile, lastAsk>>
    BY <1>2 DEF NoticeSkipped, NoticeStops, NoticeEnds, FetchRaises, WriteTemporary, NoticeBegins
  <2>4. QED
    BY <2>2, <2>3 DEF NoticeInv
<1>3. ASSUME NEW p \in Procs, ReadCache(p) PROVE NoticeInv'
  <2>1. PICK label \in {"done", "fetch"} :
           check' = [check EXCEPT ![p].pc = label, ![p].latest = cacheFile.version]
    BY <1>3 DEF ReadCache
  <2>2. check' \in [Procs -> CheckSet]
    BY <2>1 DEF NoticeInv, CheckSet
  <2>3. lastAsk' \in {lastAsk, clock} /\ UNCHANGED <<clock, server, cacheFile>>
    BY <1>3 DEF ReadCache
  <2>4. QED
    BY <2>2, <2>3 DEF NoticeInv
<1>4. ASSUME NEW p \in Procs, Fetch(p) PROVE NoticeInv'
  <2>1. PICK observed \in {Unknown, server} :
           check' = [check EXCEPT ![p].pc = "write",
                        ![p].latest = IF observed # Unknown THEN observed
                                      ELSE IF @ # Unknown THEN @ ELSE Current]
    BY <1>4 DEF Fetch
  <2>2. check' \in [Procs -> CheckSet]
    BY <2>1, NoticeAssumption DEF NoticeInv, CheckSet
  <2>3. QED
    BY <1>4, <2>2 DEF Fetch, NoticeInv
<1>5. ASSUME NEW p \in Procs, ReplaceCache(p) PROVE NoticeInv'
  <2>1. check[p] \in CheckSet
    BY DEF NoticeInv
  <2>2. check' \in [Procs -> CheckSet]
    BY <1>5, <2>1 DEF ReplaceCache, Become, NoticeInv, CheckSet
  <2>3. cacheFile' \in [at : Nat, version : Nat]
    BY <1>5, <2>1 DEF ReplaceCache, Stamped, CheckSet
  <2>4. QED
    BY <1>5, <2>2, <2>3 DEF ReplaceCache, NoticeInv
<1>6. CASE Tick \/ ServerReleases
  BY <1>6 DEF Tick, ServerReleases, NoticeInv
<1>7. QED
  BY <1>1, <1>2, <1>3, <1>4, <1>5, <1>6 DEF NoticeNext, NoticeStep

-----------------------------------------------------------------------------
(* The session.  Every step of it is a step of each part or leaves the part*)
(* alone.                                                                  *)
LEMMA NoticeSteps ==
    ASSUME [CommandNext]_commandVars
    PROVE  [NoticeNext]_noticeVars
<1>1. CASE UNCHANGED commandVars
  BY <1>1 DEF commandVars
<1>2. ASSUME NEW p \in Procs, MainStarts(p) \/ MainEnds(p) PROVE UNCHANGED noticeVars
  BY <1>2 DEF MainStarts, MainEnds
<1>3. ASSUME NEW p \in Procs, GiveNotice(p) PROVE NoticeNext
  BY <1>3 DEF GiveNotice, NoticeNext
<1>4. ASSUME NEW p \in Procs, Dispatch(p) \/ PlanRefused(p) PROVE NoticeNext
  BY <1>4 DEF Dispatch, PlanRefused, NoticeNext
<1>5. ASSUME NEW p \in Procs, NoticeRaises(p) \/ NoticeCutShort(p) PROVE NoticeNext
  BY <1>5 DEF NoticeRaises, NoticeCutShort, NoticeNext
<1>6. CASE (Tick \/ ServerReleases) /\ Notices
  BY <1>6 DEF NoticeNext
<1>7. CASE (ToolStep /\ Tools) \/ (TourStepOrOwner /\ Tours) \/ SortPlan \/ ReleaseStep
  BY <1>7 DEF Tools, Tours, SortPlan, ReleaseStep
<1>8. QED
  BY <1>1, <1>2, <1>3, <1>4, <1>5, <1>6, <1>7 DEF CommandNext, CommandStep, Sessions

LEMMA ToolSteps ==
    ASSUME [CommandNext]_commandVars
    PROVE  [ToolNext]_toolVars
<1>1. CASE UNCHANGED commandVars
  BY <1>1 DEF commandVars
<1>2. ASSUME NEW p \in Procs,
             MainStarts(p) \/ MainEnds(p) \/ PlanRefused(p) \/ NoticeRaises(p) \/ NoticeCutShort(p)
      PROVE  UNCHANGED toolVars
  BY <1>2 DEF MainStarts, MainEnds, PlanRefused, NoticeRaises, NoticeCutShort
<1>3. ASSUME NEW p \in Procs, GiveNotice(p) PROVE UNCHANGED toolVars
  BY <1>3 DEF GiveNotice, Notices
<1>4. ASSUME NEW p \in Procs, Dispatch(p) PROVE [ToolNext]_toolVars
  BY <1>4 DEF Dispatch, ToolNext
<1>5. CASE (Tick \/ ServerReleases) /\ Notices
  BY <1>5 DEF Notices
<1>6. CASE ToolStep
  BY <1>6 DEF ToolStep, ToolNext
<1>7. CASE (TourStepOrOwner /\ Tours) \/ SortPlan \/ ReleaseStep
  BY <1>7 DEF Tours, SortPlan, ReleaseStep
<1>8. QED
  BY <1>1, <1>2, <1>3, <1>4, <1>5, <1>6, <1>7 DEF CommandNext, CommandStep, Sessions

(* The composition takes nothing from the tool calls: what holds of them   *)
(* alone holds of them in a session.                                       *)
THEOREM SessionRunsTools == CommandSpec => ToolSpec
<1>1. CommandInit => ToolInit
  BY DEF CommandInit
<1>2. QED
  BY <1>1, ToolSteps, PTL DEF CommandSpec, ToolSpec

(* What a session keeps of a tool's output is honest.                      *)
THEOREM SessionRetainsHonestly == CommandSpec => []RetainedIsHonest
BY SessionRunsTools, RetainedHonest, PTL

LEMMA GateSteps ==
    ASSUME [CommandNext]_commandVars
    PROVE  [GateNext]_<<evidenceVars, gateVars>>
<1>1. CASE UNCHANGED commandVars
  BY <1>1 DEF commandVars, releaseVars
<1>2. CASE UNCHANGED releaseVars
  BY <1>2 DEF releaseVars
<1>3. CASE ReleaseStep
  BY <1>3 DEF ReleaseStep
<1>4. QED
  BY <1>1, <1>2, <1>3 DEF CommandNext

(* Nor does it take anything from the gate and the generator.              *)
THEOREM SessionReleases == CommandSpec => GateSpec
<1>1. CommandInit => GateInit
  BY DEF CommandInit
<1>2. QED
  BY <1>1, GateSteps, PTL DEF CommandSpec, GateSpec

(* The promises of a release, of the specification that the runs check.    *)
THEOREM SessionReleasesSoundly ==
    CommandSpec => [](EvidenceIsOneMoment /\ BundleIsGated /\ DownloadsAgree /\ OnlyCutsBlock)
BY SessionReleases, GatesRecordOneMoment, BundlesAreGated, DownloadsHoldThePair, BlocksAreCuts, PTL
-----------------------------------------------------------------------------

(* Sets of numbers have a least element.                                   *)
LEMMA LeastExists ==
    ASSUME NEW S \in SUBSET Nat, S # {} PROVE \E n \in S : \A m \in S : n <= m
<1>1. PICK n \in S : \A m \in S : ~(<<m, n>> \in OpToRel(<, Nat))
  BY NatLessThanWellFounded, WFMin
<1>2. \A m \in S : ~(m < n)
  BY <1>1 DEF OpToRel
<1> QED
  BY <1>2

(* A sequence without repetition is as long as its elements are many.      *)
LEMMA ElementsCounted ==
    ASSUME NEW S, NEW s \in Seq(S)
    PROVE  /\ IsFiniteSet(Elements(s)) /\ Cardinality(Elements(s)) <= Len(s)
           /\ Elements(s) \subseteq S /\ Cardinality(Elements(s)) \in Nat
           /\ Cardinality(Elements(s)) = Len(s)
                <=> \A i, j \in 1..Len(s) : s[i] = s[j] => i = j
<1>1. Len(s) \in Nat /\ s \in [1..Len(s) -> S] /\ DOMAIN s = 1..Len(s)
  BY LenProperties
<1>2. s \in [1..Len(s) -> Elements(s)] /\ Elements(s) \subseteq S
  BY <1>1 DEF Elements
<1>3. s \in Surjection(1..Len(s), Elements(s))
  BY <1>1, <1>2, Fun_IsSurj DEF Elements
<1>4. IsFiniteSet(1..Len(s)) /\ Cardinality(1..Len(s)) = Len(s)
  BY <1>1, FS_Interval
<1>5. /\ IsFiniteSet(Elements(s)) /\ Cardinality(Elements(s)) <= Len(s)
      /\ Cardinality(Elements(s)) = Len(s) <=> s \in Injection(1..Len(s), Elements(s))
  BY <1>3, <1>4, FS_Surjection
<1>6. s \in Injection(1..Len(s), Elements(s))
        <=> \A i, j \in 1..Len(s) : s[i] = s[j] => i = j
  BY <1>2, Fun_IsInj, Fun_InjectionProperties
<1> QED
  BY <1>2, <1>5, <1>6, FS_CardinalityType

-----------------------------------------------------------------------------
(* topological_sort.                                                       *)
SpecRecords == [id : Nat, deps : Seq(Nat)]

LEMMA KnownFinite ==
    ASSUME NEW L \in Seq(SpecRecords) PROVE IsFiniteSet(Known(L)) /\ Known(L) \subseteq Nat
<1> DEFINE ids == [i \in 1..Len(L) |-> L[i].id]
<1>1. Len(L) \in Nat /\ L \in [1..Len(L) -> SpecRecords] /\ DOMAIN L = 1..Len(L)
  BY LenProperties
<1>2. \A i \in 1..Len(L) : L[i].id \in Nat
  BY <1>1 DEF SpecRecords
<1>3. ids \in [1..Len(L) -> Nat]
  BY <1>2
<1>4. ids \in Seq(Nat) /\ Len(ids) = Len(L) /\ DOMAIN ids = 1..Len(L)
  BY <1>1, <1>3
<1>5. Elements(ids) = Known(L)
  BY <1>1, <1>4 DEF Elements, Known
<1> HIDE DEF ids
<1> QED
  BY <1>4, <1>5, ElementsCounted

LEMMA NoIndexError ==
    ASSUME NEW L
    PROVE  IndexError(L) = "none" <=>
              \A i \in DOMAIN L : /\ ~Repeats(L, i) /\ ~Doubles(L[i])
                                  /\ Elements(L[i].deps) \subseteq Known(L)
<1>1. CASE \E i \in DOMAIN L : Repeats(L, i) \/ Doubles(L[i])
  BY <1>1 DEF IndexError
<1>2. CASE ~\E i \in DOMAIN L : Repeats(L, i) \/ Doubles(L[i])
  <2>1. {i \in DOMAIN L : Repeats(L, i) \/ Doubles(L[i])} = {}
    BY <1>2
  <2>2. IndexError(L) = IF \E i \in DOMAIN L : Elements(L[i].deps) \ Known(L) # {}
                        THEN "UnknownDependencyError" ELSE "none"
    BY <2>1 DEF IndexError
  <2> QED
    BY <1>2, <2>2
<1> QED
  BY <1>1, <1>2

LEMMA SpecFacts ==
    ASSUME sort.listing \in Seq(SpecRecords), IndexError(sort.listing) = "none",
           NEW id \in Known(sort.listing)
    PROVE  /\ SpecOf(id) \in SpecRecords /\ SpecOf(id).id = id
           /\ Deps(id) \subseteq Known(sort.listing)
           /\ IsFiniteSet(Deps(id)) /\ Len(SpecOf(id).deps) = Cardinality(Deps(id))
           /\ SpecOf(id) \in Elements(sort.listing)
<1> DEFINE L == sort.listing
<1>1. L \in [1..Len(L) -> SpecRecords] /\ DOMAIN L = 1..Len(L)
  BY LenProperties
<1>2. PICK i \in DOMAIN L : L[i].id = id
  BY DEF Known
<1>3. SpecOf(id) \in Elements(L) /\ SpecOf(id).id = id
  BY <1>2 DEF SpecOf, Elements
<1>4. PICK j \in DOMAIN L : L[j] = SpecOf(id)
  BY <1>3 DEF Elements
<1>5. SpecOf(id) \in SpecRecords
  BY <1>1, <1>4
<1>6. ~Doubles(SpecOf(id)) /\ Elements(SpecOf(id).deps) \subseteq Known(L)
  BY <1>4, NoIndexError
<1>7. SpecOf(id).deps \in Seq(Nat)
  BY <1>5 DEF SpecRecords
<1>8. DOMAIN SpecOf(id).deps = 1..Len(SpecOf(id).deps)
  BY <1>7, LenProperties
<1>9. \A k, l \in 1..Len(SpecOf(id).deps) : SpecOf(id).deps[k] = SpecOf(id).deps[l] => k = l
  BY <1>6, <1>8 DEF Doubles
<1> QED
  BY <1>3, <1>5, <1>6, <1>7, <1>9, ElementsCounted DEF Deps

(* The nodes that may come next after these, and what is known of the      *)
(* result so far.                                                          *)
Free(done) == {id \in Known(sort.listing) \ done : Deps(id) \subseteq done}
Done == Elements(sort.ordered)
Before(i) == {sort.ordered[j] : j \in 1 .. i - 1}

InPlace(i) ==
    sort.ordered[i] \in Free(Before(i)) /\ \A id \in Free(Before(i)) : sort.ordered[i] <= id

Popping ==
    /\ IndexError(sort.listing) = "none"
    /\ sort.degree \in [Known(sort.listing) -> Nat]
    /\ \A id \in Known(sort.listing) : sort.degree[id] = Cardinality(Deps(id) \ Done)
    /\ sort.ready = Free(Done)
    /\ sort.ordered \in Seq(Known(sort.listing))
    /\ \A i \in 1..Len(sort.ordered) : InPlace(i)

Degrees == UNION {[S -> Nat] : S \in SUBSET Nat}
Errors == {"none", "DuplicateNodeError", "GraphError", "UnknownDependencyError", "CycleError"}
SortSet == [pc : {"idle", "index", "pop", "ended"}, planned : BOOLEAN, listing : Seq(SpecRecords),
            degree : Degrees, ready : SUBSET Nat, ordered : Seq(Nat), error : Errors]

(* A plan that build_plan made: every node depends on nodes of an earlier  *)
(* layer, the source, the conversion, the quantizations, the smoke tests.  *)
Layer(id) == IF id = Source THEN 0 ELSE IF id = Convert THEN 1 ELSE IF id < 20 THEN 2 ELSE 3

Layered(L) ==
    /\ IndexError(L) = "none"
    /\ \A i \in DOMAIN L : \A dep \in Elements(L[i].deps) : Layer(dep) < Layer(L[i].id)

SortInv ==
    /\ sort \in SortSet
    /\ sort.planned => Layered(sort.listing)
    /\ sort.pc = "index" => sort.ordered = << >> /\ sort.error = "none"
    /\ sort.pc = "pop" => Popping /\ sort.error = "none"
    /\ sort.pc = "ended" =>
          \/ IndexError(sort.listing) # "none" /\ sort.error = IndexError(sort.listing)
          \/ /\ Popping /\ sort.ready = {}
             /\ sort.error = IF Len(sort.ordered) # Cardinality(Known(sort.listing))
                             THEN "CycleError" ELSE "none"

LEMMA IdleSorts == NotSorting \in SortSet
<1>1. << >> \in [{} -> Nat]
  OBVIOUS
<1>2. << >> \in Degrees
  BY <1>1 DEF Degrees
<1>3. << >> \in Seq(SpecRecords) /\ << >> \in Seq(Nat)
  OBVIOUS
<1> QED
  BY <1>2, <1>3 DEF NotSorting, SortSet, Errors

LEMMA IdleSortInv == sort = NotSorting => SortInv
BY IdleSorts DEF SortInv, NotSorting

LEMMA StartSortInv ==
    ASSUME NEW L \in Seq(SpecRecords), NEW planned \in BOOLEAN, planned => Layered(L),
           StartSort(L, planned)
    PROVE  SortInv'
<1> DEFINE s == [NotSorting EXCEPT !.pc = "index", !.listing = L, !.planned = planned]
<1>1. s \in SortSet
  BY IdleSorts DEF SortSet
<1>2. /\ s.pc = "index" /\ s.planned = planned /\ s.listing = L /\ s.ordered = << >>
      /\ s.error = "none"
  BY DEF NotSorting
<1>3. sort' = s
  BY DEF StartSort
<1> HIDE DEF s
<1> QED
  BY <1>1, <1>2, <1>3 DEF SortInv

LEMMA IndexNodesInv ==
    ASSUME SortInv, IndexNodes PROVE SortInv'
<1> DEFINE L == sort.listing
           degree == [id \in Known(L) |-> Len(SpecOf(id).deps)]
<1>1. sort \in SortSet /\ L \in Seq(SpecRecords) /\ sort.ordered = << >> /\ sort.error = "none"
  BY DEF SortInv, SortSet, IndexNodes
<1>2. IsFiniteSet(Known(L)) /\ Known(L) \subseteq Nat
  BY <1>1, KnownFinite
<1>3. CASE IndexError(L) # "none"
  <2> DEFINE s == [sort EXCEPT !.pc = "ended", !.error = IndexError(L)]
  <2>1. sort' = s
    BY <1>3 DEF IndexNodes
  <2>2. IndexError(L) \in Errors
    BY DEF IndexError, Errors
  <2>3. s \in SortSet /\ s.pc = "ended" /\ s.error = IndexError(L) /\ s.listing = L
        /\ s.planned = sort.planned
    BY <1>1, <2>2 DEF SortSet
  <2> HIDE DEF s
  <2> QED
    BY <1>3, <2>1, <2>3 DEF SortInv
<1>4. CASE IndexError(L) = "none"
  <2> DEFINE s == [sort EXCEPT !.pc = "pop", !.degree = degree,
                               !.ready = {id \in DOMAIN degree : degree[id] = 0}]
  <2>1. sort' = s
    BY <1>4 DEF IndexNodes
  <2>2. \A id \in Known(L) : /\ IsFiniteSet(Deps(id)) /\ Deps(id) \subseteq Known(L)
                             /\ Len(SpecOf(id).deps) = Cardinality(Deps(id))
                             /\ Cardinality(Deps(id)) \in Nat
    BY <1>1, <1>4, SpecFacts, FS_CardinalityType
  <2>3. degree \in [Known(L) -> Nat]
    BY <2>2
  <2>4. \A id \in Known(L) : degree[id] = Cardinality(Deps(id))
    BY <2>2
  <2> HIDE DEF degree
  <2>5. degree \in Degrees /\ DOMAIN degree = Known(L)
    BY <1>2, <2>3 DEF Degrees
  <2>6. {id \in DOMAIN degree : degree[id] = 0} = {id \in Known(L) : Deps(id) = {}}
    BY <2>2, <2>4, <2>5, FS_EmptySet
  <2>7. /\ s \in SortSet /\ s.pc = "pop" /\ s.listing = L /\ s.degree = degree
        /\ s.ready = {id \in Known(L) : Deps(id) = {}}
        /\ s.ordered = << >> /\ s.error = "none" /\ s.planned = sort.planned
    BY <1>1, <1>2, <2>5, <2>6 DEF SortSet
  <2> HIDE DEF s
  <2>8. \A id : Deps(id)' = Deps(id)
    BY <2>1, <2>7 DEF Deps, SpecOf
  <2>9. sort'.listing = L /\ Elements(<< >>) = {} /\ Elements(sort'.ordered) = {}
    BY <2>1, <2>7 DEF Elements
  <2>10. Free(Done)' = {id \in Known(L) : Deps(id) = {}}
    BY <2>8, <2>9 DEF Free, Done
  <2>11. Popping'
    <3>1. IndexError(sort'.listing) = "none" /\ sort'.degree \in [Known(sort'.listing) -> Nat]
      BY <1>4, <2>1, <2>3, <2>7
    <3>2. \A id \in Known(sort'.listing) :
              sort'.degree[id] = Cardinality(Deps(id)' \ Elements(sort'.ordered))
      <4> SUFFICES ASSUME NEW id \in Known(L)
                   PROVE  sort'.degree[id] = Cardinality(Deps(id)' \ Elements(sort'.ordered))
        BY <2>9
      <4>1. Deps(id)' \ Elements(sort'.ordered) = Deps(id)
        BY <2>8, <2>9
      <4>2. sort'.degree[id] = Cardinality(Deps(id))
        BY <2>1, <2>4, <2>7
      <4> QED
        BY <4>1, <4>2
    <3>3. sort'.ready = Free(Done)'
      BY <2>1, <2>7, <2>10
    <3>4. /\ sort'.ordered \in Seq(Known(sort'.listing))
          /\ \A i \in 1..Len(sort'.ordered) : InPlace(i)'
      BY <2>1, <2>7
    <3> QED
      BY <3>1, <3>2, <3>3, <3>4 DEF Popping, Done
  <2> QED
    BY <2>1, <2>7, <2>9, <2>11 DEF SortInv
<1> QED
  BY <1>3, <1>4

LEMMA PopReadyInv ==
    ASSUME SortInv, PopReady PROVE SortInv'
<1> DEFINE L == sort.listing
           K == Known(L)
           D == Done
           degree(id) == [n \in DOMAIN sort.degree |->
                            IF id \in Deps(n) THEN sort.degree[n] - 1 ELSE sort.degree[n]]
<1>1. /\ sort \in SortSet /\ L \in Seq(SpecRecords) /\ Popping /\ sort.error = "none"
      /\ sort.planned => Layered(L)
      /\ sort.pc = "pop"
  BY DEF SortInv, SortSet, PopReady
<1>2. /\ sort.ready = Free(D) /\ IndexError(L) = "none" /\ sort.degree \in [K -> Nat]
      /\ \A n \in K : sort.degree[n] = Cardinality(Deps(n) \ D)
      /\ sort.ordered \in Seq(K) /\ \A i \in 1..Len(sort.ordered) : InPlace(i)
  BY <1>1 DEF Popping
<1>3. IsFiniteSet(K) /\ K \subseteq Nat
  BY <1>1, KnownFinite
<1>4. Free(D) \subseteq K /\ Free(D) # {} /\ Free(D) \subseteq Nat
  BY <1>2, <1>3 DEF Free, PopReady
<1>5. \E id \in sort.ready : \A other \in sort.ready : id <= other
  BY <1>2, <1>4, LeastExists
<1>6. LeastReady \in sort.ready /\ \A other \in sort.ready : LeastReady <= other
  BY <1>5 DEF LeastReady
<1>7. PICK id : id = LeastReady
  OBVIOUS
<1>8. id \in Free(D) /\ (\A other \in Free(D) : id <= other) /\ id \in K /\ id \notin D
      /\ Deps(id) \subseteq D
  BY <1>2, <1>6, <1>7 DEF Free
<1> DEFINE s == [sort EXCEPT !.ordered = Append(@, id), !.degree = degree(id),
                             !.ready = (@ \ {id}) \union
                                 {n \in DOMAIN degree(id) : id \in Deps(n) /\ degree(id)[n] = 0}]
<1>9. sort' = s
  BY <1>7 DEF PopReady
<1>10. DOMAIN sort.ordered = 1..Len(sort.ordered) /\ Len(sort.ordered) \in Nat
       /\ sort.ordered \in [1..Len(sort.ordered) -> K]
  BY <1>2, LenProperties
<1>11. D \subseteq K /\ \A n \in D : Deps(n) \subseteq D
  <2> SUFFICES ASSUME NEW i \in 1..Len(sort.ordered)
               PROVE  sort.ordered[i] \in K /\ Deps(sort.ordered[i]) \subseteq D
    BY <1>10 DEF Done, Elements
  <2>1. sort.ordered[i] \in Free(Before(i))
    BY <1>2 DEF InPlace
  <2>2. Before(i) \subseteq D
    BY <1>10 DEF Before, Done, Elements
  <2> QED
    BY <2>1, <2>2 DEF Free
<1>12. \A n \in K : IsFiniteSet(Deps(n)) /\ Deps(n) \subseteq K
  BY <1>1, <1>2, SpecFacts
<1>13. \A n \in K : IsFiniteSet(Deps(n) \ D)
  BY <1>12, FS_Subset
<1>14. \A n \in K : /\ degree(id)[n] = Cardinality(Deps(n) \ (D \union {id}))
                    /\ degree(id)[n] \in Nat
  <2> SUFFICES ASSUME NEW n \in K
               PROVE  /\ degree(id)[n] = Cardinality(Deps(n) \ (D \union {id}))
                      /\ degree(id)[n] \in Nat
    OBVIOUS
  <2>1. IsFiniteSet(Deps(n) \ D) /\ Cardinality(Deps(n) \ D) \in Nat
        /\ sort.degree[n] = Cardinality(Deps(n) \ D) /\ n \in DOMAIN sort.degree
    BY <1>2, <1>13, FS_CardinalityType
  <2>2. CASE id \in Deps(n)
    <3>1. id \in Deps(n) \ D /\ Deps(n) \ (D \union {id}) = (Deps(n) \ D) \ {id}
      BY <1>8, <2>2
    <3>2. IsFiniteSet((Deps(n) \ D) \ {id})
          /\ Cardinality((Deps(n) \ D) \ {id}) = Cardinality(Deps(n) \ D) - 1
      BY <2>1, <3>1, FS_RemoveElement
    <3>3. Cardinality((Deps(n) \ D) \ {id}) \in Nat
      BY <3>2, FS_CardinalityType
    <3> QED
      BY <2>1, <2>2, <3>1, <3>2, <3>3
  <2>3. CASE id \notin Deps(n)
    <3>1. Deps(n) \ (D \union {id}) = Deps(n) \ D
      BY <2>3
    <3> QED
      BY <2>1, <2>3, <3>1
  <2> QED
    BY <2>2, <2>3
<1>15. degree(id) \in [K -> Nat] /\ DOMAIN degree(id) = K
  BY <1>2, <1>14
<1> HIDE DEF degree
<1>16. degree(id) \in Degrees
  BY <1>3, <1>15 DEF Degrees
<1>17. \A n \in K : degree(id)[n] = 0 <=> Deps(n) \subseteq D \union {id}
  <2> SUFFICES ASSUME NEW n \in K
               PROVE  degree(id)[n] = 0 <=> Deps(n) \subseteq D \union {id}
    OBVIOUS
  <2>1. IsFiniteSet(Deps(n) \ (D \union {id}))
    BY <1>12, FS_Subset
  <2>2. Cardinality(Deps(n) \ (D \union {id})) = 0 <=> Deps(n) \ (D \union {id}) = {}
    BY <2>1, FS_EmptySet
  <2> QED
    BY <1>14, <2>2
<1> DEFINE ready == {n \in K : id \in Deps(n) /\ degree(id)[n] = 0}
<1>18. (Free(D) \ {id}) \union ready = Free(D \union {id})
  <2>1. (Free(D) \ {id}) \subseteq Free(D \union {id})
    BY DEF Free
  <2>2. ready \subseteq Free(D \union {id})
    <3> SUFFICES ASSUME NEW n \in K, id \in Deps(n), degree(id)[n] = 0
                 PROVE  n \in Free(D \union {id})
      OBVIOUS
    <3>1. Deps(n) \subseteq D \union {id}
      BY <1>17
    <3>2. n \notin D /\ n # id
      BY <1>8, <1>11
    <3> QED
      BY <3>1, <3>2 DEF Free
  <2>3. \A n \in Free(D \union {id}) : n \in (Free(D) \ {id}) \union ready
    BY <1>17 DEF Free
  <2> QED
    BY <2>1, <2>2, <2>3
<1>19. /\ Append(sort.ordered, id) \in Seq(K)
       /\ Len(Append(sort.ordered, id)) = Len(sort.ordered) + 1
       /\ \A i \in 1..Len(sort.ordered) : Append(sort.ordered, id)[i] = sort.ordered[i]
       /\ Append(sort.ordered, id)[Len(sort.ordered) + 1] = id
  BY <1>2, <1>8, AppendProperties
<1>20. PICK o : o = Append(sort.ordered, id)
  OBVIOUS
<1>21. /\ o \in Seq(K) /\ o \in Seq(Nat) /\ Len(o) = Len(sort.ordered) + 1
       /\ \A i \in 1..Len(sort.ordered) : o[i] = sort.ordered[i]
       /\ o[Len(sort.ordered) + 1] = id /\ DOMAIN o = 1..Len(sort.ordered) + 1
  <2>1. /\ o \in Seq(K) /\ Len(o) = Len(sort.ordered) + 1
        /\ \A i \in 1..Len(sort.ordered) : o[i] = sort.ordered[i]
        /\ o[Len(sort.ordered) + 1] = id
    BY <1>19, <1>20
  <2>2. o \in [1..Len(o) -> K] /\ DOMAIN o = 1..Len(o) /\ Len(o) \in Nat
    BY <2>1, LenProperties
  <2>3. o \in [1..Len(o) -> Nat]
    BY <2>2, <1>3
  <2>4. o \in Seq(Nat)
    BY <2>2, <2>3
  <2>5. DOMAIN o = 1..Len(o)
    BY <2>2
  <2>6. DOMAIN o = 1..Len(sort.ordered) + 1
    BY <2>1, <2>5
  <2> QED
    BY <2>1, <2>4, <2>6
<1>22. Elements(o) = D \union {id}
  <2>1. \A i \in 1..Len(sort.ordered) : i \in DOMAIN o /\ o[i] = sort.ordered[i]
    BY <1>10, <1>21
  <2>2. Len(sort.ordered) + 1 \in DOMAIN o
    BY <1>10, <1>21
  <2>3. \A i \in DOMAIN o : i \in 1..Len(sort.ordered) \/ i = Len(sort.ordered) + 1
    BY <1>10, <1>21
  <2>4. D = {sort.ordered[i] : i \in 1..Len(sort.ordered)}
    BY <1>10 DEF Done, Elements
  <2> HIDE DEF D
  <2> QED
    BY <1>21, <2>1, <2>2, <2>3, <2>4 DEF Elements
<1>23. {n \in DOMAIN degree(id) : id \in Deps(n) /\ degree(id)[n] = 0} = ready
  BY <1>15
<1> DEFINE r == (sort.ready \ {id}) \union ready
<1>24. s = [sort EXCEPT !.ordered = o, !.degree = degree(id), !.ready = r]
  BY <1>20, <1>23
<1>25. r = Free(D \union {id}) /\ r \subseteq Nat
  BY <1>2, <1>3, <1>18 DEF Free
<1> HIDE DEF r, ready
<1>26. /\ s \in SortSet /\ s.pc = "pop" /\ s.listing = L /\ s.degree = degree(id)
       /\ s.ready = r /\ s.ordered = o /\ s.error = "none" /\ s.planned = sort.planned
  <2> HIDE DEF s
  <2> QED
    BY <1>1, <1>16, <1>21, <1>24, <1>25 DEF SortSet
<1> HIDE DEF s
<1>27. /\ sort'.pc = "pop" /\ sort'.listing = L /\ sort'.degree = degree(id) /\ sort' \in SortSet
       /\ sort'.ready = r /\ sort'.ordered = o /\ sort'.error = "none"
       /\ sort'.planned = sort.planned
  BY <1>9, <1>26
<1>28. \A n : Deps(n)' = Deps(n)
  BY <1>27 DEF Deps, SpecOf
<1>29. Popping'
  <2>1. PICK E : E = D \union {id}
    OBVIOUS
  <2>2. \A F : Free(F)' = Free(F)
    BY <1>27, <1>28 DEF Free
  <2>3. sort'.ready = Free(E)' /\ Elements(sort'.ordered) = E
    BY <1>22, <1>25, <1>27, <2>1, <2>2
  <2>4. \A n \in K : sort'.degree[n] = Cardinality(Deps(n)' \ E)
    <3> SUFFICES ASSUME NEW n \in K PROVE sort'.degree[n] = Cardinality(Deps(n)' \ E)
      OBVIOUS
    <3>1. Deps(n)' \ E = Deps(n) \ (D \union {id})
      BY <1>28, <2>1
    <3>2. sort'.degree[n] = Cardinality(Deps(n) \ (D \union {id}))
      BY <1>14, <1>27
    <3> QED
      BY <3>1, <3>2
  <2>5. \A i \in 1..Len(sort.ordered) : o[i] \in Free({o[j] : j \in 1..i - 1})
           /\ \A n \in Free({o[j] : j \in 1..i - 1}) : o[i] <= n
    <3> SUFFICES ASSUME NEW i \in 1..Len(sort.ordered)
                 PROVE  o[i] \in Free({o[j] : j \in 1..i - 1})
                        /\ \A n \in Free({o[j] : j \in 1..i - 1}) : o[i] <= n
      OBVIOUS
    <3>1. \A j \in 1..i - 1 : o[j] = sort.ordered[j]
      BY <1>10, <1>21
    <3>2. {o[j] : j \in 1..i - 1} = Before(i) /\ o[i] = sort.ordered[i]
      BY <1>21, <3>1 DEF Before
    <3> QED
      BY <1>2, <3>2 DEF InPlace
  <2>6. {o[j] : j \in 1..Len(sort.ordered) + 1 - 1} = D
    <3>1. 1..Len(sort.ordered) + 1 - 1 = 1..Len(sort.ordered)
      BY <1>10
    <3> QED
      BY <1>10, <1>21, <3>1 DEF Done, Elements
  <2>7. o[Len(sort.ordered) + 1] \in Free({o[j] : j \in 1..Len(sort.ordered) + 1 - 1})
        /\ \A n \in Free({o[j] : j \in 1..Len(sort.ordered) + 1 - 1}) :
              o[Len(sort.ordered) + 1] <= n
    BY <1>8, <1>21, <2>6
  <2>8. \A i \in 1..Len(o) : o[i] \in Free({o[j] : j \in 1..i - 1})
           /\ \A n \in Free({o[j] : j \in 1..i - 1}) : o[i] <= n
    <3> SUFFICES ASSUME NEW i \in 1..Len(o)
                 PROVE  o[i] \in Free({o[j] : j \in 1..i - 1})
                        /\ \A n \in Free({o[j] : j \in 1..i - 1}) : o[i] <= n
      OBVIOUS
    <3>1. CASE i \in 1..Len(sort.ordered)
      BY <2>5, <3>1
    <3>2. CASE i = Len(sort.ordered) + 1
      BY <2>7, <3>2
    <3>3. i \in 1..Len(sort.ordered) \/ i = Len(sort.ordered) + 1
      BY <1>10, <1>21
    <3> QED
      BY <3>1, <3>2, <3>3
  <2>9. \A i \in 1..Len(o) : InPlace(i)'
    <3> SUFFICES ASSUME NEW i \in 1..Len(o) PROVE InPlace(i)'
      OBVIOUS
    <3>1. PICK B : B = {o[j] : j \in 1..i - 1}
      OBVIOUS
    <3>2. Before(i)' = B
      BY <1>27, <3>1 DEF Before
    <3>3. o[i] \in Free(B)' /\ \A n \in Free(B)' : o[i] <= n
      BY <2>2, <2>8, <3>1
    <3>4. Free(Before(i))' = Free(B)'
      BY <3>2 DEF Free
    <3> QED
      BY <1>27, <3>3, <3>4 DEF InPlace
  <2>10. Free(Done)' = Free(E)'
    BY <2>3 DEF Free, Done
  <2>11. \A n \in K : sort'.degree[n] = Cardinality(Deps(n)' \ Done')
    BY <2>3, <2>4 DEF Done
  <2> QED
    BY <1>2, <1>15, <1>21, <1>27, <2>3, <2>9, <2>10, <2>11 DEF Popping
<1> QED
  BY <1>1, <1>27, <1>29 DEF SortInv

LEMMA EndSortInv ==
    ASSUME SortInv, EndSort PROVE SortInv'
<1> DEFINE error == IF Len(sort.ordered) # Cardinality(DOMAIN sort.degree)
                    THEN "CycleError" ELSE "none"
           s == [sort EXCEPT !.pc = "ended", !.error = error]
<1>1. /\ sort \in SortSet /\ Popping /\ sort.ready = {}
      /\ sort.planned => Layered(sort.listing)
      /\ sort.pc = "pop" /\ sort' = s /\ DOMAIN sort.degree = Known(sort.listing)
  BY DEF SortInv, EndSort, Popping
<1>2. /\ s \in SortSet /\ s.pc = "ended" /\ s.error = error /\ s.listing = sort.listing
      /\ s.planned = sort.planned /\ s.ready = {} /\ s.ordered = sort.ordered
      /\ s.degree = sort.degree
  BY <1>1 DEF SortSet, Errors
<1> HIDE DEF s
<1>3. Popping'
  <2>1. /\ sort'.listing = sort.listing /\ sort'.ready = sort.ready
        /\ sort'.ordered = sort.ordered /\ sort'.degree = sort.degree
    BY <1>1, <1>2
  <2>2. /\ \A n : Deps(n)' = Deps(n)
        /\ Done' = Done /\ \A i : Before(i)' = Before(i)
    BY <2>1 DEF Deps, SpecOf, Done, Before
  <2>3. PICK E : E = Done
    OBVIOUS
  <2>4. \A F : Free(F)' = Free(F)
    BY <2>1, <2>2 DEF Free
  <2>5. Free(Done)' = Free(Done)
    BY <2>1, <2>2 DEF Free
  <2>6. \A i : Free(Before(i))' = Free(Before(i))
    BY <2>1, <2>2 DEF Free
  <2>7. \A i \in 1..Len(sort.ordered) : InPlace(i)'
    BY <1>1, <2>1, <2>6 DEF Popping, InPlace
  <2>8. sort'.ready = Free(Done)'
    BY <1>1, <2>1, <2>5 DEF Popping
  <2>9. \A n \in Known(sort.listing) : Deps(n)' \ Done' = Deps(n) \ Done
    BY <2>2
  <2>10. \A n \in Known(sort.listing) : sort'.degree[n] = Cardinality(Deps(n)' \ Done')
    BY <1>1, <2>1, <2>9 DEF Popping
  <2>11. /\ IndexError(sort'.listing) = "none"
         /\ sort'.degree \in [Known(sort'.listing) -> Nat]
         /\ sort'.ordered \in Seq(Known(sort'.listing))
    BY <1>1, <2>1 DEF Popping
  <2> QED
    BY <2>1, <2>7, <2>8, <2>10, <2>11 DEF Popping
<1> QED
  BY <1>1, <1>2, <1>3 DEF SortInv

(* When no node is ready, the nodes left over are those of a circle.       *)
LEMMA LeftOver ==
    ASSUME SortInv, Popping, sort.ready = {}
    PROVE  /\ Circular <=> Len(sort.ordered) # Cardinality(Known(sort.listing))
           /\ sort.planned => ~Circular
           /\ DOMAIN sort.ordered = 1..Len(sort.ordered)
           /\ \A i, j \in 1..Len(sort.ordered) : sort.ordered[i] = sort.ordered[j] => i = j
           /\ Len(sort.ordered) = Cardinality(Known(sort.listing)) <=> Done = Known(sort.listing)
<1> DEFINE L == sort.listing
           K == Known(L)
<1>1. /\ L \in Seq(SpecRecords) /\ IndexError(L) = "none"
      /\ sort.planned => Layered(L)
      /\ Free(Done) = {} /\ sort.ordered \in Seq(K)
      /\ \A i \in 1..Len(sort.ordered) : InPlace(i)
  BY DEF SortInv, SortSet, Popping
<1>2. /\ Len(sort.ordered) \in Nat /\ DOMAIN sort.ordered = 1..Len(sort.ordered)
      /\ sort.ordered \in [1..Len(sort.ordered) -> K]
  BY <1>1, LenProperties
<1>3. \A i, j \in 1..Len(sort.ordered) : i < j => sort.ordered[i] # sort.ordered[j]
  <2> SUFFICES ASSUME NEW i \in 1..Len(sort.ordered), NEW j \in 1..Len(sort.ordered), i < j
               PROVE  sort.ordered[i] # sort.ordered[j]
    OBVIOUS
  <2>1. sort.ordered[i] \in Before(j)
    BY <1>2 DEF Before
  <2>2. sort.ordered[j] \notin Before(j)
    BY <1>1 DEF InPlace, Free
  <2> QED
    BY <2>1, <2>2
<1>4. \A i, j \in 1..Len(sort.ordered) : sort.ordered[i] = sort.ordered[j] => i = j
  BY <1>2, <1>3
<1>5. Done \subseteq K /\ Cardinality(Done) = Len(sort.ordered)
  BY <1>1, <1>4, ElementsCounted DEF Done
<1>6. IsFiniteSet(K)
  BY <1>1, KnownFinite
<1>7. Len(sort.ordered) = Cardinality(K) <=> Done = K
  BY <1>5, <1>6, FS_Subset
<1>8. \A n \in K : Deps(n) \subseteq K
  BY <1>1, SpecFacts
<1>9. Done # K => Circular
  <2> SUFFICES ASSUME Done # K PROVE Circular
    OBVIOUS
  <2>1. K \ Done \in SUBSET K /\ K \ Done # {}
    BY <1>5
  <2>2. \A n \in K \ Done : Deps(n) \intersect (K \ Done) # {}
    BY <1>1, <1>8 DEF Free
  <2> QED
    BY <2>1, <2>2 DEF Circular
<1>10. Done = K => ~Circular
  <2> SUFFICES ASSUME Done = K, NEW S \in SUBSET K, S # {}, \A n \in S : Deps(n) \intersect S # {}
               PROVE  FALSE
    BY DEF Circular
  <2> DEFINE I == {i \in 1..Len(sort.ordered) : sort.ordered[i] \in S}
  <2>1. I # {}
    BY <1>2 DEF Done, Elements
  <2>2. I \in SUBSET Nat
    OBVIOUS
  <2>3. PICK i \in I : \A j \in I : i <= j
    BY <2>1, <2>2, LeastExists
  <2>4. PICK d : d \in Deps(sort.ordered[i]) /\ d \in S
    OBVIOUS
  <2>5. d \in Before(i)
    BY <1>1, <2>4 DEF InPlace, Free
  <2>6. PICK j \in 1..i - 1 : d = sort.ordered[j]
    BY <2>5 DEF Before
  <2>7. j \in I
    BY <1>2, <2>4, <2>6
  <2> QED
    BY <2>3, <2>6, <2>7
<1>11. sort.planned => ~Circular
  <2> SUFFICES ASSUME sort.planned, NEW S \in SUBSET K, S # {},
                      \A n \in S : Deps(n) \intersect S # {}
               PROVE  FALSE
    BY DEF Circular
  <2> DEFINE layers == {Layer(n) : n \in S}
  <2>1. layers # {}
    OBVIOUS
  <2>2. layers \in SUBSET Nat
    BY DEF Layer
  <2>3. \E least \in layers : \A m \in layers : least <= m
    BY <2>1, <2>2, LeastExists
  <2>4. PICK n \in S : \A m \in S : Layer(n) <= Layer(m)
    BY <2>3
  <2>5. PICK d : d \in Deps(n) /\ d \in S
    OBVIOUS
  <2>6. SpecOf(n) \in Elements(L) /\ SpecOf(n).id = n
    BY <1>1, SpecFacts
  <2>7. Layer(d) < Layer(n)
    BY <1>1, <2>5, <2>6 DEF Layered, Deps, Elements
  <2>8. Layer(d) \in Nat /\ Layer(n) \in Nat
    BY DEF Layer
  <2> QED
    BY <2>4, <2>5, <2>7, <2>8
<1> QED
  BY <1>2, <1>4, <1>7, <1>9, <1>10, <1>11

LEMMA SortedInvOrder == SortInv => OrderIsTopological
<1> SUFFICES ASSUME SortInv, sort.pc = "ended" PROVE OrderIsTopological
  BY DEF OrderIsTopological
<1>1. CASE IndexError(sort.listing) # "none"
  <2>1. ~sort.planned /\ sort.error = IndexError(sort.listing)
    BY <1>1 DEF SortInv, Layered, Popping
  <2> QED
    BY <1>1, <2>1 DEF OrderIsTopological
<1>2. CASE IndexError(sort.listing) = "none"
  <2>1. /\ Popping /\ sort.ready = {}
        /\ sort.error = IF Len(sort.ordered) # Cardinality(Known(sort.listing))
                        THEN "CycleError" ELSE "none"
    BY <1>2 DEF SortInv
  <2>2. /\ Circular <=> Len(sort.ordered) # Cardinality(Known(sort.listing))
        /\ sort.planned => ~Circular
        /\ DOMAIN sort.ordered = 1..Len(sort.ordered)
    BY <2>1, LeftOver
  <2>3. sort.error = IF Circular THEN "CycleError" ELSE "none"
    BY <2>1, <2>2
  <2>4. \A i \in DOMAIN sort.ordered :
           /\ sort.ordered[i] \in
                 {id \in Known(sort.listing) \ Before(i) : Deps(id) \subseteq Before(i)}
           /\ \A id \in {id \in Known(sort.listing) \ Before(i) : Deps(id) \subseteq Before(i)} :
                 sort.ordered[i] <= id
    BY <2>1, <2>2 DEF Popping, InPlace, Free
  <2> QED
    BY <1>2, <2>1, <2>2, <2>3, <2>4 DEF OrderIsTopological, Before
<1> QED
  BY <1>1, <1>2

-----------------------------------------------------------------------------
(* build_plan.                                                             *)
NamedTargets == [name : 0 .. 9, quantization : Quantizations]

(* Ranks are given to the quantized targets without a gap.                 *)
LEMMA RanksAreFull ==
    ASSUME NEW n \in Nat, NEW Q \in SUBSET (1..n)
    PROVE  /\ IsFiniteSet(Q) /\ Cardinality(Q) \in Nat
           /\ \A i \in Q : Cardinality(Q \intersect 1..i) \in 1..Cardinality(Q)
           /\ \A k \in 1..Cardinality(Q) : \E i \in Q : Cardinality(Q \intersect 1..i) = k
           /\ \A i, j \in Q : Cardinality(Q \intersect 1..i) = Cardinality(Q \intersect 1..j)
                                => i = j
<1> DEFINE m == Cardinality(Q)
           rank == [i \in Q |-> Cardinality(Q \intersect 1..i)]
<1>1. IsFiniteSet(1..n)
  BY FS_Interval
<1>2. IsFiniteSet(Q) /\ m \in Nat
  BY <1>1, FS_Subset, FS_CardinalityType
<1>3. \A i \in Q : /\ IsFiniteSet(Q \intersect 1..i) /\ rank[i] \in Nat
                   /\ rank[i] <= m /\ rank[i] # 0
  <2> SUFFICES ASSUME NEW i \in Q
               PROVE  /\ IsFiniteSet(Q \intersect 1..i) /\ rank[i] \in Nat
                      /\ rank[i] <= m /\ rank[i] # 0
    OBVIOUS
  <2>1. Q \intersect 1..i \in SUBSET Q /\ i \in Q \intersect 1..i
    OBVIOUS
  <2>2. IsFiniteSet(Q \intersect 1..i) /\ Cardinality(Q \intersect 1..i) <= m
    BY <1>2, <2>1, FS_Subset
  <2>3. Cardinality(Q \intersect 1..i) # 0 /\ Cardinality(Q \intersect 1..i) \in Nat
    BY <2>1, <2>2, FS_EmptySet, FS_CardinalityType
  <2> QED
    BY <2>2, <2>3
<1>4. \A i, j \in Q : i < j => rank[i] # rank[j]
  <2> SUFFICES ASSUME NEW i \in Q, NEW j \in Q, i < j PROVE rank[i] # rank[j]
    OBVIOUS
  <2>1. Q \intersect 1..i \in SUBSET (Q \intersect 1..j) /\ Q \intersect 1..i # Q \intersect 1..j
    OBVIOUS
  <2>2. Cardinality(Q \intersect 1..i) # Cardinality(Q \intersect 1..j)
    BY <1>3, <2>1, FS_Subset
  <2> QED
    BY <2>2
<1>5. \A i, j \in Q : rank[i] = rank[j] => i = j
  BY <1>4
<1>6. rank \in [Q -> 1..m]
  BY <1>2, <1>3
<1>7. rank \in Injection(Q, 1..m)
  BY <1>5, <1>6, Fun_IsInj
<1>8. IsFiniteSet(1..m) /\ Cardinality(1..m) = m
  BY <1>2, FS_Interval
<1>9. rank \in Surjection(Q, 1..m)
  BY <1>7, <1>8, FS_Injection
<1>10. \A k \in 1..m : \E i \in Q : rank[i] = k
  BY <1>9 DEF Surjection
<1> QED
  BY <1>2, <1>5, <1>6, <1>10

LEMMA QuantizedOnce ==
    ASSUME NEW targets \in Seq(NamedTargets)
    PROVE  /\ Cardinality(ToQuantize(targets)) \in Nat
           /\ \A k \in 1..Cardinality(ToQuantize(targets)) :
                 \E i \in ToQuantize(targets) :
                    /\ Cardinality(ToQuantize(targets) \intersect 1..i) = k
                    /\ Quantized(targets, k) = targets[i]
           /\ \A i \in ToQuantize(targets) :
                 \E k \in 1..Cardinality(ToQuantize(targets)) : Quantized(targets, k) = targets[i]
<1> DEFINE Q == ToQuantize(targets)
           rank(i) == Cardinality(Q \intersect 1..i)
<1>1. Len(targets) \in Nat /\ Q \in SUBSET (1..Len(targets))
  BY LenProperties DEF ToQuantize
<1> HIDE DEF Q
<1>2. /\ Cardinality(Q) \in Nat
      /\ \A i \in Q : rank(i) \in 1..Cardinality(Q)
      /\ \A k \in 1..Cardinality(Q) : \E i \in Q : rank(i) = k
      /\ \A i, j \in Q : rank(i) = rank(j) => i = j
  BY <1>1, RanksAreFull
<1>3. \A k \in 1..Cardinality(Q) : \E i \in Q : rank(i) = k /\ Quantized(targets, k) = targets[i]
  <2> SUFFICES ASSUME NEW k \in 1..Cardinality(Q)
               PROVE  \E i \in Q : rank(i) = k /\ Quantized(targets, k) = targets[i]
    OBVIOUS
  <2> DEFINE place == CHOOSE i \in Q : rank(i) = k
  <2>1. place \in Q /\ rank(place) = k
    BY <1>2
  <2>2. Quantized(targets, k) = targets[place]
    BY DEF Quantized, Q
  <2> HIDE DEF place, rank
  <2> QED
    BY <2>1, <2>2
<1>4. \A i \in Q : \E k \in 1..Cardinality(Q) : Quantized(targets, k) = targets[i]
  <2> HIDE DEF rank
  <2> QED
    BY <1>2, <1>3
<1> QED
  BY <1>2, <1>3, <1>4 DEF Q

(* Where the nodes of a plan stand.                                        *)
LEMMA PlanParts ==
    ASSUME NEW targets \in Seq(NamedTargets)
    PROVE  \E m \in Nat :
              /\ m = Cardinality(ToQuantize(targets))
              /\ BuildPlan(targets) \in Seq(SpecRecords)
              /\ DOMAIN BuildPlan(targets) = 1..2 + m + Len(targets)
              /\ BuildPlan(targets)[1] = [id |-> Source, deps |-> << >>]
              /\ BuildPlan(targets)[2] = [id |-> Convert, deps |-> <<Source>>]
              /\ \A k \in 1..m : BuildPlan(targets)[2 + k]
                    = [id |-> Quantize(Quantized(targets, k)), deps |-> <<Convert>>]
              /\ \A i \in 1..Len(targets) : BuildPlan(targets)[2 + m + i]
                    = [id |-> Smoke(targets[i]), deps |-> <<ArtifactNode(targets[i])>>]
<1> DEFINE m == Cardinality(ToQuantize(targets))
           n == Len(targets)
           spec(id, deps) == [id |-> id, deps |-> deps]
           A == <<spec(Source, << >>), spec(Convert, <<Source>>)>>
           B == [k \in 1..m |-> spec(Quantize(Quantized(targets, k)), <<Convert>>)]
           C == [i \in 1..n |-> spec(Smoke(targets[i]), <<ArtifactNode(targets[i])>>)]
<1>1. n \in Nat /\ DOMAIN targets = 1..n /\ targets \in [1..n -> NamedTargets]
  BY LenProperties
<1>2. m \in Nat /\ \A k \in 1..m : Quantized(targets, k) \in NamedTargets
  <2>1. ToQuantize(targets) \subseteq 1..n
    BY <1>1 DEF ToQuantize
  <2>2. m \in Nat /\ \A k \in 1..m : \E i \in 1..n : Quantized(targets, k) = targets[i]
    BY <2>1, QuantizedOnce
  <2> QED
    BY <1>1, <2>2
<1>3. \A id \in Nat, dep \in Nat : spec(id, <<dep>>) \in SpecRecords
  BY DEF SpecRecords
<1>4. \A t \in NamedTargets : Quantize(t) \in Nat /\ Smoke(t) \in Nat /\ ArtifactNode(t) \in Nat
  BY DEF NamedTargets, Quantize, Smoke, ArtifactNode, Convert
<1>5. Source \in Nat /\ Convert \in Nat
  BY DEF Source, Convert
<1>6. spec(Source, << >>) \in SpecRecords
  BY <1>5 DEF SpecRecords
<1>7. A \in Seq(SpecRecords) /\ Len(A) = 2 /\ A[1] = spec(Source, << >>)
      /\ A[2] = spec(Convert, <<Source>>)
  BY <1>3, <1>5, <1>6
<1>8. B \in [1..m -> SpecRecords]
  BY <1>2, <1>3, <1>4, <1>5
<1>9. C \in [1..n -> SpecRecords]
  BY <1>1, <1>3, <1>4
<1>10. B \in Seq(SpecRecords) /\ Len(B) = m
       /\ \A k \in 1..m : B[k] = spec(Quantize(Quantized(targets, k)), <<Convert>>)
  BY <1>2, <1>8
<1>11. C \in Seq(SpecRecords) /\ Len(C) = n
       /\ \A i \in 1..n : C[i] = spec(Smoke(targets[i]), <<ArtifactNode(targets[i])>>)
  BY <1>1, <1>9
<1>12. BuildPlan(targets) = (A \o B) \o C
  BY <1>1 DEF BuildPlan
<1> HIDE DEF A, B, C, m, n
<1>13. /\ A \o B \in Seq(SpecRecords) /\ Len(A \o B) = 2 + m
       /\ \A k \in 1..2 + m : (A \o B)[k] = IF k <= 2 THEN A[k] ELSE B[k - 2]
  <2>1. /\ A \o B \in Seq(SpecRecords) /\ Len(A \o B) = Len(A) + Len(B)
        /\ \A k \in 1..Len(A) + Len(B) : (A \o B)[k] = IF k <= Len(A) THEN A[k] ELSE B[k - Len(A)]
    BY <1>7, <1>10, ConcatProperties
  <2> QED
    BY <1>7, <1>10, <2>1
<1>14. /\ (A \o B) \o C \in Seq(SpecRecords) /\ Len((A \o B) \o C) = 2 + m + n
       /\ \A k \in 1..2 + m + n : ((A \o B) \o C)[k]
             = IF k <= 2 + m THEN (A \o B)[k] ELSE C[k - (2 + m)]
  <2> DEFINE AB == A \o B
  <2>1. AB \in Seq(SpecRecords) /\ Len(AB) = 2 + m
    BY <1>13
  <2> HIDE DEF AB
  <2>2. /\ AB \o C \in Seq(SpecRecords) /\ Len(AB \o C) = Len(AB) + Len(C)
        /\ \A k \in 1..Len(AB) + Len(C) :
              (AB \o C)[k] = IF k <= Len(AB) THEN AB[k] ELSE C[k - Len(AB)]
    BY <1>11, <2>1, ConcatProperties
  <2>3. /\ AB \o C \in Seq(SpecRecords) /\ Len(AB \o C) = 2 + m + n
        /\ \A k \in 1..2 + m + n : (AB \o C)[k]
              = IF k <= 2 + m THEN AB[k] ELSE C[k - (2 + m)]
    BY <1>11, <2>1, <2>2
  <2> QED
    BY <2>3 DEF AB
<1> DEFINE P == BuildPlan(targets)
<1> HIDE DEF P
<1>15. /\ P \in Seq(SpecRecords) /\ Len(P) = 2 + m + n
       /\ \A k \in 1..2 + m + n : P[k]
             = IF k <= 2 + m THEN (A \o B)[k] ELSE C[k - (2 + m)]
  BY <1>12, <1>14 DEF P
<1>16. DOMAIN P = 1..2 + m + n
  BY <1>15, LenProperties
<1>17. P[1] = A[1] /\ P[2] = A[2]
  <2>1. /\ 1 \in 1..2 + m + n /\ 2 \in 1..2 + m + n /\ 1 \in 1..2 + m /\ 2 \in 1..2 + m
        /\ 1 <= 2 + m /\ 2 <= 2 + m
    BY <1>1, <1>2
  <2>2. P[1] = (A \o B)[1] /\ P[2] = (A \o B)[2]
    BY <1>15, <2>1
  <2>3. (A \o B)[1] = A[1] /\ (A \o B)[2] = A[2]
    BY <1>13, <2>1
  <2> QED
    BY <2>2, <2>3
<1>18. \A k \in 1..m : P[2 + k] = B[k]
  <2> SUFFICES ASSUME NEW k \in 1..m PROVE P[2 + k] = B[k]
    OBVIOUS
  <2>1. 2 + k \in 1..2 + m /\ 2 + k \in 1..2 + m + n /\ ~(2 + k <= 2) /\ (2 + k) - 2 = k
        /\ 2 + k <= 2 + m
    BY <1>1, <1>2
  <2>2. P[2 + k] = (A \o B)[2 + k]
    BY <1>15, <2>1
  <2>3. (A \o B)[2 + k] = B[(2 + k) - 2]
    BY <1>13, <2>1
  <2> QED
    BY <2>1, <2>2, <2>3
<1>19. \A i \in 1..n : P[2 + m + i] = C[i]
  <2> SUFFICES ASSUME NEW i \in 1..n PROVE P[2 + m + i] = C[i]
    OBVIOUS
  <2>1. 2 + m + i \in 1..2 + m + n /\ ~(2 + m + i <= 2 + m) /\ (2 + m + i) - (2 + m) = i
    BY <1>1, <1>2
  <2>2. P[2 + m + i] = C[(2 + m + i) - (2 + m)]
    BY <1>15, <2>1
  <2> QED
    BY <2>1, <2>2
<1> HIDE DEF spec
<1>20. /\ P[1] = spec(Source, << >>) /\ P[2] = spec(Convert, <<Source>>)
       /\ \A k \in 1..m : P[2 + k] = spec(Quantize(Quantized(targets, k)), <<Convert>>)
       /\ \A i \in 1..n : P[2 + m + i] = spec(Smoke(targets[i]), <<ArtifactNode(targets[i])>>)
  BY <1>7, <1>10, <1>11, <1>17, <1>18, <1>19
<1> QED
  BY <1>2, <1>15, <1>16, <1>20 DEF P, m, n, spec

(* Every plan of a recipe with distinct names is well-formed and layered.  *)
LEMMA PlansAreLayered ==
    ASSUME NEW targets \in Seq(NamedTargets), UniqueNames(targets)
    PROVE  BuildPlan(targets) \in Seq(SpecRecords) /\ Layered(BuildPlan(targets))
<1> DEFINE P == BuildPlan(targets)
           n == Len(targets)
<1>1. PICK m \in Nat :
         /\ m = Cardinality(ToQuantize(targets))
         /\ P \in Seq(SpecRecords)
         /\ DOMAIN P = 1..2 + m + n
         /\ P[1] = [id |-> Source, deps |-> << >>]
         /\ P[2] = [id |-> Convert, deps |-> <<Source>>]
         /\ \A k \in 1..m : P[2 + k]
               = [id |-> Quantize(Quantized(targets, k)), deps |-> <<Convert>>]
         /\ \A i \in 1..n : P[2 + m + i]
               = [id |-> Smoke(targets[i]), deps |-> <<ArtifactNode(targets[i])>>]
  BY PlanParts
<1> HIDE DEF P
<1>2. n \in Nat /\ DOMAIN targets = 1..n /\ targets \in [1..n -> NamedTargets]
  BY LenProperties
<1>3. \A k \in 1..m : \E i \in ToQuantize(targets) :
         /\ Cardinality(ToQuantize(targets) \intersect 1..i) = k
         /\ Quantized(targets, k) = targets[i]
  BY <1>1, QuantizedOnce
<1>4. \A i \in ToQuantize(targets) : \E k \in 1..m : Quantized(targets, k) = targets[i]
  BY <1>1, QuantizedOnce
<1>5. ToQuantize(targets) \subseteq 1..n
  BY <1>2 DEF ToQuantize
<1>6. \A t \in NamedTargets : /\ t.name \in 0..9
                              /\ Quantize(t) = 10 + t.name /\ Smoke(t) = 20 + t.name
  BY DEF NamedTargets, Quantize, Smoke
<1>7. /\ \A x \in 0..9 : 10 + x \in 10..19 /\ 20 + x \in 20..29
      /\ \A x, y \in 0..9 : (10 + x = 10 + y => x = y) /\ (20 + x = 20 + y => x = y)
  OBVIOUS
<1>8. \A v : /\ v \in 10..19 => v # 30 /\ v # 5 /\ v \notin 20..29
             /\ v \in 20..29 => v # 30 /\ v # 5 /\ v \notin 10..19
  OBVIOUS
<1>9. \A i, j \in 1..n : targets[i].name = targets[j].name => i = j
  BY <1>2 DEF UniqueNames
(* The id of a place tells its kind, and its place among its kind.         *)
<1> DEFINE q(k) == Quantize(Quantized(targets, k))
<1>10. \A k \in 1..m : q(k) \in 10..19
  <2> SUFFICES ASSUME NEW k \in 1..m PROVE q(k) \in 10..19
    OBVIOUS
  <2>1. PICK i \in ToQuantize(targets) : Quantized(targets, k) = targets[i]
    BY <1>3
  <2>2. targets[i] \in NamedTargets
    BY <1>2, <1>5
  <2>3. targets[i].name \in 0..9 /\ Quantize(targets[i]) = 10 + targets[i].name
    BY <1>6, <2>2
  <2>4. q(k) = 10 + targets[i].name
    BY <2>1, <2>3
  <2> HIDE DEF q
  <2> QED
    BY <1>7, <2>3, <2>4
<1>11. \A k, l \in 1..m : q(k) = q(l) => k = l
  <2> SUFFICES ASSUME NEW k \in 1..m, NEW l \in 1..m, q(k) = q(l) PROVE k = l
    OBVIOUS
  <2>1. PICK i \in ToQuantize(targets) :
           /\ Cardinality(ToQuantize(targets) \intersect 1..i) = k
           /\ Quantized(targets, k) = targets[i]
    BY <1>3
  <2>2. PICK j \in ToQuantize(targets) :
           /\ Cardinality(ToQuantize(targets) \intersect 1..j) = l
           /\ Quantized(targets, l) = targets[j]
    BY <1>3
  <2>3. targets[i] \in NamedTargets /\ targets[j] \in NamedTargets
    BY <1>2, <1>5
  <2>4. targets[i].name \in 0..9 /\ targets[j].name \in 0..9
        /\ 10 + targets[i].name = 10 + targets[j].name
    BY <1>6, <2>1, <2>2, <2>3
  <2>5. targets[i].name = targets[j].name
    BY <1>7, <2>4
  <2>6. i = j
    BY <1>5, <1>9, <2>5
  <2> QED
    BY <2>1, <2>2, <2>6
<1>12. \A i \in 1..n : Smoke(targets[i]) \in 20..29
  BY <1>2, <1>6
<1>13. \A i, j \in 1..n : Smoke(targets[i]) = Smoke(targets[j]) => i = j
  <2> SUFFICES ASSUME NEW i \in 1..n, NEW j \in 1..n, Smoke(targets[i]) = Smoke(targets[j])
               PROVE  i = j
    OBVIOUS
  <2>1. targets[i].name \in 0..9 /\ targets[j].name \in 0..9
        /\ 20 + targets[i].name = 20 + targets[j].name
    BY <1>2, <1>6
  <2>2. targets[i].name = targets[j].name
    BY <1>7, <2>1
  <2> QED
    BY <1>9, <2>2
<1> HIDE DEF q
<1>14. /\ P[1].id = 30 /\ P[2].id = 5
       /\ \A k \in 1..m : P[2 + k].id = q(k)
       /\ \A i \in 1..n : P[2 + m + i].id = Smoke(targets[i])
  <2>1. P[1].id = 30 /\ P[2].id = 5
    BY <1>1 DEF Source, Convert
  <2>2. \A k \in 1..m : P[2 + k] = [id |-> q(k), deps |-> <<Convert>>]
    BY <1>1 DEF q
  <2>3. \A k \in 1..m : P[2 + k].id = q(k)
    <3> SUFFICES ASSUME NEW k \in 1..m PROVE P[2 + k].id = q(k)
      OBVIOUS
    <3>1. P[2 + k] = [id |-> q(k), deps |-> <<Convert>>]
      BY <2>2
    <3> QED
      BY <3>1
  <2>4. \A i \in 1..n : P[2 + m + i].id = Smoke(targets[i])
    <3> SUFFICES ASSUME NEW i \in 1..n PROVE P[2 + m + i].id = Smoke(targets[i])
      OBVIOUS
    <3>1. P[2 + m + i] = [id |-> Smoke(targets[i]), deps |-> <<ArtifactNode(targets[i])>>]
      BY <1>1
    <3> QED
      BY <3>1
  <2> QED
    BY <2>1, <2>3, <2>4
<1>15. \A x \in DOMAIN P : \/ x = 1 \/ x = 2 \/ (\E k \in 1..m : x = 2 + k)
                           \/ \E i \in 1..n : x = 2 + m + i
  <2> SUFFICES ASSUME NEW x \in 1..2 + m + n, x # 1, x # 2
               PROVE  (\E k \in 1..m : x = 2 + k) \/ \E i \in 1..n : x = 2 + m + i
    BY <1>1
  <2>1. CASE x <= 2 + m
    <3>1. x - 2 \in 1..m /\ x = 2 + (x - 2)
      BY <1>2, <2>1
    <3> QED
      BY <3>1
  <2>2. CASE ~(x <= 2 + m)
    <3>1. x - (2 + m) \in 1..n /\ x = 2 + m + (x - (2 + m))
      BY <1>2, <2>2
    <3> QED
      BY <3>1
  <2> QED
    BY <2>1, <2>2
<1>16. \A x \in DOMAIN P : /\ P[x].id = 30 => x = 1
                           /\ P[x].id = 5 => x = 2
                           /\ P[x].id \in 10..19 => \E k \in 1..m : x = 2 + k
                           /\ P[x].id \in 20..29 => \E i \in 1..n : x = 2 + m + i
                           /\ P[x].id \in {30, 5} \union 10..19 \union 20..29
  <2>1. /\ P[1].id = 30 /\ P[2].id = 5
        /\ \A k \in 1..m : P[2 + k].id \in 10..19
        /\ \A i \in 1..n : P[2 + m + i].id \in 20..29
    BY <1>10, <1>12, <1>14
  <2> SUFFICES ASSUME NEW x \in DOMAIN P
               PROVE  /\ P[x].id = 30 => x = 1
                      /\ P[x].id = 5 => x = 2
                      /\ P[x].id \in 10..19 => \E k \in 1..m : x = 2 + k
                      /\ P[x].id \in 20..29 => \E i \in 1..n : x = 2 + m + i
                      /\ P[x].id \in {30, 5} \union 10..19 \union 20..29
    OBVIOUS
  <2>2. CASE x = 1 \/ x = 2
    <3>1. 30 \notin 10..19 /\ 30 \notin 20..29 /\ 5 \notin 10..19 /\ 5 \notin 20..29 /\ 30 # 5
      OBVIOUS
    <3> QED
      BY <2>1, <2>2, <3>1
  <2>3. CASE \E k \in 1..m : x = 2 + k
    <3>1. P[x].id \in 10..19
      BY <2>1, <2>3
    <3> QED
      BY <1>8, <2>3, <3>1, Zenon
  <2>4. CASE \E i \in 1..n : x = 2 + m + i
    <3>1. P[x].id \in 20..29
      BY <2>1, <2>4
    <3> QED
      BY <1>8, <2>4, <3>1, Zenon
  <2> QED
    BY <1>15, <2>2, <2>3, <2>4
<1>17. \A x, y \in DOMAIN P : P[x].id = P[y].id => x = y
  <2> SUFFICES ASSUME NEW x \in DOMAIN P, NEW y \in DOMAIN P, P[x].id = P[y].id
               PROVE  x = y
    OBVIOUS
  <2>1. CASE P[x].id \in {30, 5}
    BY <1>16, <2>1
  <2>2. CASE P[x].id \in 10..19
    <3>1. PICK k \in 1..m : x = 2 + k
      BY <1>16, <2>2
    <3>2. PICK l \in 1..m : y = 2 + l
      BY <1>16, <2>2
    <3>3. P[2 + k].id = q(k) /\ P[2 + l].id = q(l)
      BY <1>14
    <3>4. q(k) = q(l)
      BY <3>1, <3>2, <3>3
    <3>5. k = l
      BY <1>11, <3>4
    <3> QED
      BY <3>1, <3>2, <3>5
  <2>3. CASE P[x].id \in 20..29
    <3>1. PICK i \in 1..n : x = 2 + m + i
      BY <1>16, <2>3
    <3>2. PICK j \in 1..n : y = 2 + m + j
      BY <1>16, <2>3
    <3>3. Smoke(targets[i]) = Smoke(targets[j])
      BY <1>14, <3>1, <3>2
    <3> QED
      BY <1>13, <3>1, <3>2, <3>3
  <2> QED
    BY <1>16, <2>1, <2>2, <2>3
(* What a place depends on.                                                *)
<1>18. \A dep : Elements(<<dep>>) = {dep} /\ DOMAIN <<dep>> = {1}
  BY DEF Elements
<1>19. Elements(<< >>) = {} /\ DOMAIN << >> = {}
  BY DEF Elements
<1>20. 30 \in Known(P) /\ 5 \in Known(P) /\ \A k \in 1..m : q(k) \in Known(P)
  <2>1. 1 \in DOMAIN P /\ 2 \in DOMAIN P /\ \A k \in 1..m : 2 + k \in DOMAIN P
    BY <1>1, <1>2
  <2> QED
    BY <1>14, <2>1 DEF Known
<1>21. \A i \in 1..n : \/ ArtifactNode(targets[i]) = 5
                       \/ \E k \in 1..m : ArtifactNode(targets[i]) = q(k)
  <2> SUFFICES ASSUME NEW i \in 1..n, ArtifactNode(targets[i]) # 5
               PROVE  \E k \in 1..m : ArtifactNode(targets[i]) = q(k)
    OBVIOUS
  <2>1. ArtifactNode(targets[i]) = Quantize(targets[i]) /\ i \in ToQuantize(targets)
    BY <1>2 DEF ArtifactNode, Convert, ToQuantize
  <2> QED
    BY <1>4, <2>1 DEF q
<1>22. \A x \in DOMAIN P :
          \/ P[x].id = 30 /\ P[x].deps = << >>
          \/ P[x].id = 5 /\ P[x].deps = <<30>>
          \/ P[x].id \in 10..19 /\ P[x].deps = <<5>>
          \/ P[x].id \in 20..29 /\ \E d \in {5} \union {q(k) : k \in 1..m} : P[x].deps = <<d>>
  <2> SUFFICES ASSUME NEW x \in DOMAIN P
               PROVE  \/ P[x].id = 30 /\ P[x].deps = << >>
                      \/ P[x].id = 5 /\ P[x].deps = <<30>>
                      \/ P[x].id \in 10..19 /\ P[x].deps = <<5>>
                      \/ /\ P[x].id \in 20..29
                         /\ \E d \in {5} \union {q(k) : k \in 1..m} : P[x].deps = <<d>>
    OBVIOUS
  <2>1. CASE x = 1
    BY <1>1, <1>14, <2>1
  <2>2. CASE x = 2
    BY <1>1, <1>14, <2>2 DEF Source
  <2>3. CASE \E k \in 1..m : x = 2 + k
    <3>1. PICK k \in 1..m : x = 2 + k
      BY <2>3
    <3>2. P[2 + k].id = q(k) /\ P[2 + k].deps = <<Convert>>
      <4>1. P[2 + k] = [id |-> Quantize(Quantized(targets, k)), deps |-> <<Convert>>]
        BY <1>1
      <4> QED
        BY <1>14, <4>1
    <3>3. P[x].id = q(k) /\ P[x].deps = <<5>>
      BY <3>1, <3>2 DEF Convert
    <3> QED
      BY <1>10, <3>3
  <2>4. CASE \E i \in 1..n : x = 2 + m + i
    <3>1. PICK i \in 1..n : x = 2 + m + i
      BY <2>4
    <3>2. P[2 + m + i].id = Smoke(targets[i])
          /\ P[2 + m + i].deps = <<ArtifactNode(targets[i])>>
      <4>1. P[2 + m + i] = [id |-> Smoke(targets[i]), deps |-> <<ArtifactNode(targets[i])>>]
        BY <1>1
      <4> QED
        BY <4>1
    <3>3. ArtifactNode(targets[i]) \in {5} \union {q(k) : k \in 1..m}
      BY <1>21
    <3> QED
      BY <1>12, <3>1, <3>2, <3>3
  <2> QED
    BY <1>15, <2>1, <2>2, <2>3, <2>4
<1>23. \A x \in DOMAIN P : /\ ~Doubles(P[x])
                           /\ Elements(P[x].deps) \subseteq Known(P)
                           /\ \A dep \in Elements(P[x].deps) : Layer(dep) < Layer(P[x].id)
  <2> SUFFICES ASSUME NEW x \in DOMAIN P
               PROVE  /\ ~Doubles(P[x])
                      /\ Elements(P[x].deps) \subseteq Known(P)
                      /\ \A dep \in Elements(P[x].deps) : Layer(dep) < Layer(P[x].id)
    OBVIOUS
  <2>1. \/ P[x].deps = << >>
        \/ /\ P[x].id = 5 /\ P[x].deps = <<30>>
        \/ /\ P[x].id \in 10..19 /\ P[x].deps = <<5>>
        \/ /\ P[x].id \in 20..29
           /\ \E d \in {5} \union {q(k) : k \in 1..m} : P[x].deps = <<d>>
    BY <1>22
  <2>2. CASE P[x].deps = << >>
    BY <1>19, <2>2 DEF Doubles
  <2>3. ASSUME NEW d \in Known(P), P[x].deps = <<d>>, Layer(d) < Layer(P[x].id)
        PROVE  /\ ~Doubles(P[x])
               /\ Elements(P[x].deps) \subseteq Known(P)
               /\ \A dep \in Elements(P[x].deps) : Layer(dep) < Layer(P[x].id)
    BY <1>18, <2>3 DEF Doubles
  <2>4. CASE P[x].id = 5 /\ P[x].deps = <<30>>
    BY <1>20, <2>3, <2>4 DEF Layer, Source, Convert
  <2>5. CASE P[x].id \in 10..19 /\ P[x].deps = <<5>>
    BY <1>20, <2>3, <2>5 DEF Layer, Source, Convert
  <2>6. CASE P[x].id \in 20..29 /\ \E d \in {5} \union {q(k) : k \in 1..m} : P[x].deps = <<d>>
    <3>1. PICK d \in {5} \union {q(k) : k \in 1..m} : P[x].deps = <<d>>
      BY <2>6
    <3>2. d \in Known(P) /\ (d = 5 \/ d \in 10..19)
      BY <1>10, <1>20
    <3>3. Layer(d) < Layer(P[x].id)
      BY <2>6, <3>2 DEF Layer, Source, Convert
    <3> QED
      BY <2>3, <3>1, <3>2, <3>3
  <2> QED
    BY <2>1, <2>2, <2>4, <2>5, <2>6
<1>24. \A x \in DOMAIN P : ~Repeats(P, x)
  <2> SUFFICES ASSUME NEW x \in DOMAIN P, NEW y \in 1..x - 1, P[y].id = P[x].id
               PROVE  FALSE
    BY DEF Repeats
  <2>1. y \in DOMAIN P /\ y # x
    BY <1>1, <1>2
  <2> QED
    BY <1>17, <2>1
<1>25. IndexError(P) = "none"
  BY <1>23, <1>24, NoIndexError
<1> QED
  BY <1>1, <1>23, <1>25 DEF P, Layered

-----------------------------------------------------------------------------
(* Orders in a session.                                                    *)
(* A tour, and the sort it may be in the middle of.                        *)
Demos == {"absent", "missing", "torn", "good", "edited"}

TourSet == [pc : {"idle", "prepare", "write", "look", "sort", "build", "compare"},
            story : Stories, left : Seq(Nat), planned : {"none"} \union Demos, exit : ExitCodes]

TourRecs == tour \in TourSet /\ demo \in Demos

LEMMA SortUnchanged == ASSUME SortInv, UNCHANGED sort PROVE SortInv'
<1>1. sort' = sort
  OBVIOUS
<1>2. /\ \A n : Deps(n)' = Deps(n)
      /\ Done' = Done /\ \A i : Before(i)' = Before(i)
  BY <1>1 DEF Deps, SpecOf, Done, Before
<1>3. Free(Done)' = Free(Done) /\ \A i : Free(Before(i))' = Free(Before(i))
  BY <1>1, <1>2 DEF Free
<1>4. \A i : InPlace(i)' <=> InPlace(i)
  BY <1>1, <1>3 DEF InPlace
<1>5. \A n : Cardinality(Deps(n) \ Done)' = Cardinality(Deps(n) \ Done)
  BY <1>2
<1>6. Popping' <=> Popping
  BY <1>1, <1>2, <1>3, <1>4, <1>5 DEF Popping
<1> QED
  BY <1>1, <1>6 DEF SortInv

LEMMA SortStepInv == ASSUME SortInv, SortStep PROVE SortInv'
BY IndexNodesInv, PopReadyInv, EndSortInv DEF SortStep

LEMMA SortLeft ==
    ASSUME SortInv, UNCHANGED sort \/ sort' = NotSorting
    PROVE  SortInv'
<1>1. CASE UNCHANGED sort
  BY <1>1, SortUnchanged
<1>2. CASE sort' = NotSorting
  <2>1. NotSorting.pc = "idle" /\ NotSorting.planned = FALSE
    BY DEF NotSorting
  <2> QED
    BY <1>2, <2>1, IdleSorts DEF SortInv
<1> QED
  BY <1>1, <1>2

LEMMA BuiltInPlans ==
    ASSUME NEW story \in Stories
    PROVE  /\ BuiltIn[story] \in Seq(NamedTargets) /\ UniqueNames(BuiltIn[story])
           /\ Plan(story) \in Seq(SpecRecords) /\ Layered(Plan(story))
<1>1. Q4 \in NamedTargets /\ Q8 \in NamedTargets /\ Q4.name # Q8.name
  BY DEF Q4, Q8, NamedTargets, Quantizations
<1>2. <<Q4>> \in Seq(NamedTargets) /\ <<Q4, Q8>> \in Seq(NamedTargets)
  BY <1>1
<1>3. UniqueNames(<<Q4>>) /\ UniqueNames(<<Q4, Q8>>)
  BY <1>1 DEF UniqueNames
<1>4. BuiltIn[story] = <<Q4>> \/ BuiltIn[story] = <<Q4, Q8>>
  BY DEF BuiltIn, Stories
<1>5. BuiltIn[story] \in Seq(NamedTargets) /\ UniqueNames(BuiltIn[story])
  BY <1>2, <1>3, <1>4
<1> QED
  BY <1>5, PlansAreLayered DEF Plan

LEMMA TourSorts ==
    ASSUME SortInv, TourRecs, TourStepOrOwner PROVE SortInv'
<1> USE DEF TourStepOrOwner, TourStep
<1>1. CASE BeginBuild
  BY <1>1, BuiltInPlans, StartSortInv DEF BeginBuild, TourRecs, TourSet
<1>2. CASE OrderNodes
  BY <1>2, SortStepInv DEF OrderNodes
<1>3. CASE FirstManifest \/ InterruptTour \/ KillTour
  BY <1>3, SortLeft DEF FirstManifest, InterruptTour, KillTour, Stops
<1>4. CASE PrepareWrites \/ PrepareWritten \/ PrepareFinds \/ LoadRefuses \/ ReuseRun \/ RefuseRun
  BY <1>4, SortLeft DEF PrepareWrites, PrepareWritten, PrepareFinds, LoadRefuses, ReuseRun,
     RefuseRun
<1>5. CASE BuildNode \/ FinishBuild \/ PrintDiff
  BY <1>5, SortLeft DEF BuildNode, FinishBuild, PrintDiff
<1>6. CASE \/ EditInput \/ RemoveInput \/ UpgradePackage \/ NewRunRoot
           \/ \E entry \in entries : SpoilEntry(entry)
  BY <1>6, SortLeft DEF EditInput, RemoveInput, UpgradePackage, NewRunRoot, SpoilEntry, OwnerActs
<1> QED
  BY <1>1, <1>2, <1>3, <1>4, <1>5, <1>6

LEMMA TourRecords ==
    ASSUME SortInv, TourRecs, TourStepOrOwner PROVE TourRecs'
<1>1. /\ tour \in TourSet /\ demo \in Demos /\ tour.left \in Seq(Nat)
      /\ \A label \in {"idle", "prepare", "write", "look", "sort", "build", "compare"} :
            At(label) \in TourSet
  BY DEF TourRecs, TourSet, At
<1>2. << >> \in Seq(Nat)
  OBVIOUS
<1>3. \A code \in ExitCodes : Exit(code) \in TourSet
  BY <1>2 DEF Exit, NoTour, TourSet, Stories
<1>4. \A story \in Stories : AfterStory(story) \in TourSet
  BY <1>1 DEF AfterStory, TourSet, Stories
<1>5. {"usage", "io", "traceback", "build failed", "ok", "interrupted",
"killed"} \subseteq ExitCodes
  BY DEF ExitCodes
<1>6. ASSUME tour' \in TourSet, UNCHANGED demo \/ demo' \in Demos PROVE TourRecs'
  BY <1>6 DEF TourRecs
<1>7. CASE PrepareWrites \/ PrepareWritten \/ PrepareFinds
  <2>1. demo' \in Demos
    BY <1>1, <1>7 DEF PrepareWrites, PrepareWritten, PrepareFinds, Demos
  <2>2. tour' \in TourSet
    BY <1>1, <1>3, <1>5, <1>7 DEF PrepareWrites, PrepareWritten, PrepareFinds
  <2> QED
    BY <1>6, <2>1, <2>2
<1>8. CASE LoadRefuses \/ ReuseRun \/ RefuseRun
  <2>1. tour.story \in Stories
    BY <1>1 DEF TourSet
  <2>2. tour' \in TourSet
    BY <1>3, <1>4, <1>5, <1>8, <2>1 DEF LoadRefuses, ReuseRun, RefuseRun
  <2> QED
    BY <1>6, <1>8, <2>2 DEF LoadRefuses, ReuseRun, RefuseRun
<1>9. CASE BeginBuild
  <2>1. tour' = [tour EXCEPT !.pc = "sort", !.planned = demo] /\ UNCHANGED demo
    BY <1>9 DEF BeginBuild
  <2>2. tour' \in TourSet
    BY <1>1, <2>1 DEF TourSet
  <2> QED
    BY <1>6, <2>1, <2>2
<1>10. CASE OrderNodes
  BY <1>1, <1>10, <1>6 DEF OrderNodes, tourVars
<1>11. CASE FirstManifest
  <2>1. sort.ordered \in Seq(Nat)
    BY DEF SortInv, SortSet
  <2>2. [tour EXCEPT !.pc = "build", !.left = sort.ordered] \in TourSet
    BY <1>1, <2>1 DEF TourSet
  <2>3. tour' \in TourSet /\ UNCHANGED demo
    BY <1>3, <1>5, <1>11, <2>2 DEF FirstManifest
  <2> QED
    BY <1>6, <2>3
<1>12. CASE BuildNode
  <2>1. tour.left # << >> /\ tour' = [tour EXCEPT !.left = Tail(tour.left)] /\ UNCHANGED demo
    BY <1>12 DEF BuildNode, Record
  <2>2. Tail(tour.left) \in Seq(Nat)
    BY <1>1, <2>1
  <2>3. tour' \in TourSet
    BY <1>1, <2>1, <2>2 DEF TourSet
  <2> QED
    BY <1>6, <2>1, <2>3
<1>13. CASE FinishBuild \/ PrintDiff
  <2>1. tour.story \in Stories
    BY <1>1 DEF TourSet
  <2>2. tour' \in TourSet /\ UNCHANGED demo
    BY <1>3, <1>4, <1>5, <1>13, <2>1 DEF FinishBuild, PrintDiff
  <2> QED
    BY <1>6, <2>2
<1>14. CASE InterruptTour \/ KillTour
  BY <1>3, <1>5, <1>14, <1>6 DEF InterruptTour, KillTour, Stops
<1>15. CASE \/ EditInput \/ RemoveInput \/ UpgradePackage \/ NewRunRoot
            \/ \E entry \in entries : SpoilEntry(entry)
  <2>1. UNCHANGED tour /\ (UNCHANGED demo \/ demo' \in Demos)
    BY <1>15 DEF EditInput, RemoveInput, UpgradePackage, NewRunRoot, SpoilEntry, OwnerActs, Demos
  <2> QED
    BY <1>1, <1>6, <2>1
<1> QED
  BY <1>7, <1>9, <1>10, <1>11, <1>12, <1>13, <1>14, <1>15, <1>8 DEF TourStepOrOwner, TourStep

LEMMA DispatchSorts ==
    ASSUME SortInv, NEW p \in Procs, Dispatch(p) PROVE SortInv'
<1>1. CASE \E recipe \in Recipes : LoadConfig(recipe) /\ StartSort(BuildPlan(recipe.targets), TRUE)
  <2>1. PICK recipe \in Recipes : LoadConfig(recipe) /\ StartSort(BuildPlan(recipe.targets), TRUE)
    BY <1>1
  <2>2. PICK k \in Nat : recipe.targets \in [1..k -> Targets]
    BY <2>1, PlanAssumption DEF Recipes, SeqsUpTo
  <2>3. Targets \subseteq NamedTargets
    BY PlanAssumption DEF Targets, NamedTargets
  <2>4. recipe.targets \in Seq(NamedTargets)
    BY <2>2, <2>3
  <2>5. UniqueNames(recipe.targets)
    BY <2>1 DEF LoadConfig
  <2>6. BuildPlan(recipe.targets) \in Seq(SpecRecords) /\ Layered(BuildPlan(recipe.targets))
    BY <2>4, <2>5, PlansAreLayered
  <2> QED
    BY <2>1, <2>6, StartSortInv
<1>2. CASE \E listing \in SeqsUpTo(NodeSpecs, MaxNodes) : StartSort(listing, FALSE)
  <2>1. PICK listing \in SeqsUpTo(NodeSpecs, MaxNodes) : StartSort(listing, FALSE)
    BY <1>2
  <2>2. PICK k \in Nat : listing \in [1..k -> NodeSpecs]
    BY <2>1, PlanAssumption DEF SeqsUpTo
  <2>3. ASSUME NEW s \in NodeSpecs PROVE s \in SpecRecords
    <3>1. s \in [id : GraphIds, deps : SeqsUpTo(GraphIds, 2)] /\ GraphIds \subseteq Nat
      BY <2>3, PlanAssumption DEF NodeSpecs
    <3>2. s.deps \in SeqsUpTo(GraphIds, 2)
      BY <3>1
    <3>3. PICK l \in 0..2 : s.deps \in [1..l -> GraphIds]
      BY <3>2 DEF SeqsUpTo
    <3>4. s.deps \in [1..l -> Nat]
      BY <3>1, <3>3
    <3>5. s.deps \in Seq(Nat)
      BY <3>4
    <3> QED
      BY <3>1, <3>5 DEF SpecRecords
  <2>4. listing \in Seq(SpecRecords)
    BY <2>2, <2>3
  <2> QED
    BY <2>1, <2>4, StartSortInv
<1>3. CASE UNCHANGED sort
  BY <1>3, SortUnchanged
<1> QED
  BY <1>1, <1>2, <1>3 DEF Dispatch, StartTour

OrderInv == SortInv /\ TourRecs

LEMMA OrderInitInv == CommandInit => OrderInv
<1> SUFFICES ASSUME CommandInit PROVE OrderInv
  OBVIOUS
<1>1. SortInv
  BY IdleSortInv DEF CommandInit, SortInit
<1>2. << >> \in Seq(Nat)
  OBVIOUS
<1>3. TourRecs
  BY <1>2 DEF CommandInit, TourInit, TourRecs, TourSet, NoTour, Stories, ExitCodes, Demos
<1> QED
  BY <1>1, <1>3 DEF OrderInv

LEMMA OrderStepInv ==
    ASSUME OrderInv, [CommandNext]_commandVars PROVE OrderInv'
<1>1. SortInv /\ TourRecs
  BY DEF OrderInv
<1>2. CASE UNCHANGED tourVars
  <2>1. TourRecs'
    BY <1>1, <1>2 DEF TourRecs, tourVars
  <2>2. UNCHANGED commandVars => UNCHANGED sort
    BY DEF commandVars
  <2>3. ASSUME NEW p \in Procs,
               MainStarts(p) \/ GiveNotice(p) \/ PlanRefused(p) \/ MainEnds(p)
               \/ NoticeRaises(p) \/ NoticeCutShort(p)
        PROVE  UNCHANGED sort \/ sort' = NotSorting
    BY <2>3 DEF MainStarts, GiveNotice, Notices, PlanRefused, MainEnds, NoticeRaises, NoticeCutShort
  <2>4. ASSUME NEW p \in Procs, Dispatch(p) PROVE SortInv'
    BY <1>1, <2>4, DispatchSorts
  <2>5. Notices \/ Tools \/ ReleaseStep => UNCHANGED sort
    BY DEF Notices, Tools, ReleaseStep
  <2>6. SortPlan => SortInv'
    BY <1>1, SortStepInv DEF SortPlan
  <2>7. TourStepOrOwner => SortInv'
    BY <1>1, TourSorts
  <2>8. SortInv'
    <3>1. (UNCHANGED sort \/ sort' = NotSorting) => SortInv'
      BY <1>1, SortLeft
    <3> QED
      BY <2>2, <2>3, <2>4, <2>5, <2>6, <2>7, <3>1 DEF CommandNext, CommandStep, Sessions, OrderInv
  <2> QED
    BY <2>1, <2>8 DEF OrderInv
<1>3. CASE ~UNCHANGED tourVars
  <2>1. CASE TourStepOrOwner
    BY <1>1, <2>1, TourSorts, TourRecords DEF OrderInv
  <2>2. CASE \E p \in Procs : Dispatch(p)
    <3>1. PICK p \in Procs : Dispatch(p)
      BY <2>2
    <3>2. StartTour
      BY <1>3, <3>1 DEF Dispatch
    <3>3. tour' = [NoTour EXCEPT !.pc = "prepare"] /\ UNCHANGED demo
      BY <3>2 DEF StartTour
    <3>4. << >> \in Seq(Nat)
      OBVIOUS
    <3>5. tour' \in TourSet
      BY <3>3, <3>4 DEF NoTour, TourSet, Stories, ExitCodes
    <3>6. TourRecs'
      BY <1>1, <3>3, <3>5 DEF TourRecs
    <3> QED
      BY <1>1, <3>1, <3>6, DispatchSorts DEF OrderInv
  <2>3. TourStepOrOwner \/ \E p \in Procs : Dispatch(p)
    BY <1>3 DEF CommandNext, CommandStep, Sessions, MainStarts, GiveNotice, Notices, PlanRefused,
       MainEnds, NoticeRaises, NoticeCutShort, Tools, ReleaseStep, SortPlan, commandVars
  <2> QED
    BY <2>1, <2>2, <2>3
<1> QED
  BY <1>2, <1>3

(* A plan of either sort, of any size, is ordered by the least node whose  *)
(* dependencies are all there; it is refused exactly when it is malformed  *)
(* or circular, and the plan of a recipe never is.                         *)
THEOREM OrdersAreTopological == CommandSpec => []OrderIsTopological
<1>1. CommandInit => OrderInv
  BY OrderInitInv
<1>2. OrderInv /\ [CommandNext]_commandVars => OrderInv'
  BY OrderStepInv
<1>3. OrderInv => OrderIsTopological
  BY SortedInvOrder DEF OrderInv
<1> QED
  BY <1>1, <1>2, <1>3, PTL DEF CommandSpec


-----------------------------------------------------------------------------
(* The two stories of the tour.                                            *)
PlanIds(story) == {spec.id : spec \in Elements(Plan(story))}

(* What a node of either plan depends on.                                  *)
Dep(id) == IF id = Source THEN {} ELSE IF id = Convert THEN {Source}
           ELSE IF id < 20 THEN {Convert} ELSE {id - 10}

LEMMA BaselinePlan ==
    Elements(Plan("baseline")) = {[id |-> 30, deps |-> << >>], [id |-> 5, deps |-> <<30>>],
                                  [id |-> 11, deps |-> <<5>>], [id |-> 21, deps |-> <<11>>]}
<1> DEFINE t == <<Q4>>
           P == BuildPlan(t)
<1>1. Q4 \in NamedTargets /\ t \in Seq(NamedTargets) /\ Len(t) = 1 /\ DOMAIN t = {1} /\ t[1] = Q4
  BY DEF Q4, NamedTargets, Quantizations
<1>2. ToQuantize(t) = {1}
  BY <1>1 DEF ToQuantize, Q4
<1>3. Cardinality({1}) = 1
  BY FS_Singleton
<1>4. Quantized(t, 1) = Q4
  <2> HIDE DEF t
  <2> DEFINE place == CHOOSE i \in {1} : Cardinality({1} \intersect 1..i) = 1
  <2>1. {1} \intersect 1..1 = {1}
    OBVIOUS
  <2>2. place = 1
    BY <1>3, <2>1
  <2>3. Quantized(t, 1) = t[place]
    BY <1>2 DEF Quantized
  <2> HIDE DEF place
  <2> QED
    BY <1>1, <2>2, <2>3
<1>5. /\ DOMAIN P = 1..4
      /\ P[1] = [id |-> 30, deps |-> << >>] /\ P[2] = [id |-> 5, deps |-> <<30>>]
      /\ P[3] = [id |-> Quantize(Q4), deps |-> <<5>>]
      /\ P[4] = [id |-> Smoke(Q4), deps |-> <<ArtifactNode(Q4)>>]
  <2>1. PICK m \in Nat :
           /\ m = Cardinality(ToQuantize(t))
           /\ DOMAIN P = 1..2 + m + Len(t)
           /\ P[1] = [id |-> Source, deps |-> << >>]
           /\ P[2] = [id |-> Convert, deps |-> <<Source>>]
           /\ \A k \in 1..m : P[2 + k]
                 = [id |-> Quantize(Quantized(t, k)), deps |-> <<Convert>>]
           /\ \A i \in 1..Len(t) : P[2 + m + i]
                 = [id |-> Smoke(t[i]), deps |-> <<ArtifactNode(t[i])>>]
    BY <1>1, PlanParts
  <2> HIDE DEF P, t
  <2>2. m = 1
    BY <1>2, <1>3, <2>1
  <2>3. 1 \in 1..m /\ 1 \in 1..Len(t) /\ 2 + 1 = 3 /\ 2 + m + 1 = 4 /\ 2 + m + Len(t) = 4
    BY <1>1, <2>2
  <2>4. P[2 + 1] = [id |-> Quantize(Quantized(t, 1)), deps |-> <<Convert>>]
    BY <2>1, <2>3
  <2>5. P[2 + m + 1] = [id |-> Smoke(t[1]), deps |-> <<ArtifactNode(t[1])>>]
    BY <2>1, <2>3
  <2> QED
    BY <1>1, <1>4, <2>1, <2>3, <2>4, <2>5 DEF Source, Convert
<1>6. Quantize(Q4) = 11 /\ Smoke(Q4) = 21 /\ ArtifactNode(Q4) = 11
  BY DEF Quantize, Smoke, ArtifactNode, Q4
<1>7. Plan("baseline") = P
  BY DEF Plan, BuiltIn
<1> HIDE DEF P, t
<1>8. 1..4 = {1, 2, 3, 4}
  OBVIOUS
<1>9. Elements(P) = {P[1], P[2], P[3], P[4]}
  BY <1>5, <1>8 DEF Elements
<1> QED
  BY <1>5, <1>6, <1>7, <1>9

LEMMA CandidatePlan ==
    Elements(Plan("candidate")) = {[id |-> 30, deps |-> << >>], [id |-> 5, deps |-> <<30>>],
                                   [id |-> 11, deps |-> <<5>>], [id |-> 12, deps |-> <<5>>],
                                   [id |-> 21, deps |-> <<11>>], [id |-> 22, deps |-> <<12>>]}
<1> DEFINE t == <<Q4, Q8>>
           P == BuildPlan(t)
<1>1. /\ Q4 \in NamedTargets /\ Q8 \in NamedTargets /\ t \in Seq(NamedTargets) /\ Len(t) = 2
      /\ DOMAIN t = {1, 2} /\ t[1] = Q4 /\ t[2] = Q8
  BY DEF Q4, Q8, NamedTargets, Quantizations
<1>2. ToQuantize(t) = {1, 2}
  BY <1>1 DEF ToQuantize, Q4, Q8
<1>3. Cardinality({1}) = 1 /\ Cardinality({1, 2}) = 2
  <2>1. IsFiniteSet({1}) /\ Cardinality({1}) = 1 /\ 2 \notin {1} /\ {1} \union {2} = {1, 2}
    BY FS_Singleton
  <2>2. Cardinality({1} \union {2}) = Cardinality({1}) + 1
    BY <2>1, FS_AddElement
  <2> QED
    BY <2>1, <2>2
<1>4. {1, 2} \intersect 1..1 = {1} /\ {1, 2} \intersect 1..2 = {1, 2}
  OBVIOUS
<1>5. Quantized(t, 1) = Q4 /\ Quantized(t, 2) = Q8
  <2> HIDE DEF t
  <2>1. ASSUME NEW k \in {1, 2} PROVE Quantized(t, k) = t[k]
    <3> DEFINE place == CHOOSE i \in {1, 2} : Cardinality({1, 2} \intersect 1..i) = k
    <3>1. place \in {1, 2} /\ Cardinality({1, 2} \intersect 1..place) = k
      BY <1>3, <1>4
    <3>2. Quantized(t, k) = t[place]
      BY <1>2 DEF Quantized
    <3> HIDE DEF place
    <3>3. place = k
      BY <1>3, <1>4, <3>1
    <3> QED
      BY <3>2, <3>3
  <2> QED
    BY <1>1, <2>1
<1>6. /\ DOMAIN P = 1..6
      /\ P[1] = [id |-> 30, deps |-> << >>] /\ P[2] = [id |-> 5, deps |-> <<30>>]
      /\ P[3] = [id |-> Quantize(Q4), deps |-> <<5>>]
      /\ P[4] = [id |-> Quantize(Q8), deps |-> <<5>>]
      /\ P[5] = [id |-> Smoke(Q4), deps |-> <<ArtifactNode(Q4)>>]
      /\ P[6] = [id |-> Smoke(Q8), deps |-> <<ArtifactNode(Q8)>>]
  <2>1. PICK m \in Nat :
           /\ m = Cardinality(ToQuantize(t))
           /\ DOMAIN P = 1..2 + m + Len(t)
           /\ P[1] = [id |-> Source, deps |-> << >>]
           /\ P[2] = [id |-> Convert, deps |-> <<Source>>]
           /\ \A k \in 1..m : P[2 + k]
                 = [id |-> Quantize(Quantized(t, k)), deps |-> <<Convert>>]
           /\ \A i \in 1..Len(t) : P[2 + m + i]
                 = [id |-> Smoke(t[i]), deps |-> <<ArtifactNode(t[i])>>]
    BY <1>1, PlanParts
  <2> HIDE DEF P, t
  <2>2. m = 2
    BY <1>2, <1>3, <2>1
  <2>3. /\ 1 \in 1..m /\ 1 \in 1..Len(t) /\ 2 \in 1..m /\ 2 \in 1..Len(t)
        /\ 2 + 1 = 3 /\ 2 + 2 = 4 /\ 2 + m + 1 = 5 /\ 2 + m + 2 = 6 /\ 2 + m + Len(t) = 6
    BY <1>1, <2>2
  <2>4. /\ P[2 + 1] = [id |-> Quantize(Quantized(t, 1)), deps |-> <<Convert>>]
        /\ P[2 + 2] = [id |-> Quantize(Quantized(t, 2)), deps |-> <<Convert>>]
    BY <2>1, <2>3
  <2>5. /\ P[2 + m + 1] = [id |-> Smoke(t[1]), deps |-> <<ArtifactNode(t[1])>>]
        /\ P[2 + m + 2] = [id |-> Smoke(t[2]), deps |-> <<ArtifactNode(t[2])>>]
    BY <2>1, <2>3
  <2> QED
    BY <1>1, <1>5, <2>1, <2>3, <2>4, <2>5 DEF Source, Convert
<1>7. /\ Quantize(Q4) = 11 /\ Smoke(Q4) = 21 /\ ArtifactNode(Q4) = 11
      /\ Quantize(Q8) = 12 /\ Smoke(Q8) = 22 /\ ArtifactNode(Q8) = 12
  BY DEF Quantize, Smoke, ArtifactNode, Q4, Q8
<1>8. Plan("candidate") = P
  BY DEF Plan, BuiltIn
<1> HIDE DEF P, t
<1>9. 1..6 = {1, 2, 3, 4, 5, 6}
  OBVIOUS
<1>10. Elements(P) = {P[1], P[2], P[3], P[4], P[5], P[6]}
  BY <1>6, <1>9 DEF Elements
<1> QED
  BY <1>6, <1>7, <1>8, <1>10

LEMMA PlanTables ==
    /\ PlanIds("baseline") = {30, 5, 11, 21} /\ PlanIds("candidate") = {30, 5, 11, 12, 21, 22}
    /\ \A story \in Stories : \A id \in PlanIds(story) : DepsOf(story, id) = Dep(id)
    /\ \A story \in Stories : \A spec \in Elements(Plan(story)) : Elements(spec.deps) = Dep(spec.id)
<1> DEFINE N(id, deps) == [id |-> id, deps |-> deps]
<1>1. Elements(Plan("baseline")) = {N(30, << >>), N(5, <<30>>), N(11, <<5>>), N(21, <<11>>)}
  BY BaselinePlan
<1>2. Elements(Plan("candidate")) = {N(30, << >>), N(5, <<30>>), N(11, <<5>>), N(12, <<5>>),
                                     N(21, <<11>>), N(22, <<12>>)}
  BY CandidatePlan
<1>3. \A id, deps : N(id, deps).id = id /\ N(id, deps).deps = deps
  OBVIOUS
<1> HIDE DEF N
<1>4. PlanIds("baseline") = {30, 5, 11, 21} /\ PlanIds("candidate") = {30, 5, 11, 12, 21, 22}
  <2>1. PlanIds("baseline") = {30, 5, 11, 21}
    BY <1>1, <1>3 DEF PlanIds
  <2>2. PlanIds("candidate") = {30, 5, 11, 12, 21, 22}
    BY <1>2, <1>3 DEF PlanIds
  <2> QED
    BY <2>1, <2>2
<1>5. Elements(<< >>) = {} /\ \A dep : Elements(<<dep>>) = {dep}
  BY DEF Elements
<1>6. /\ Dep(30) = {} /\ Dep(5) = {30} /\ Dep(11) = {5} /\ Dep(12) = {5} /\ Dep(21) = {11}
      /\ Dep(22) = {12}
  BY DEF Dep, Source, Convert
<1> DEFINE Fits(spec) == Elements(spec.deps) = Dep(spec.id)
<1>7. ASSUME NEW id, NEW dep, Dep(id) = {dep} PROVE Fits(N(id, <<dep>>))
  <2>1. N(id, <<dep>>).id = id /\ N(id, <<dep>>).deps = <<dep>> /\ Elements(<<dep>>) = {dep}
    BY <1>5, <1>3
  <2> QED
    BY <1>7, <2>1
<1>8. Fits(N(30, << >>))
  <2>1. N(30, << >>).id = 30 /\ N(30, << >>).deps = << >>
    BY <1>3
  <2> QED
    BY <1>5, <1>6, <2>1
<1>9. /\ Fits(N(5, <<30>>)) /\ Fits(N(11, <<5>>)) /\ Fits(N(12, <<5>>)) /\ Fits(N(21, <<11>>))
      /\ Fits(N(22, <<12>>))
  BY <1>6, <1>7
<1> HIDE DEF Fits
<1>10. \A story \in Stories : \A spec \in Elements(Plan(story)) : Elements(spec.deps) = Dep(spec.id)
  <2>1. \A spec \in Elements(Plan("baseline")) : Elements(spec.deps) = Dep(spec.id)
    <3> SUFFICES ASSUME NEW spec \in Elements(Plan("baseline"))
                 PROVE  Elements(spec.deps) = Dep(spec.id)
      OBVIOUS
    <3>1. \/ spec = N(30, << >>) \/ spec = N(5, <<30>>) \/ spec = N(11, <<5>>)
          \/ spec = N(21, <<11>>)
      BY <1>1
    <3> QED
      BY <1>8, <1>9, <3>1 DEF Fits
  <2>2. \A spec \in Elements(Plan("candidate")) : Elements(spec.deps) = Dep(spec.id)
    <3> SUFFICES ASSUME NEW spec \in Elements(Plan("candidate"))
                 PROVE  Elements(spec.deps) = Dep(spec.id)
      OBVIOUS
    <3>1. \/ spec = N(30, << >>) \/ spec = N(5, <<30>>) \/ spec = N(11, <<5>>)
          \/ spec = N(12, <<5>>) \/ spec = N(21, <<11>>) \/ spec = N(22, <<12>>)
      BY <1>2
    <3> QED
      BY <1>8, <1>9, <3>1 DEF Fits
  <2> QED
    BY <2>1, <2>2 DEF Stories
<1>11. ASSUME NEW story \in Stories, NEW id \in PlanIds(story) PROVE DepsOf(story, id) = Dep(id)
  <2>1. PICK spec \in Elements(Plan(story)) : spec.id = id
    BY DEF PlanIds
  <2>2. \A s \in Elements(Plan(story)) : s.id = id => Elements(s.deps) = Dep(id)
    BY <1>10
  <2>3. DepsOf(story, id) \subseteq Dep(id)
    BY <2>2 DEF DepsOf
  <2>4. Dep(id) \subseteq DepsOf(story, id)
    BY <2>1, <2>2 DEF DepsOf
  <2> QED
    BY <2>3, <2>4
<1> QED
  BY <1>4, <1>10, <1>11

(* What the key of a node says, and what an adapter makes of a key.        *)
KeyFor(id, inputs, src, ad) ==
    [node |-> NodeConfig(id), inputs |-> inputs, root |-> IF id = Source THEN src ELSE "none",
     adapter |-> ad]

OutputOf(key) ==
    [writes |-> key.adapter[2], node |-> key.node, inputs |-> key.inputs, source |-> key.root]

(* A manifest that one adapter has filled, as far as it has come: a node   *)
(* is recorded once and after the nodes it depends on, under the key that  *)
(* their outputs give, or it has no output.                                *)
IsManifest(M) ==
    \E status, src, nodes :
        /\ M = [status |-> status, source |-> src, nodes |-> nodes]
        /\ nodes \in Seq(Elements(nodes))

NoRepeats(M) == \A i, j \in DOMAIN M.nodes : M.nodes[i].id = M.nodes[j].id => i = j

Inputs(M, id) == {Node(M, d).output : d \in Dep(id)}

Filled(M, ad, node) ==
    /\ node.state \in HasOutput /\ node.output = OutputOf(node.key)
    /\ node.inputs = Inputs(M, node.id)
    /\ node.key = KeyFor(node.id, node.inputs, M.source, ad)
    /\ \A d \in Dep(node.id) : Node(M, d).output # Nothing

Unfilled(node) == node.state \in HasFailed /\ node.output = Nothing

Written == {"running", "succeeded", "failed", "interrupted"}

GoodNodes(story, M, ad) ==
    /\ IsManifest(M) /\ NoRepeats(M)
    /\ \A node \in Elements(M.nodes) :
          /\ node.id \in PlanIds(story) /\ Dep(node.id) \subseteq Ids(M)
          /\ Filled(M, ad, node) \/ Unfilled(node)

GoodStatus(story, M) ==
    /\ M \in {NoManifest, Litter} \/ (M.status \in Written /\ M.source \in {"good", "edited"})
    /\ M.status = "succeeded" =>
          Ids(M) = PlanIds(story) /\ \A node \in Elements(M.nodes) : node.state \notin HasFailed
    /\ M.status = "failed" => \E node \in Elements(M.nodes) : node.state \in HasFailed

GoodManifest(story, M, ad) == GoodNodes(story, M, ad) /\ GoodStatus(story, M)

LEMMA OutputsAreSome == \A key : OutputOf(key) # Nothing
<1> SUFFICES ASSUME NEW key PROVE OutputOf(key) # Nothing
  OBVIOUS
<1>1. DOMAIN OutputOf(key) = {"writes", "node", "inputs", "source"}
  BY DEF OutputOf
<1>2. DOMAIN Nothing = {"none"}
  BY DEF Nothing
<1> QED
  BY <1>1, <1>2

LEMMA TheNode ==
    ASSUME NEW M, NoRepeats(M), NEW node \in Elements(M.nodes)
    PROVE  Node(M, node.id) = node
<1>1. PICK i \in DOMAIN M.nodes : M.nodes[i] = node
  BY DEF Elements
<1>2. \A other \in Elements(M.nodes) : other.id = node.id => other = node
  BY <1>1 DEF NoRepeats, Elements
<1>3. Node(M, node.id) \in Elements(M.nodes) /\ Node(M, node.id).id = node.id
  BY DEF Node
<1> QED
  BY <1>2, <1>3

LEMMA NodeThere ==
    ASSUME NEW M, NEW id \in Ids(M)
    PROVE  Node(M, id) \in Elements(M.nodes) /\ Node(M, id).id = id
BY DEF Node, Ids

(* One more node.                                                          *)
WithNode(M, r) == [M EXCEPT !.nodes = Append(@, r)]

LEMMA NodeAppended ==
    ASSUME NEW M, IsManifest(M), NoRepeats(M), NEW r, r.id \notin Ids(M),
           NEW M2, M2 = WithNode(M, r)
    PROVE  /\ IsManifest(M2) /\ NoRepeats(M2) /\ M2.status = M.status /\ M2.source = M.source
           /\ Elements(M2.nodes) = Elements(M.nodes) \union {r}
           /\ Ids(M2) = Ids(M) \union {r.id}
           /\ Node(M2, r.id) = r /\ \A id \in Ids(M) : Node(M2, id) = Node(M, id)
<1>1. PICK status, src, nodes :
         /\ M = [status |-> status, source |-> src, nodes |-> nodes]
         /\ nodes \in Seq(Elements(nodes))
  BY DEF IsManifest
<1>2. PICK more : more = Append(nodes, r)
  OBVIOUS
<1>3. M2 = [status |-> status, source |-> src, nodes |-> more] /\ M.nodes = nodes
  BY <1>1, <1>2 DEF WithNode
<1> DEFINE S == Elements(nodes) \union {r}
<1>4. nodes \in Seq(S) /\ r \in S
  BY <1>1, SeqMonotonic
<1> HIDE DEF S
<1>5. /\ more \in Seq(S) /\ Len(more) = Len(nodes) + 1
      /\ \A i \in 1..Len(nodes) : more[i] = nodes[i]
      /\ more[Len(nodes) + 1] = r
  BY <1>2, <1>4, AppendProperties
<1>6. /\ Len(nodes) \in Nat /\ DOMAIN nodes = 1..Len(nodes)
      /\ DOMAIN more = 1..Len(more)
  BY <1>4, <1>5, LenProperties
<1>7. \A i \in DOMAIN more : i \in DOMAIN nodes \/ i = Len(nodes) + 1
  BY <1>5, <1>6
<1>8. DOMAIN nodes \subseteq DOMAIN more /\ Len(nodes) + 1 \in DOMAIN more
  BY <1>5, <1>6
<1>9. Elements(more) = Elements(nodes) \union {r}
  <2>1. \A i \in DOMAIN more : more[i] \in Elements(nodes) \union {r}
    BY <1>5, <1>6, <1>7 DEF Elements
  <2>2. \A i \in DOMAIN nodes : nodes[i] \in Elements(more)
    <3> SUFFICES ASSUME NEW i \in DOMAIN nodes PROVE nodes[i] \in Elements(more)
      OBVIOUS
    <3>1. nodes[i] = more[i] /\ i \in DOMAIN more
      BY <1>5, <1>6, <1>8
    <3> QED
      BY <3>1 DEF Elements
  <2>3. r \in Elements(more)
    BY <1>5, <1>8 DEF Elements
  <2>4. Elements(more) \subseteq Elements(nodes) \union {r}
    BY <2>1 DEF Elements
  <2>5. Elements(nodes) \subseteq Elements(more)
    BY <2>2 DEF Elements
  <2> QED
    BY <2>3, <2>4, <2>5
<1>10. IsManifest(M2)
  <2>1. more \in Seq(Elements(more))
    BY <1>5, <1>9 DEF S
  <2> QED
    BY <1>3, <2>1 DEF IsManifest
<1>11. /\ M2.status = M.status /\ M2.source = M.source /\ M2.nodes = more
       /\ Elements(M2.nodes) = Elements(M.nodes) \union {r}
  BY <1>1, <1>3, <1>9
<1>12. Ids(M2) = Ids(M) \union {r.id}
  BY <1>11 DEF Ids
<1>13. NoRepeats(M2)
  <2> SUFFICES ASSUME NEW i \in DOMAIN more, NEW j \in DOMAIN more, more[i].id = more[j].id
               PROVE  i = j
    BY <1>11 DEF NoRepeats
  <2>1. \A k \in DOMAIN nodes : more[k] = nodes[k] /\ nodes[k].id # r.id
    BY <1>3, <1>5, <1>6 DEF Ids, Elements
  <2>2. \A k, l \in DOMAIN nodes : nodes[k].id = nodes[l].id => k = l
    BY <1>3 DEF NoRepeats
  <2> QED
    BY <1>5, <1>7, <2>1, <2>2
<1>14. Node(M2, r.id) = r
  BY <1>11, <1>13, TheNode
<1>15. ASSUME NEW id \in Ids(M) PROVE Node(M2, id) = Node(M, id)
  <2>1. Node(M, id) \in Elements(M2.nodes) /\ Node(M, id).id = id
    BY <1>11, NodeThere
  <2> QED
    BY <1>13, <2>1, TheNode
<1> QED
  BY <1>10, <1>11, <1>12, <1>13, <1>14, <1>15

LEMMA NodeRecorded ==
    ASSUME NEW story \in Stories, NEW M, NEW ad, GoodNodes(story, M, ad),
           NEW r, r.id \in PlanIds(story) \ Ids(M), Dep(r.id) \subseteq Ids(M),
           Filled(M, ad, r) \/ Unfilled(r),
           NEW M2, M2 = WithNode(M, r)
    PROVE  GoodNodes(story, M2, ad)
<1>1. /\ IsManifest(M2) /\ NoRepeats(M2) /\ M2.status = M.status /\ M2.source = M.source
      /\ Elements(M2.nodes) = Elements(M.nodes) \union {r}
      /\ Ids(M2) = Ids(M) \union {r.id}
      /\ Node(M2, r.id) = r /\ \A id \in Ids(M) : Node(M2, id) = Node(M, id)
  <2>1. IsManifest(M) /\ NoRepeats(M) /\ r.id \notin Ids(M)
    BY DEF GoodNodes
  <2> QED
    BY <2>1, NodeAppended
<1>2. \A node \in Elements(M2.nodes) :
         /\ node.id \in PlanIds(story) /\ Dep(node.id) \subseteq Ids(M)
         /\ Filled(M, ad, node) \/ Unfilled(node)
  BY <1>1 DEF GoodNodes
<1>3. ASSUME NEW node \in Elements(M2.nodes), Filled(M, ad, node) PROVE Filled(M2, ad, node)
  <2>1. \A d \in Dep(node.id) : Node(M2, d) = Node(M, d)
    BY <1>1, <1>2
  <2>2. Inputs(M2, node.id) = Inputs(M, node.id)
    BY <2>1 DEF Inputs
  <2> QED
    BY <1>1, <1>3, <2>1, <2>2 DEF Filled
<1> QED
  BY <1>1, <1>2, <1>3 DEF GoodNodes

LEMMA DepTable ==
    /\ Dep(30) = {} /\ Dep(5) = {30} /\ Dep(11) = {5} /\ Dep(12) = {5} /\ Dep(21) = {11}
    /\ Dep(22) = {12}
    /\ \A story \in Stories : PlanIds(story) \subseteq {30, 5, 11, 12, 21, 22}
<1>1. PlanIds("baseline") = {30, 5, 11, 21} /\ PlanIds("candidate") = {30, 5, 11, 12, 21, 22}
  BY PlanTables
<1> QED
  BY <1>1 DEF Dep, Source, Convert, Stories

(* What a node's output is made of.                                        *)
LEMMA NodeMade ==
    ASSUME NEW story \in Stories, NEW M, NEW ad, GoodNodes(story, M, ad), NEW id \in Ids(M),
           Node(M, id).output # Nothing
    PROVE  /\ Filled(M, ad, Node(M, id)) /\ Node(M, id).id = id
           /\ Dep(id) \subseteq Ids(M) /\ \A d \in Dep(id) : Node(M, d).output # Nothing
           /\ Node(M, id).inputs = Inputs(M, id)
           /\ Node(M, id).key = KeyFor(id, Inputs(M, id), M.source, ad)
           /\ Node(M, id).output = OutputOf(KeyFor(id, Inputs(M, id), M.source, ad))
           /\ id \in PlanIds(story)
<1>1. Node(M, id) \in Elements(M.nodes) /\ Node(M, id).id = id
  BY NodeThere
<1>2. Filled(M, ad, Node(M, id)) /\ Dep(id) \subseteq Ids(M) /\ id \in PlanIds(story)
  BY <1>1 DEF GoodNodes, Unfilled
<1> QED
  BY <1>1, <1>2 DEF Filled

LEMMA OutputParts ==
    ASSUME NEW id, NEW inputs, NEW src, NEW ad
    PROVE  OutputOf(KeyFor(id, inputs, src, ad))
              = [writes |-> ad[2], node |-> NodeConfig(id), inputs |-> inputs,
                 source |-> IF id = Source THEN src ELSE "none"]
BY DEF OutputOf, KeyFor

(* The same source and adapters that write the same give the same outputs. *)
LEMMA SameOutputs ==
    ASSUME NEW s1 \in Stories, NEW M1, NEW ad1, GoodNodes(s1, M1, ad1),
           NEW s2 \in Stories, NEW M2, NEW ad2, GoodNodes(s2, M2, ad2),
           M1.source = M2.source, ad1[2] = ad2[2],
           NEW id \in Ids(M1) \intersect Ids(M2),
           Node(M1, id).output # Nothing, Node(M2, id).output # Nothing
    PROVE  Node(M1, id).output = Node(M2, id).output
<1> DEFINE Both(n) == /\ n \in Ids(M1) \intersect Ids(M2)
                      /\ Node(M1, n).output # Nothing /\ Node(M2, n).output # Nothing
           Same(n) == Node(M1, n).output = Node(M2, n).output
<1>1. ASSUME NEW n, Both(n), \A d \in Dep(n) : Same(d) PROVE Same(n)
  <2>1. Inputs(M1, n) = Inputs(M2, n)
    BY <1>1 DEF Inputs
  <2>2. Node(M1, n).output = OutputOf(KeyFor(n, Inputs(M1, n), M1.source, ad1))
    BY <1>1, NodeMade
  <2>3. Node(M2, n).output = OutputOf(KeyFor(n, Inputs(M2, n), M2.source, ad2))
    BY <1>1, NodeMade
  <2> QED
    BY <2>1, <2>2, <2>3, OutputParts
<1>2. ASSUME NEW n, Both(n) PROVE \A d \in Dep(n) : Both(d)
  <2>1. Dep(n) \subseteq Ids(M1) /\ \A d \in Dep(n) : Node(M1, d).output # Nothing
    BY <1>2, NodeMade
  <2>2. Dep(n) \subseteq Ids(M2) /\ \A d \in Dep(n) : Node(M2, d).output # Nothing
    BY <1>2, NodeMade
  <2> QED
    BY <2>1, <2>2
<1>3. \A n : Both(n) => n \in {30, 5, 11, 12, 21, 22}
  <2>1. \A n \in Ids(M1) : n \in PlanIds(s1)
    BY DEF GoodNodes, Ids
  <2> QED
    BY <2>1, DepTable
<1>4. Both(id)
  OBVIOUS
<1> HIDE DEF Both, Same
<1>5. Both(30) => Same(30)
  BY <1>1, DepTable
<1>6. Both(5) => Same(5)
  BY <1>1, <1>2, <1>5, DepTable
<1>7. (Both(11) => Same(11)) /\ (Both(12) => Same(12))
  BY <1>1, <1>2, <1>6, DepTable
<1>8. (Both(21) => Same(21)) /\ (Both(22) => Same(22))
  BY <1>1, <1>2, <1>7, DepTable
<1> QED
  BY <1>3, <1>4, <1>5, <1>6, <1>7, <1>8 DEF Same

(* A diff of two manifests calls a node by its name.                       *)
LEMMA DiffOfManifests ==
    ASSUME NEW s1 \in Stories, NEW B, NEW ad1, GoodNodes(s1, B, ad1),
           NEW s2 \in Stories, NEW A, NEW ad2, GoodNodes(s2, A, ad2),
           NEW id \in Ids(B) \intersect Ids(A),
           NEW b, b = Node(B, id), NEW a, a = Node(A, id),
           b.output # Nothing, a.output # Nothing
    PROVE  /\ Change(b, a) = "recorded_output_changed" =>
                 B.source # A.source \/ b.key.adapter[2] # a.key.adapter[2]
           /\ Change(b, a) = "evidence_changed_same_recorded_output" =>
                 b.key.adapter # a.key.adapter \/ a.state # "cache_hit"
<1>1. /\ b.inputs = Inputs(B, id) /\ b.key = KeyFor(id, Inputs(B, id), B.source, ad1)
      /\ b.output = OutputOf(KeyFor(id, Inputs(B, id), B.source, ad1))
  BY NodeMade
<1>2. /\ a.inputs = Inputs(A, id) /\ a.key = KeyFor(id, Inputs(A, id), A.source, ad2)
      /\ a.output = OutputOf(KeyFor(id, Inputs(A, id), A.source, ad2))
  BY NodeMade
<1>3. b.key.adapter = ad1 /\ a.key.adapter = ad2
  BY <1>1, <1>2 DEF KeyFor
<1>4. ASSUME b.output # a.output PROVE B.source # A.source \/ ad1[2] # ad2[2]
  BY <1>4, SameOutputs
<1>5. ASSUME b.output = a.output, ad1 = ad2 PROVE b.key = a.key /\ b.inputs = a.inputs
  <2>1. /\ Inputs(B, id) = Inputs(A, id)
        /\ (IF id = Source THEN B.source ELSE "none") = (IF id = Source THEN A.source ELSE "none")
    <3>1. /\ OutputOf(KeyFor(id, Inputs(B, id), B.source, ad1)).inputs = Inputs(B, id)
          /\ OutputOf(KeyFor(id, Inputs(B, id), B.source, ad1)).source
                = IF id = Source THEN B.source ELSE "none"
      BY OutputParts
    <3>2. /\ OutputOf(KeyFor(id, Inputs(A, id), A.source, ad2)).inputs = Inputs(A, id)
          /\ OutputOf(KeyFor(id, Inputs(A, id), A.source, ad2)).source
                = IF id = Source THEN A.source ELSE "none"
      BY OutputParts
    <3>3. /\ b.output.inputs = Inputs(B, id) /\ a.output.inputs = Inputs(A, id)
          /\ b.output.source = IF id = Source THEN B.source ELSE "none"
          /\ a.output.source = IF id = Source THEN A.source ELSE "none"
      BY <1>1, <1>2, <3>1, <3>2
    <3> QED
      BY <1>5, <3>3
  <2> QED
    BY <1>1, <1>2, <1>5, <2>1 DEF KeyFor
<1>6. Change(b, a) = "recorded_output_changed" => b.output # a.output
  BY DEF Change
<1>7. Change(b, a) = "evidence_changed_same_recorded_output" =>
        /\ b.output = a.output
        /\ ~(b.key = a.key /\ b.inputs = a.inputs /\ b.output = a.output /\ a.state = "cache_hit")
  BY DEF Change
<1> QED
  BY <1>3, <1>4, <1>5, <1>6, <1>7

-----------------------------------------------------------------------------
(* What is known of a tour.                                                *)
InLine(story, M, left) ==
    /\ left \in Seq(Nat)
    /\ PlanIds(story) = Ids(M) \union Elements(left) /\ Ids(M) \intersect Elements(left) = {}
    /\ \A i, j \in 1..Len(left) : left[i] = left[j] => i = j
    /\ \A i \in 1..Len(left) : Dep(left[i]) \subseteq Ids(M) \union {left[j] : j \in 1..i - 1}

SoundEntry(key) == [key |-> key, bytes |-> OutputOf(key), sound |-> TRUE]

EntriesTrue(es) ==
    /\ \A entry \in es : \E key, sound : /\ sound \in BOOLEAN
                                         /\ entry = [SoundEntry(key) EXCEPT !.sound = sound]
    /\ \A one, other \in es : one.key = other.key => one = other

(* Nobody has touched anything since the baseline was first built: what it *)
(* recorded is what a node of the candidate will find.                     *)
Unspoilt(b, es, d, ad) ==
    /\ d = b.source /\ GoodNodes("baseline", b, ad)
    /\ \A n \in Elements(b.nodes) : n.output # Nothing => SoundEntry(n.key) \in es

Reuses(b, a) ==
    LET n == Node(b, a.id)
    IN a.state = "cache_hit" /\ a.key = n.key /\ a.inputs = n.inputs /\ a.output = n.output

Undisturbed(b, c, es, d, ad) ==
    /\ b.status \in {"running", "succeeded"} => Unspoilt(b, es, d, ad)
    /\ c.status \in Written => c.source = b.source
    /\ \A a \in Elements(c.nodes) : a.id \in Ids(b) => Reuses(b, a)

StoriesInv(b, c, es, d, ad, und) ==
    /\ \E x : GoodManifest("baseline", b, x)
    /\ \E x : GoodManifest("candidate", c, x)
    /\ c # NoManifest => b.status = "succeeded"
    /\ EntriesTrue(es)
    /\ und => Undisturbed(b, c, es, d, ad)

PlaceInv(t, ms, d, ad, s) ==
    /\ t.story = "candidate" => ms["baseline"].status = "succeeded"
    /\ t.pc = "idle" => t.story = "baseline"
    /\ t.pc = "write" => d = "torn"
    /\ t.pc = "look" => d \notin {"missing", "torn"}
    /\ t.pc = "sort" => /\ t.planned \in {"good", "edited"}
                        /\ ms[t.story].status \in {"none", "interrupted"}
                        /\ s.pc # "idle" /\ s.listing = Plan(t.story)
    /\ t.pc = "build" => /\ ms[t.story].status = "running"
                         /\ GoodNodes(t.story, ms[t.story], ad)
                         /\ InLine(t.story, ms[t.story], t.left)

TourInv ==
    /\ adapter \in Adapters /\ undisturbed \in BOOLEAN
    /\ DOMAIN manifests = Stories
    /\ StoriesInv(manifests["baseline"], manifests["candidate"], entries, demo, adapter,
                  undisturbed)
    /\ PlaceInv(tour, manifests, demo, adapter, sort)

LEMMA EmptyManifest ==
    ASSUME NEW story, NEW ad, NEW M,
           \/ M = NoManifest \/ M = Litter
           \/ \E src \in {"good", "edited"} :
                 M = [status |-> "running", source |-> src, nodes |-> << >>]
    PROVE  GoodManifest(story, M, ad) /\ Elements(M.nodes) = {} /\ Ids(M) = {}
<1>1. << >> \in Seq(Elements(<< >>)) /\ Elements(<< >>) = {} /\ DOMAIN << >> = {}
  BY DEF Elements
<1>2. PICK status, src :
         /\ M = [status |-> status, source |-> src, nodes |-> << >>]
         /\ status \in {"none", "litter", "running"}
  BY DEF NoManifest, Litter
<1>3. M.nodes = << >> /\ M.status \in {"none", "litter", "running"}
  BY <1>2
<1>4. IsManifest(M)
  BY <1>1, <1>2 DEF IsManifest
<1>5. Elements(M.nodes) = {} /\ NoRepeats(M) /\ Ids(M) = {}
  BY <1>1, <1>3 DEF NoRepeats, Ids
<1>6. GoodNodes(story, M, ad)
  BY <1>4, <1>5 DEF GoodNodes
<1>7. M \in {NoManifest, Litter} \/ (M.status \in Written /\ M.source \in {"good", "edited"})
  BY DEF Written
<1> QED
  BY <1>3, <1>5, <1>6, <1>7 DEF GoodManifest, GoodStatus

LEMMA StatusChanged ==
    ASSUME NEW story, NEW M, NEW ad, GoodNodes(story, M, ad), NEW status,
           NEW M2, M2 = [M EXCEPT !.status = status]
    PROVE  /\ GoodNodes(story, M2, ad) /\ M2.status = status /\ M2.source = M.source
           /\ M2.nodes = M.nodes /\ Ids(M2) = Ids(M) /\ \A id : Node(M2, id) = Node(M, id)
<1>1. PICK old, src, nodes :
         /\ M = [status |-> old, source |-> src, nodes |-> nodes]
         /\ nodes \in Seq(Elements(nodes))
  BY DEF GoodNodes, IsManifest
<1>2. M2 = [status |-> status, source |-> src, nodes |-> nodes]
  BY <1>1
<1>3. M2.status = status /\ M2.source = M.source /\ M2.nodes = M.nodes
  BY <1>1, <1>2
<1>4. Ids(M2) = Ids(M) /\ (\A id : Node(M2, id) = Node(M, id)) /\ IsManifest(M2)
  BY <1>1, <1>2, <1>3 DEF Ids, Node, IsManifest
<1>5. \A id : Inputs(M2, id) = Inputs(M, id)
  BY <1>4 DEF Inputs
<1>6. \A node : Filled(M, ad, node) => Filled(M2, ad, node)
  BY <1>3, <1>4, <1>5 DEF Filled
<1>7. NoRepeats(M2)
  BY <1>3 DEF NoRepeats, GoodNodes
<1> QED
  BY <1>3, <1>4, <1>6, <1>7 DEF GoodNodes

LEMMA NextInLine ==
    ASSUME NEW story, NEW M, NEW left, InLine(story, M, left), left # << >>,
           NEW M2, Ids(M2) = Ids(M) \union {Head(left)}
    PROVE  /\ Head(left) \in PlanIds(story) \ Ids(M) /\ Dep(Head(left)) \subseteq Ids(M)
           /\ InLine(story, M2, Tail(left))
<1> DEFINE rest == Tail(left)
<1>1. /\ left \in Seq(Nat) /\ Len(left) \in Nat /\ Len(left) # 0 /\ DOMAIN left = 1..Len(left)
      /\ Head(left) = left[1] /\ rest \in Seq(Nat) /\ Len(rest) = Len(left) - 1
      /\ DOMAIN rest = 1..Len(rest)
  <2>1. left \in Seq(Nat) /\ left # << >>
    BY DEF InLine
  <2>2. Len(left) \in Nat /\ DOMAIN left = 1..Len(left) /\ Len(left) # 0
    BY <2>1, LenProperties, EmptySeq
  <2>3. rest \in Seq(Nat) /\ Len(rest) = Len(left) - 1
    BY <2>1, HeadTailProperties
  <2>4. Head(left) = left[1]
    BY <2>1
  <2> QED
    BY <2>1, <2>2, <2>3, <2>4, LenProperties
<1>2. \A i \in 1..Len(rest) : rest[i] = left[i + 1] /\ i + 1 \in 1..Len(left)
  <2>1. \A i \in 1..Len(rest) : rest[i] = left[i + 1]
    BY <1>1
  <2> QED
    BY <1>1, <2>1
<1> HIDE DEF rest
<1>3. 1 \in 1..Len(left) /\ 1..1 - 1 = {}
  BY <1>1
<1>4. left[1] \in Elements(left)
  BY <1>1, <1>3 DEF Elements
<1>5. Dep(left[1]) \subseteq Ids(M)
  <2>1. Dep(left[1]) \subseteq Ids(M) \union {left[j] : j \in 1..1 - 1}
    BY <1>3 DEF InLine
  <2> QED
    BY <1>3, <2>1
<1>6. \A k \in 1..Len(left) : k = 1 \/ (k - 1 \in 1..Len(rest) /\ (k - 1) + 1 = k)
  BY <1>1
<1>7. \A x \in Elements(left) : x = left[1] \/ x \in Elements(rest)
  <2> SUFFICES ASSUME NEW k \in 1..Len(left), k # 1 PROVE left[k] \in Elements(rest)
    BY <1>1 DEF Elements
  <2>1. k - 1 \in DOMAIN rest /\ rest[k - 1] = left[k]
    BY <1>1, <1>2, <1>6
  <2> QED
    BY <2>1 DEF Elements
<1>8. \A x \in Elements(rest) : x \in Elements(left) /\ x # left[1]
  <2> SUFFICES ASSUME NEW i \in 1..Len(rest) PROVE rest[i] \in Elements(left) /\ rest[i] # left[1]
    BY <1>1 DEF Elements
  <2>1. rest[i] = left[i + 1] /\ i + 1 \in 1..Len(left) /\ i + 1 # 1
    BY <1>1, <1>2
  <2>2. left[i + 1] # left[1]
    BY <1>3, <2>1 DEF InLine
  <2> QED
    BY <1>1, <2>1, <2>2 DEF Elements
<1>9. \A i, j \in 1..Len(rest) : rest[i] = rest[j] => i = j
  <2> SUFFICES ASSUME NEW i \in 1..Len(rest), NEW j \in 1..Len(rest), rest[i] = rest[j] PROVE i = j
    OBVIOUS
  <2>1. left[i + 1] = left[j + 1] /\ i + 1 \in 1..Len(left) /\ j + 1 \in 1..Len(left)
    BY <1>2
  <2>2. i + 1 = j + 1
    BY <2>1 DEF InLine
  <2> QED
    BY <2>2
<1>10. ASSUME NEW i \in 1..Len(rest)
       PROVE  Dep(rest[i]) \subseteq Ids(M2) \union {rest[j] : j \in 1..i - 1}
  <2>1. rest[i] = left[i + 1] /\ i + 1 \in 1..Len(left)
    BY <1>2
  <2>2. Dep(rest[i]) \subseteq Ids(M) \union {left[k] : k \in 1..(i + 1) - 1}
    BY <2>1 DEF InLine
  <2>3. ASSUME NEW k \in 1..(i + 1) - 1
             PROVE  left[k] = left[1] \/ left[k] \in {rest[j] : j \in 1..i - 1}
    <3>1. k = 1 \/ (k - 1 \in 1..i - 1 /\ k - 1 \in 1..Len(rest) /\ (k - 1) + 1 = k)
      BY <1>1, <2>1
    <3>2. k # 1 => left[k] = rest[k - 1]
      BY <1>2, <3>1
    <3> QED
      BY <3>1, <3>2
  <2> QED
    BY <1>1, <2>2, <2>3
<1>11. PlanIds(story) = Ids(M) \union Elements(left) /\ Ids(M) \intersect Elements(left) = {}
  BY DEF InLine
<1>12. PlanIds(story) = Ids(M2) \union Elements(rest) /\ Ids(M2) \intersect Elements(rest) = {}
  BY <1>1, <1>4, <1>7, <1>8, <1>11
<1>13. InLine(story, M2, rest)
  BY <1>1, <1>9, <1>10, <1>12 DEF InLine
<1> QED
  BY <1>1, <1>4, <1>5, <1>11, <1>13 DEF rest

LEMMA OrderInLine ==
    ASSUME SortInv, sort.pc = "ended", sort.error = "none",
           NEW story \in Stories, sort.listing = Plan(story), NEW M, Ids(M) = {}
    PROVE  InLine(story, M, sort.ordered)
<1>1. /\ Popping /\ sort.ready = {} /\ Len(sort.ordered) = Cardinality(Known(sort.listing))
      /\ sort.listing \in Seq(SpecRecords) /\ sort.ordered \in Seq(Nat)
  BY DEF SortInv, SortSet
<1>2. /\ DOMAIN sort.ordered = 1..Len(sort.ordered) /\ Done = Known(sort.listing)
      /\ \A i, j \in 1..Len(sort.ordered) : sort.ordered[i] = sort.ordered[j] => i = j
  BY <1>1, LeftOver
<1>3. Known(sort.listing) = PlanIds(story)
  BY DEF Known, PlanIds, Elements
<1>4. ASSUME NEW i \in 1..Len(sort.ordered) PROVE Dep(sort.ordered[i]) \subseteq Before(i)
  <2>1. sort.ordered[i] \in Known(sort.listing) /\ Deps(sort.ordered[i]) \subseteq Before(i)
    BY <1>1 DEF Popping, InPlace, Free
  <2>2. /\ SpecOf(sort.ordered[i]) \in Elements(Plan(story))
        /\ SpecOf(sort.ordered[i]).id = sort.ordered[i]
    BY <1>1, <2>1, SpecFacts DEF Popping
  <2>3. Deps(sort.ordered[i]) = Dep(sort.ordered[i])
    BY <2>2, PlanTables DEF Deps
  <2> QED
    BY <2>1, <2>3
<1> QED
  BY <1>1, <1>2, <1>3, <1>4 DEF InLine, Done, Before


LEMMA TourNow ==
    ASSUME NEW t, NEW ms, NEW es, NEW d, NEW ad, NEW und, NEW s,
           tour' = t, manifests' = ms, entries' = es, demo' = d, adapter' = ad,
           undisturbed' = und, sort' = s,
           ad \in Adapters, und \in BOOLEAN, DOMAIN ms = Stories,
           StoriesInv(ms["baseline"], ms["candidate"], es, d, ad, und),
           PlaceInv(t, ms, d, ad, s)
    PROVE  TourInv'
BY DEF TourInv

LEMMA TourMoves ==
    ASSUME TourInv, UNCHANGED <<manifests, entries, demo, adapter, undisturbed>>,
           tour'.pc \in {"idle", "prepare", "look", "compare"},
           tour'.pc = "look" => demo \notin {"missing", "torn"},
           tour'.pc = "idle" => tour'.story = "baseline",
           tour'.story = "candidate" => manifests["baseline"].status = "succeeded"
    PROVE  TourInv'
<1>1. PICK t, s : tour' = t /\ sort' = s
  OBVIOUS
<1>2. PlaceInv(t, manifests, demo, adapter, s)
  BY <1>1 DEF PlaceInv
<1> QED
  BY <1>1, <1>2, TourNow DEF TourInv

LEMMA ExitsAreIdle ==
    \A code : Exit(code).pc = "idle" /\ Exit(code).story = "baseline"
BY DEF Exit, NoTour

LEMMA NextStory ==
    ASSUME OrderInv, TourInv, NEW M,
           manifests[tour.story].status = "succeeded" \/ M.status = "succeeded"
    PROVE  /\ AfterStory(tour.story).pc \in {"prepare", "compare"}
           /\ tour.story = "baseline" => AfterStory(tour.story).story = "candidate"
           /\ tour.story = "candidate" => AfterStory(tour.story).story = "candidate"
<1>1. tour \in TourSet /\ tour.story \in Stories
  BY DEF OrderInv, TourRecs, TourSet
<1> QED
  BY <1>1 DEF AfterStory, At, TourSet, Stories

LEMMA MovesKeepTour ==
    ASSUME OrderInv, TourInv,
           \/ StartTour \/ PrepareFinds \/ LoadRefuses \/ ReuseRun \/ RefuseRun \/ PrintDiff
    PROVE  TourInv'
<1>1. tour \in TourSet /\ tour.story \in Stories
  BY DEF OrderInv, TourRecs, TourSet
<1>2. tour.story = "candidate" => manifests["baseline"].status = "succeeded"
  BY DEF TourInv, PlaceInv
<1>3. CASE \E code : /\ tour' = Exit(code)
                     /\ UNCHANGED <<manifests, entries, demo, adapter, undisturbed>>
  <2>1. tour'.pc = "idle" /\ tour'.story = "baseline"
    BY <1>3, ExitsAreIdle
  <2> QED
    BY <1>3, <2>1, TourMoves
<1>4. CASE StartTour
  <2>1. tour'.pc = "prepare" /\ tour'.story = "baseline"
    BY <1>4 DEF StartTour, NoTour
  <2> QED
    BY <1>4, <2>1, TourMoves DEF StartTour
<1>5. CASE PrepareFinds /\ demo = "good"
  <2>1. tour' = At("look") /\ tour'.pc = "look" /\ tour'.story = tour.story
    BY <1>1, <1>5 DEF PrepareFinds, At, TourSet
  <2> QED
    BY <1>2, <1>5, <2>1, TourMoves DEF PrepareFinds
<1>6. CASE ReuseRun /\ Verified(manifests[tour.story])
  <2>1. tour' = AfterStory(tour.story) /\ manifests[tour.story].status = "succeeded"
    BY <1>6 DEF ReuseRun
  <2>2. /\ AfterStory(tour.story).pc \in {"prepare", "compare"}
        /\ AfterStory(tour.story).story = "candidate"
    BY <1>1, <2>1, NextStory DEF Stories
  <2>3. manifests["baseline"].status = "succeeded"
    BY <1>1, <1>2, <2>1 DEF Stories
  <2>4. tour'.pc \in {"prepare", "compare"} /\ tour'.story = "candidate"
    BY <2>1, <2>2
  <2> QED
    BY <1>6, <2>3, <2>4, TourMoves DEF ReuseRun
<1>7. CASE PrepareFinds /\ demo # "good"
  BY <1>3, <1>7 DEF PrepareFinds
<1>8. CASE ReuseRun /\ ~Verified(manifests[tour.story])
  BY <1>3, <1>8 DEF ReuseRun
<1>9. CASE LoadRefuses \/ RefuseRun \/ PrintDiff
  BY <1>3, <1>9 DEF LoadRefuses, RefuseRun, PrintDiff
<1> QED
  BY <1>4, <1>5, <1>6, <1>7, <1>8, <1>9

(* While the baseline that nobody has disturbed is there, so is its input. *)
LEMMA InputStays ==
    ASSUME NEW b, NEW c, NEW es, NEW d, NEW ad, StoriesInv(b, c, es, d, ad, TRUE),
           b.status \in {"running", "succeeded"}
    PROVE  d = b.source /\ d \in {"good", "edited"}
<1>1. PICK x : GoodManifest("baseline", b, x)
  BY DEF StoriesInv
<1>2. b \notin {NoManifest, Litter}
  BY DEF NoManifest, Litter
<1>3. b.source \in {"good", "edited"}
  BY <1>1, <1>2 DEF GoodManifest, GoodStatus
<1> QED
  BY <1>3 DEF StoriesInv, Undisturbed, Unspoilt

LEMMA PreparesKeepTour ==
    ASSUME OrderInv, TourInv, PrepareWrites \/ PrepareWritten PROVE TourInv'
<1>1. tour \in TourSet /\ tour.story \in Stories
  BY DEF OrderInv, TourRecs, TourSet
<1>2. PICK t, d, s : tour' = t /\ demo' = d /\ sort' = s
  OBVIOUS
<1>3. /\ UNCHANGED <<manifests, entries, adapter, undisturbed>>
      /\ t.pc \in {"prepare", "write", "look"} /\ t.story = tour.story
      /\ demo \in {"absent", "missing", "torn"}
      /\ t.pc = "write" => d = "torn"
      /\ t.pc = "look" => d = "good"
  <2>1. CASE PrepareWrites
    BY <1>1, <1>2, <2>1 DEF PrepareWrites, At, TourSet
  <2>2. CASE PrepareWritten
    <3>1. demo = "torn"
      BY <2>2 DEF PrepareWritten, TourInv, PlaceInv
    <3> QED
      BY <1>1, <1>2, <2>2, <3>1 DEF PrepareWritten, At, TourSet
  <2> QED
    BY <2>1, <2>2
<1>4. PICK b, c, es, ad, und : /\ b = manifests["baseline"] /\ c = manifests["candidate"]
                               /\ es = entries /\ ad = adapter /\ und = undisturbed
  OBVIOUS
<1>5. StoriesInv(b, c, es, demo, ad, und)
  BY <1>4 DEF TourInv
<1>6. StoriesInv(b, c, es, d, ad, und)
  <2>1. CASE d = demo
    BY <1>5, <2>1
  <2>2. CASE d # demo
    <3>1. und = TRUE => b.status \notin {"running", "succeeded"}
      BY <1>3, <1>5, <2>2, InputStays
    <3>2. und \in BOOLEAN
      BY <1>4 DEF TourInv
    <3>3. und => Undisturbed(b, c, es, d, ad)
      BY <1>5, <3>1, <3>2 DEF Undisturbed, StoriesInv
    <3> QED
      BY <1>5, <3>3 DEF StoriesInv
  <2> QED
    BY <2>1, <2>2
<1>7. PlaceInv(t, manifests, d, adapter, s)
  BY <1>3 DEF TourInv, PlaceInv
<1> QED
  BY <1>2, <1>3, <1>4, <1>6, <1>7, TourNow DEF TourInv

LEMMA BeginKeepsTour == ASSUME OrderInv, TourInv, BeginBuild PROVE TourInv'
<1>1. tour \in TourSet /\ tour.story \in Stories /\ demo \in Demos
  BY DEF OrderInv, TourRecs, TourSet
<1>2. PICK t, und, s : tour' = t /\ undisturbed' = und /\ sort' = s
  OBVIOUS
<1>3. /\ UNCHANGED <<manifests, entries, demo, adapter>> /\ demo \in {"good", "edited"}
      /\ manifests[tour.story].status \in {"none", "interrupted"}
      /\ t.pc = "sort" /\ t.story = tour.story /\ t.planned = demo
  BY <1>1, <1>2 DEF BeginBuild, BuildsNow, TourInv, PlaceInv, TourSet, Demos
<1>4. s.pc = "index" /\ s.listing = Plan(tour.story)
  <2>1. StartSort(Plan(tour.story), TRUE)
    BY DEF BeginBuild
  <2>2. PICK listing : listing = Plan(tour.story)
    OBVIOUS
  <2>3. s = [NotSorting EXCEPT !.pc = "index", !.listing = listing, !.planned = TRUE]
    BY <1>2, <2>1, <2>2 DEF StartSort
  <2>4. s.pc = "index" /\ s.listing = listing
    BY <2>3 DEF NotSorting
  <2> QED
    BY <2>2, <2>4
<1>5. PICK b, c, es, d, ad : /\ b = manifests["baseline"] /\ c = manifests["candidate"]
                             /\ es = entries /\ d = demo /\ ad = adapter
  OBVIOUS
<1>6. StoriesInv(b, c, es, d, ad, undisturbed)
  BY <1>5 DEF TourInv
<1>7. StoriesInv(b, c, es, d, ad, und) /\ und \in BOOLEAN
  <2>1. CASE tour.story = "baseline"
    <3>1. c = NoManifest
      BY <1>3, <1>5, <1>6, <2>1 DEF StoriesInv
    <3>2. c.status \notin Written /\ Elements(c.nodes) = {}
      BY <3>1 DEF NoManifest, Written, Elements
    <3>3. b.status \notin {"running", "succeeded"}
      BY <1>3, <1>5, <2>1
    <3>4. Undisturbed(b, c, es, d, ad)
      BY <3>2, <3>3 DEF Undisturbed
    <3> QED
      BY <1>2, <1>6, <2>1, <3>4 DEF StoriesInv, BeginBuild
  <2>2. CASE tour.story # "baseline"
    BY <1>2, <1>6, <2>2 DEF BeginBuild, TourInv
  <2> QED
    BY <2>1, <2>2
<1>8. PlaceInv(t, manifests, demo, adapter, s)
  BY <1>3, <1>4 DEF TourInv, PlaceInv
<1> QED
  BY <1>2, <1>3, <1>5, <1>7, <1>8, TourNow DEF TourInv

LEMMA OrderingKeepsTour == ASSUME OrderInv, TourInv, OrderNodes PROVE TourInv'
<1>1. PICK s : sort' = s
  OBVIOUS
<1>2. sort \in SortSet
  BY DEF OrderInv, SortInv
<1>3. tour.pc = "sort" /\ UNCHANGED tourVars /\ SortStep
  BY DEF OrderNodes
<1>4. sort.pc # "idle"
  BY <1>3 DEF TourInv, PlaceInv
<1>5. s.pc # "idle" /\ s.listing = sort.listing
  <2>1. CASE IndexNodes
    <3>1. PICK error, degree, ready :
             s = IF error # "none" THEN [sort EXCEPT !.pc = "ended", !.error = error]
                 ELSE [sort EXCEPT !.pc = "pop", !.degree = degree, !.ready = ready]
      BY <1>1, <2>1 DEF IndexNodes
    <3> QED
      BY <1>2, <3>1 DEF SortSet
  <2>2. CASE PopReady
    <3> DEFINE id == LeastReady
               degree == [n \in DOMAIN sort.degree |->
                             IF id \in Deps(n) THEN sort.degree[n] - 1 ELSE sort.degree[n]]
               ready == (sort.ready \ {id}) \union
                           {n \in DOMAIN degree : id \in Deps(n) /\ degree[n] = 0}
    <3>1. s = [sort EXCEPT !.ordered = Append(sort.ordered, id), !.degree = degree,
                           !.ready = ready]
      BY <1>1, <2>2 DEF PopReady
    <3> HIDE DEF id, degree, ready
    <3> QED
      BY <1>2, <1>4, <3>1 DEF SortSet
  <2>3. CASE EndSort
    <3>1. PICK error : s = [sort EXCEPT !.pc = "ended", !.error = error]
      BY <1>1, <2>3 DEF EndSort
    <3> QED
      BY <1>2, <3>1 DEF SortSet
  <2> QED
    BY <1>3, <2>1, <2>2, <2>3 DEF SortStep
<1>6. PlaceInv(tour, manifests, demo, adapter, s)
  BY <1>3, <1>5 DEF TourInv, PlaceInv
<1> QED
  BY <1>1, <1>3, <1>6, TourNow DEF TourInv, tourVars

(* One manifest is put in the place of another.                            *)
LEMMA OneStory ==
    ASSUME NEW ms, DOMAIN ms = Stories, NEW story \in Stories, NEW M,
           NEW ms2, ms2 = [ms EXCEPT ![story] = M]
    PROVE  /\ DOMAIN ms2 = Stories /\ ms2[story] = M
           /\ \A other \in Stories : other # story => ms2[other] = ms[other]
OBVIOUS

LEMMA StartedStory ==
    ASSUME NEW ms, NEW es, NEW d, NEW ad, NEW und,
           StoriesInv(ms["baseline"], ms["candidate"], es, d, ad, und), DOMAIN ms = Stories,
           NEW story \in Stories, ms[story].status \in {"none", "interrupted"},
           story = "candidate" => ms["baseline"].status = "succeeded",
           NEW M, \/ M = Litter
                  \/ M = [status |-> "running", source |-> d, nodes |-> << >>]
                     /\ d \in {"good", "edited"},
           NEW ms2, ms2 = [ms EXCEPT ![story] = M]
    PROVE  StoriesInv(ms2["baseline"], ms2["candidate"], es, d, ad, und) /\ DOMAIN ms2 = Stories
<1> DEFINE b == ms["baseline"]
           c == ms["candidate"]
<1>1. /\ DOMAIN ms2 = Stories /\ ms2[story] = M
      /\ \A other \in Stories : other # story => ms2[other] = ms[other]
  BY OneStory
<1>2. /\ \A x : GoodManifest(story, M, x) /\ GoodManifest(story, M, ad) /\ GoodNodes(story, M, ad)
      /\ Elements(M.nodes) = {}
  BY EmptyManifest DEF GoodManifest
<1>3. M.status = "litter" \/ (M.status = "running" /\ M.source = d)
  BY DEF Litter, NoManifest
<1>4. CASE story = "baseline"
  <2>1. ms2["baseline"] = M /\ ms2["candidate"] = c
    BY <1>1, <1>4 DEF Stories
  <2>2. c = NoManifest
    BY <1>4 DEF StoriesInv
  <2>3. c.status \notin Written /\ Elements(c.nodes) = {}
    BY <2>2 DEF NoManifest, Written, Elements
  <2> HIDE DEF b, c
  <2>4. M.status \in {"running", "succeeded"} => Unspoilt(M, es, d, ad)
    BY <1>2, <1>3, <1>4 DEF Unspoilt
  <2>5. Undisturbed(M, c, es, d, ad)
    BY <2>3, <2>4 DEF Undisturbed
  <2>6. StoriesInv(M, c, es, d, ad, und)
    BY <1>2, <1>4, <2>2, <2>5 DEF StoriesInv, b, c
  <2> QED
    BY <1>1, <2>1, <2>6
<1>5. CASE story = "candidate"
  <2>1. ms2["baseline"] = b /\ ms2["candidate"] = M
    BY <1>1, <1>5 DEF Stories
  <2>2. b.status = "succeeded"
    BY <1>5
  <2> HIDE DEF b, c
  <2>3. StoriesInv(b, c, es, d, ad, und)
    BY DEF b, c
  <2>4. und => Undisturbed(b, c, es, d, ad) /\ d = b.source
    BY <2>2, <2>3 DEF StoriesInv, Undisturbed, Unspoilt
  <2>5. und => Undisturbed(b, M, es, d, ad)
    BY <1>2, <1>3, <2>4 DEF Undisturbed, Written
  <2>6. StoriesInv(b, M, es, d, ad, und)
    BY <1>2, <1>5, <2>2, <2>3, <2>5 DEF StoriesInv
  <2> QED
    BY <1>1, <2>1, <2>6
<1> QED
  BY <1>4, <1>5 DEF Stories

LEMMA LitterKeepsTour ==
    ASSUME OrderInv, TourInv, UNCHANGED <<entries, demo, adapter, undisturbed>>,
           NEW code, tour' = Exit(code),
           manifests' = manifests \/ (tour.pc = "sort" /\ manifests' = Littered)
    PROVE  TourInv'
<1>1. tour \in TourSet /\ tour.story \in Stories
  BY DEF OrderInv, TourRecs, TourSet
<1>2. tour'.pc = "idle" /\ tour'.story = "baseline"
  BY ExitsAreIdle
<1>3. CASE manifests' = manifests
  BY <1>2, <1>3, TourMoves
<1>4. CASE manifests' # manifests
  <2>1. PICK t, ms, s : tour' = t /\ manifests' = ms /\ sort' = s
    OBVIOUS
  <2>2. ms = [manifests EXCEPT ![tour.story] = Litter] /\ tour.pc = "sort"
    BY <1>4, <2>1 DEF Littered
  <2>3. /\ manifests[tour.story].status \in {"none", "interrupted"}
        /\ tour.story = "candidate" => manifests["baseline"].status = "succeeded"
    BY <2>2 DEF TourInv, PlaceInv
  <2>4. /\ StoriesInv(ms["baseline"], ms["candidate"], entries, demo, adapter, undisturbed)
        /\ DOMAIN ms = Stories
    <3>1. PICK old, es, d, ad, und, story :
             /\ old = manifests /\ es = entries /\ d = demo /\ ad = adapter /\ und = undisturbed
             /\ story = tour.story
      OBVIOUS
    <3>2. /\ StoriesInv(old["baseline"], old["candidate"], es, d, ad, und)
          /\ DOMAIN old = Stories
      BY <3>1 DEF TourInv
    <3>3. /\ story \in Stories /\ old[story].status \in {"none", "interrupted"}
          /\ story = "candidate" => old["baseline"].status = "succeeded"
          /\ ms = [old EXCEPT ![story] = Litter]
      BY <1>1, <2>2, <2>3, <3>1
    <3>4. StoriesInv(ms["baseline"], ms["candidate"], es, d, ad, und) /\ DOMAIN ms = Stories
      BY <3>2, <3>3, StartedStory
    <3> QED
      BY <3>1, <3>4
  <2>5. PlaceInv(t, ms, demo, adapter, s)
    BY <1>2, <2>1 DEF PlaceInv
  <2> QED
    BY <2>1, <2>4, <2>5, TourNow DEF TourInv
<1> QED
  BY <1>3, <1>4

LEMMA FirstManifestKeepsTour == ASSUME OrderInv, TourInv, FirstManifest PROVE TourInv'
<1>1. tour \in TourSet /\ tour.story \in Stories
  BY DEF OrderInv, TourRecs, TourSet
<1>2. CASE ~(sort.error = "none" /\ demo = tour.planned)
  <2>1. /\ tour' = Exit("traceback") /\ manifests' = Littered /\ tour.pc = "sort"
        /\ UNCHANGED <<entries, demo, adapter, undisturbed>>
    BY <1>2 DEF FirstManifest
  <2> QED
    BY <2>1, LitterKeepsTour
<1>3. CASE sort.error = "none" /\ demo = tour.planned
  <2> DEFINE M == [status |-> "running", source |-> demo, nodes |-> << >>]
  <2>1. PICK t, ms, s : tour' = t /\ manifests' = ms /\ sort' = s
    OBVIOUS
  <2>2. /\ ms = [manifests EXCEPT ![tour.story] = M] /\ tour.pc = "sort" /\ sort.pc = "ended"
        /\ t = [tour EXCEPT !.pc = "build", !.left = sort.ordered]
        /\ UNCHANGED <<entries, demo, adapter, undisturbed>>
    BY <1>3, <2>1 DEF FirstManifest
  <2>3. t.pc = "build" /\ t.story = tour.story /\ t.left = sort.ordered
    BY <1>1, <2>2 DEF TourSet
  <2>4. /\ manifests[tour.story].status \in {"none", "interrupted"}
        /\ tour.story = "candidate" => manifests["baseline"].status = "succeeded"
        /\ demo \in {"good", "edited"} /\ sort.listing = Plan(tour.story)
    BY <1>3, <2>2 DEF TourInv, PlaceInv
  <2>5. PICK old, es, d, ad, und, story :
           /\ old = manifests /\ es = entries /\ d = demo /\ ad = adapter /\ und = undisturbed
           /\ story = tour.story
    OBVIOUS
  <2>6. StoriesInv(old["baseline"], old["candidate"], es, d, ad, und) /\ DOMAIN old = Stories
    BY <2>5 DEF TourInv
  <2>7. StoriesInv(ms["baseline"], ms["candidate"], es, d, ad, und) /\ DOMAIN ms = Stories
    <3>1. /\ story \in Stories /\ old[story].status \in {"none", "interrupted"}
          /\ story = "candidate" => old["baseline"].status = "succeeded"
          /\ d \in {"good", "edited"}
          /\ ms = [old EXCEPT ![story] = [status |-> "running", source |-> d, nodes |-> << >>]]
      BY <1>1, <2>2, <2>4, <2>5
    <3> QED
      BY <2>6, <3>1, StartedStory
  <2>8. ms[tour.story] = M
    BY <1>1, <2>2, <2>5, <2>6
  <2>9. GoodNodes(tour.story, M, ad) /\ Ids(M) = {}
    BY <2>4, EmptyManifest DEF GoodManifest
  <2>10. SortInv /\ M.status = "running"
    BY DEF OrderInv
  <2> HIDE DEF M
  <2>11. InLine(tour.story, M, sort.ordered)
    BY <1>1, <1>3, <2>2, <2>4, <2>9, <2>10, OrderInLine
  <2>12. t.story = "candidate" => ms["baseline"].status = "succeeded"
    BY <1>1, <2>2, <2>3, <2>4, <2>5, <2>6 DEF Stories
  <2>13. PlaceInv(t, ms, d, ad, s)
    BY <2>3, <2>8, <2>9, <2>10, <2>11, <2>12 DEF PlaceInv
  <2> QED
    BY <2>1, <2>2, <2>5, <2>7, <2>13, TourNow DEF TourInv
<1> QED
  BY <1>2, <1>3

(* What becomes of a node whose turn it is.                                *)
Outcome(M, ad, es, id, r, es2) ==
    /\ r.id = id
    /\ Filled(M, ad, r) \/ Unfilled(r)
    /\ EntriesTrue(es2) /\ es \subseteq es2
    /\ r.output # Nothing => SoundEntry(r.key) \in es2
    /\ LET key == KeyFor(id, Inputs(M, id), M.source, ad)
       IN (\A d \in Dep(id) : Node(M, d).output # Nothing) /\ SoundEntry(key) \in es =>
             /\ r.state = "cache_hit" /\ r.key = key /\ r.inputs = Inputs(M, id)
             /\ r.output = OutputOf(key)

LEMMA EntryParts ==
    ASSUME NEW es, EntriesTrue(es), NEW entry \in es
    PROVE  /\ entry.bytes = OutputOf(entry.key) /\ entry.sound \in BOOLEAN
           /\ entry.sound => entry = SoundEntry(entry.key)
<1>1. PICK key, sound : sound \in BOOLEAN /\ entry = [SoundEntry(key) EXCEPT !.sound = sound]
  BY DEF EntriesTrue
<1>2. entry = [key |-> key, bytes |-> OutputOf(key), sound |-> sound]
  BY <1>1 DEF SoundEntry
<1> QED
  BY <1>1, <1>2 DEF SoundEntry

LEMMA ResultParts ==
    ASSUME NEW id, NEW state, NEW key, NEW inputs, NEW output, NEW r,
           r = NodeResult(id, state, key, inputs, output)
    PROVE  r.id = id /\ r.state = state /\ r.key = key /\ r.inputs = inputs /\ r.output = output
BY DEF NodeResult

LEMMA NodeFails ==
    ASSUME NEW M, NEW ad, NEW es, EntriesTrue(es), NEW id, NEW r, NEW state \in HasFailed,
           NEW key, NEW inputs, r = NodeResult(id, state, key, inputs, Nothing),
           \/ \E d \in Dep(id) : Node(M, d).output = Nothing
           \/ \E entry \in es : entry.key = KeyFor(id, Inputs(M, id), M.source, ad) /\ ~entry.sound
           \/ ~\E entry \in es : entry.key = KeyFor(id, Inputs(M, id), M.source, ad)
    PROVE  Outcome(M, ad, es, id, r, es)
<1> DEFINE k == KeyFor(id, Inputs(M, id), M.source, ad)
<1>1. r.id = id /\ Unfilled(r) /\ r.output = Nothing
  BY ResultParts DEF Unfilled
<1>2. ASSUME \A d \in Dep(id) : Node(M, d).output # Nothing, SoundEntry(k) \in es PROVE FALSE
  <2> HIDE DEF k
  <2>1. SoundEntry(k).key = k /\ SoundEntry(k).sound = TRUE
    BY DEF SoundEntry
  <2>2. \A entry \in es : entry.key = k => entry.sound = TRUE
    BY <1>2, <2>1 DEF EntriesTrue
  <2>3. \/ \E entry \in es : entry.key = k /\ ~entry.sound
        \/ ~\E entry \in es : entry.key = k
    BY <1>2 DEF k
  <2> QED
    BY <1>2, <2>1, <2>2, <2>3
<1> QED
  BY <1>1, <1>2 DEF Outcome

LEMMA NodeGetsOutput ==
    ASSUME NEW M, NEW ad, NEW es, EntriesTrue(es), NEW id, NEW r, NEW state \in HasOutput,
           \A d \in Dep(id) : Node(M, d).output # Nothing,
           NEW key, key = KeyFor(id, Inputs(M, id), M.source, ad),
           r = NodeResult(id, state, key, Inputs(M, id), OutputOf(key)),
           NEW es2,
           \/ state = "cache_hit" /\ SoundEntry(key) \in es /\ es2 = es
           \/ (~\E entry \in es : entry.key = key) /\ es2 = es \union {SoundEntry(key)}
    PROVE  Outcome(M, ad, es, id, r, es2)
<1>1. /\ r.id = id /\ r.state = state /\ r.key = key /\ r.inputs = Inputs(M, id)
      /\ r.output = OutputOf(key)
  BY ResultParts
<1>2. Filled(M, ad, r)
  BY <1>1 DEF Filled
<1>3. /\ SoundEntry(key).key = key
      /\ \E sound \in BOOLEAN : SoundEntry(key) = [SoundEntry(key) EXCEPT !.sound = sound]
  <2>1. PICK sound \in BOOLEAN :
           SoundEntry(key) = [key |-> key, bytes |-> OutputOf(key), sound |-> sound]
    BY DEF SoundEntry
  <2> QED
    BY <2>1
<1>4. EntriesTrue(es2) /\ es \subseteq es2 /\ SoundEntry(key) \in es2
  <2>1. CASE es2 = es
    BY <2>1, <1>3
  <2>2. CASE (~\E entry \in es : entry.key = key) /\ es2 = es \union {SoundEntry(key)}
    BY <1>3, <2>2 DEF EntriesTrue
  <2> QED
    BY <2>1, <2>2
<1>5. SoundEntry(key) \in es => state = "cache_hit"
  BY <1>3
<1> QED
  BY <1>1, <1>2, <1>4, <1>5 DEF Outcome

LEMMA DepsFilled ==
    ASSUME NEW story, NEW M, NEW ad, GoodNodes(story, M, ad), NEW d \in Ids(M)
    PROVE  Node(M, d).output # Nothing <=> Node(M, d).state \notin HasFailed
<1>1. Node(M, d) \in Elements(M.nodes)
  BY NodeThere
<1>2. Filled(M, ad, Node(M, d)) \/ Unfilled(Node(M, d))
  BY <1>1 DEF GoodNodes
<1>3. HasOutput \intersect HasFailed = {}
  BY DEF HasOutput, HasFailed
<1> QED
  BY <1>2, <1>3, OutputsAreSome DEF Filled, Unfilled

LEMMA NodeOutcome ==
    ASSUME NEW story \in Stories, NEW M, NEW ad, NEW es, NEW left,
           story = tour.story, M = manifests[tour.story], ad = adapter, es = entries,
           left = tour.left,
           GoodNodes(story, M, ad), EntriesTrue(es), InLine(story, M, left), BuildNode
    PROVE  \E r, es2 : /\ es2 = entries' /\ Outcome(M, ad, es, Head(left), r, es2)
                       /\ manifests' = [manifests EXCEPT ![story] = WithNode(M, r)]
                       /\ tour' = [tour EXCEPT !.left = Tail(left)] /\ left # << >>
<1> DEFINE id == Head(left)
           inputs == {Node(M, d).output : d \in DepsOf(story, id)}
           key == NodeKey(id, inputs, M.source)
           output == FixtureOutput(id, inputs, M.source)
           done == IF id \in {Smoke(Q4), Smoke(Q8)} THEN "fixture_observed" ELSE "produced"
           Recorded(r) == /\ manifests' = [manifests EXCEPT ![story] = WithNode(M, r)]
                          /\ tour' = [tour EXCEPT !.left = Tail(left)]
<1>1. left # << >> /\ id \in PlanIds(story) /\ Dep(id) \subseteq Ids(M)
  <2>1. left # << >>
    BY DEF BuildNode
  <2>2. Ids(WithNode(M, [id |-> id])) = Ids(M) \union {id}
    <3>1. left \in Seq(Nat) /\ id = left[1]
      BY <2>1 DEF InLine
    <3>2. id \notin Ids(M)
      <4>1. 1 \in DOMAIN left
        BY <2>1, <3>1
      <4>2. id \in Elements(left)
        BY <3>1, <4>1 DEF Elements
      <4> QED
        BY <4>2 DEF InLine
    <3>3. PICK r : r = [id |-> id]
      OBVIOUS
    <3>4. r.id = id
      BY <3>3
    <3> QED
      BY <3>2, <3>3, <3>4, NodeAppended DEF GoodNodes
  <2> QED
    BY <2>1, <2>2, NextInLine
<1>2. inputs = Inputs(M, id)
  BY <1>1, PlanTables DEF Inputs
<1>3. key = KeyFor(id, Inputs(M, id), M.source, ad)
  BY <1>2 DEF NodeKey, KeyFor
<1>4. output = OutputOf(key)
  BY DEF NodeKey, FixtureOutput, OutputOf
<1>5. DepsOf(story, id) = Dep(id)
  BY <1>1, PlanTables
<1>6. \A d \in Dep(id) : Node(M, d).output # Nothing <=> Node(M, d).state \notin HasFailed
  BY <1>1, DepsFilled
<1>7. \A r : Record(id, r) => Recorded(r)
  BY DEF Record, WithNode
<1>8. \/ /\ \E d \in Dep(id) : Node(M, d).state \in HasFailed
         /\ Record(id, NodeResult(id, "blocked", Nothing, {}, Nothing)) /\ entries' = es
      \/ /\ \A d \in Dep(id) : Node(M, d).state \notin HasFailed
         /\ Cached(key) /\ entries' = es
         /\ IF Entry(key).sound
            THEN Record(id, NodeResult(id, "cache_hit", key, inputs, Entry(key).bytes))
            ELSE Record(id, NodeResult(id, "failed", key, inputs, Nothing))
      \/ ~Cached(key) /\ entries' = es /\ Record(id, NodeResult(id, "failed", key, inputs, Nothing))
      \/ /\ \A d \in Dep(id) : Node(M, d).state \notin HasFailed
         /\ ~Cached(key) /\ Record(id, NodeResult(id, done, key, inputs, output))
         /\ entries' = es \union {[key |-> key, bytes |-> output, sound |-> TRUE]}
  BY <1>5 DEF BuildNode
<1>9. Cached(key) => Entry(key) \in es /\ Entry(key).key = key
  BY DEF Cached, Entry
<1>10. Cached(key) <=> \E entry \in es : entry.key = key
  BY DEF Cached
<1>11. SoundEntry(key) = [key |-> key, bytes |-> output, sound |-> TRUE]
  BY <1>4 DEF SoundEntry
<1> HIDE DEF id, inputs, key, output, Recorded
<1>12. "blocked" \in HasFailed /\ "failed" \in HasFailed /\ "cache_hit" \in HasOutput
       /\ done \in HasOutput
  BY DEF HasFailed, HasOutput
<1> HIDE DEF done
<1>13. ASSUME NEW r, NEW es2, es2 = entries', Outcome(M, ad, es, id, r, es2), Record(id, r)
       PROVE  \E r1, es1 : /\ es1 = entries' /\ Outcome(M, ad, es, id, r1, es1)
                           /\ Recorded(r1) /\ left # << >>
  BY <1>1, <1>7, <1>13
<1>14. \E r, es2 : /\ es2 = entries' /\ Outcome(M, ad, es, id, r, es2)
                   /\ Recorded(r) /\ left # << >>
  <2>1. CASE /\ \E d \in Dep(id) : Node(M, d).state \in HasFailed
             /\ Record(id, NodeResult(id, "blocked", Nothing, {}, Nothing)) /\ entries' = es
    <3>1. PICK r : r = NodeResult(id, "blocked", Nothing, {}, Nothing)
      OBVIOUS
    <3>2. Outcome(M, ad, es, id, r, es)
      BY <1>6, <1>12, <2>1, <3>1, NodeFails
    <3> QED
      BY <1>13, <2>1, <3>1, <3>2
  <2>2. CASE /\ Cached(key) /\ entries' = es /\ ~Entry(key).sound
             /\ Record(id, NodeResult(id, "failed", key, inputs, Nothing))
    <3>1. PICK r : r = NodeResult(id, "failed", key, inputs, Nothing)
      OBVIOUS
    <3>2. Outcome(M, ad, es, id, r, es)
      BY <1>3, <1>9, <1>12, <2>2, <3>1, NodeFails
    <3> QED
      BY <1>13, <2>2, <3>1, <3>2
  <2>3. CASE /\ ~Cached(key) /\ entries' = es
             /\ Record(id, NodeResult(id, "failed", key, inputs, Nothing))
    <3>1. PICK r : r = NodeResult(id, "failed", key, inputs, Nothing)
      OBVIOUS
    <3>2. Outcome(M, ad, es, id, r, es)
      BY <1>3, <1>10, <1>12, <2>3, <3>1, NodeFails
    <3> QED
      BY <1>13, <2>3, <3>1, <3>2
  <2>4. CASE /\ \A d \in Dep(id) : Node(M, d).state \notin HasFailed
             /\ Cached(key) /\ entries' = es /\ Entry(key).sound
             /\ Record(id, NodeResult(id, "cache_hit", key, inputs, Entry(key).bytes))
    <3>1. Entry(key).bytes = OutputOf(key) /\ SoundEntry(key) \in es
      BY <1>9, <2>4, EntryParts
    <3>2. PICK r : r = NodeResult(id, "cache_hit", key, Inputs(M, id), OutputOf(key))
      OBVIOUS
    <3>3. Outcome(M, ad, es, id, r, es)
      BY <1>3, <1>6, <1>12, <2>4, <3>1, <3>2, NodeGetsOutput
    <3> QED
      BY <1>2, <1>13, <2>4, <3>1, <3>2, <3>3
  <2>5. CASE /\ \A d \in Dep(id) : Node(M, d).state \notin HasFailed
             /\ ~Cached(key) /\ Record(id, NodeResult(id, done, key, inputs, output))
             /\ entries' = es \union {[key |-> key, bytes |-> output, sound |-> TRUE]}
    <3>1. PICK es2 : es2 = entries'
      OBVIOUS
    <3>2. PICK r : r = NodeResult(id, done, key, Inputs(M, id), OutputOf(key))
      OBVIOUS
    <3>3. es2 = es \union {SoundEntry(key)}
      BY <1>11, <2>5, <3>1
    <3>4. Outcome(M, ad, es, id, r, es2)
      BY <1>3, <1>6, <1>10, <1>12, <2>5, <3>2, <3>3, NodeGetsOutput
    <3> QED
      BY <1>2, <1>4, <1>13, <2>5, <3>1, <3>2, <3>4
  <2> QED
    BY <1>8, <2>1, <2>2, <2>3, <2>4, <2>5
<1> QED
  BY <1>14 DEF id, Recorded

(* A node of the candidate that the baseline has too, while nobody touched *)
(* anything, is found in the cache.                                        *)
LEMMA CandidateReuses ==
    ASSUME NEW b, NEW c, NEW es, NEW d, NEW ad, Undisturbed(b, c, es, d, ad),
           GoodStatus("baseline", b), b.status = "succeeded", c.status \in Written,
           GoodNodes("candidate", c, ad),
           NEW id \in PlanIds("candidate") \ Ids(c), Dep(id) \subseteq Ids(c), id \in Ids(b),
           NEW r, NEW es2, Outcome(c, ad, es, id, r, es2)
    PROVE  Reuses(b, r)
<1>1. /\ GoodNodes("baseline", b, ad) /\ c.source = b.source
      /\ \A n \in Elements(b.nodes) : n.output # Nothing => SoundEntry(n.key) \in es
      /\ \A a \in Elements(c.nodes) : a.id \in Ids(b) => Reuses(b, a)
  BY DEF Undisturbed, Unspoilt
<1> DEFINE n == Node(b, id)
           key == KeyFor(id, Inputs(c, id), c.source, ad)
<1>2. n \in Elements(b.nodes) /\ n.id = id
  BY NodeThere
<1>3. n.output # Nothing
  <2>1. n.state \notin HasFailed
    BY <1>2 DEF GoodStatus
  <2> QED
    BY <1>1, <2>1, DepsFilled
<1>4. /\ Dep(id) \subseteq Ids(b) /\ \A x \in Dep(id) : Node(b, x).output # Nothing
      /\ n.inputs = Inputs(b, id) /\ n.key = KeyFor(id, Inputs(b, id), b.source, ad)
      /\ n.output = OutputOf(n.key)
  BY <1>1, <1>3, NodeMade DEF Stories
<1>5. ASSUME NEW x \in Dep(id) PROVE Node(c, x).output = Node(b, x).output
  <2>1. Node(c, x) \in Elements(c.nodes) /\ Node(c, x).id = x
    BY NodeThere
  <2>2. Reuses(b, Node(c, x))
    BY <1>1, <1>4, <2>1
  <2> QED
    BY <2>1, <2>2 DEF Reuses
<1>6. Inputs(c, id) = Inputs(b, id)
  BY <1>5 DEF Inputs
<1>7. key = n.key /\ SoundEntry(key) \in es
  BY <1>1, <1>2, <1>3, <1>4, <1>6
<1>8. \A x \in Dep(id) : Node(c, x).output # Nothing
  BY <1>4, <1>5
<1> HIDE DEF n
<1>9. /\ r.id = id /\ r.state = "cache_hit" /\ r.key = key /\ r.inputs = Inputs(c, id)
      /\ r.output = OutputOf(key)
  BY <1>7, <1>8 DEF Outcome
<1>10. /\ r.id = id /\ r.state = "cache_hit" /\ r.key = n.key /\ r.inputs = n.inputs
       /\ r.output = n.output
  BY <1>4, <1>6, <1>7, <1>9
<1> QED
  BY <1>10 DEF Reuses, n

LEMMA NodeKeepsManifest ==
    ASSUME NEW story \in Stories, NEW M, M.status = "running", NEW x, GoodManifest(story, M, x),
           NEW ad, GoodNodes(story, M, ad),
           NEW id \in PlanIds(story) \ Ids(M), Dep(id) \subseteq Ids(M),
           NEW es, NEW r, NEW es2, Outcome(M, ad, es, id, r, es2),
           NEW M2, M2 = WithNode(M, r)
    PROVE  /\ GoodManifest(story, M2, ad) /\ M2.status = "running" /\ M2.source = M.source
           /\ Elements(M2.nodes) = Elements(M.nodes) \union {r} /\ Ids(M2) = Ids(M) \union {id}
<1>1. r.id = id
  BY DEF Outcome
<1>2. Filled(M, ad, r) \/ Unfilled(r)
  BY DEF Outcome
<1>3. /\ M2.status = "running" /\ M2.source = M.source
      /\ Elements(M2.nodes) = Elements(M.nodes) \union {r} /\ Ids(M2) = Ids(M) \union {id}
  BY <1>1, NodeAppended DEF GoodNodes
<1>4. GoodNodes(story, M2, ad)
  BY <1>1, <1>2, NodeRecorded
<1>5. M.source \in {"good", "edited"}
  <2>1. M \notin {NoManifest, Litter}
    BY DEF NoManifest, Litter
  <2> QED
    BY <2>1 DEF GoodManifest, GoodStatus
<1> QED
  BY <1>3, <1>4, <1>5 DEF GoodManifest, GoodStatus, Written

LEMMA NodeOfBaseline ==
    ASSUME NEW b, NEW c, NEW es, NEW d, NEW ad, NEW und, StoriesInv(b, c, es, d, ad, und),
           b.status = "running", GoodNodes("baseline", b, ad),
           NEW id \in PlanIds("baseline") \ Ids(b), Dep(id) \subseteq Ids(b),
           NEW r, NEW es2, Outcome(b, ad, es, id, r, es2),
           NEW b2, b2 = WithNode(b, r)
    PROVE  StoriesInv(b2, c, es2, d, ad, und)
<1>1. PICK x : GoodManifest("baseline", b, x)
  BY DEF StoriesInv
<1>2. /\ GoodManifest("baseline", b2, ad) /\ b2.status = "running" /\ b2.source = b.source
      /\ Elements(b2.nodes) = Elements(b.nodes) \union {r}
  BY <1>1, NodeKeepsManifest DEF Stories
<1>3. /\ es \subseteq es2 /\ EntriesTrue(es2)
      /\ r.output # Nothing => SoundEntry(r.key) \in es2
  BY DEF Outcome
<1>4. c = NoManifest
  BY DEF StoriesInv
<1>5. c.status \notin Written /\ Elements(c.nodes) = {}
  BY <1>4 DEF NoManifest, Written, Elements
<1>6. und => Unspoilt(b, es, d, ad)
  BY DEF StoriesInv, Undisturbed
<1>7. Unspoilt(b, es, d, ad) => Unspoilt(b2, es2, d, ad)
  BY <1>2, <1>3 DEF Unspoilt, GoodManifest
<1>8. und => Undisturbed(b2, c, es2, d, ad)
  BY <1>5, <1>6, <1>7 DEF Undisturbed
<1> QED
  BY <1>2, <1>3, <1>4, <1>8 DEF StoriesInv

LEMMA NodeOfCandidate ==
    ASSUME NEW b, NEW c, NEW es, NEW d, NEW ad, NEW und, StoriesInv(b, c, es, d, ad, und),
           c.status = "running", GoodNodes("candidate", c, ad),
           NEW id \in PlanIds("candidate") \ Ids(c), Dep(id) \subseteq Ids(c),
           NEW r, NEW es2, Outcome(c, ad, es, id, r, es2),
           NEW c2, c2 = WithNode(c, r)
    PROVE  StoriesInv(b, c2, es2, d, ad, und)
<1>1. PICK x : GoodManifest("candidate", c, x)
  BY DEF StoriesInv
<1>2. PICK y : GoodManifest("baseline", b, y)
  BY DEF StoriesInv
<1>3. /\ GoodManifest("candidate", c2, ad) /\ c2.status = "running" /\ c2.source = c.source
      /\ Elements(c2.nodes) = Elements(c.nodes) \union {r}
  BY <1>1, NodeKeepsManifest DEF Stories
<1>4. r.id = id /\ es \subseteq es2 /\ EntriesTrue(es2)
  BY DEF Outcome
<1>5. c # NoManifest /\ c.status \in Written
  BY DEF NoManifest, Written
<1>6. b.status = "succeeded"
  BY <1>5 DEF StoriesInv
<1>7. ASSUME Undisturbed(b, c, es, d, ad) PROVE Undisturbed(b, c2, es2, d, ad)
  <2>1. /\ Unspoilt(b, es, d, ad) /\ c.source = b.source
        /\ \A a \in Elements(c.nodes) : a.id \in Ids(b) => Reuses(b, a)
    BY <1>5, <1>6, <1>7 DEF Undisturbed
  <2>2. Unspoilt(b, es2, d, ad)
    BY <1>4, <2>1 DEF Unspoilt
  <2>3. id \in Ids(b) => Reuses(b, r)
    BY <1>2, <1>5, <1>6, <1>7, CandidateReuses DEF GoodManifest
  <2> QED
    BY <1>3, <1>4, <2>1, <2>2, <2>3 DEF Undisturbed
<1> QED
  BY <1>2, <1>3, <1>4, <1>6, <1>7 DEF StoriesInv

LEMMA NodesKeepTour == ASSUME OrderInv, TourInv, BuildNode PROVE TourInv'
<1>1. tour \in TourSet /\ tour.story \in Stories /\ tour.pc = "build"
  BY DEF OrderInv, TourRecs, TourSet, BuildNode
<1>2. PICK story, old, M, ad, es, left, d, und :
         /\ story = tour.story /\ old = manifests /\ M = old[story] /\ ad = adapter /\ es = entries
         /\ left = tour.left /\ d = demo /\ und = undisturbed
  OBVIOUS
<1>3. /\ StoriesInv(old["baseline"], old["candidate"], es, d, ad, und) /\ DOMAIN old = Stories
      /\ M.status = "running" /\ GoodNodes(story, M, ad) /\ InLine(story, M, left)
      /\ story = "candidate" => old["baseline"].status = "succeeded"
      /\ ad \in Adapters /\ und \in BOOLEAN /\ EntriesTrue(es)
  BY <1>1, <1>2 DEF TourInv, PlaceInv, StoriesInv
<1>4. PICK r, es2 : /\ es2 = entries' /\ Outcome(M, ad, es, Head(left), r, es2)
                    /\ manifests' = [manifests EXCEPT ![story] = WithNode(M, r)]
                    /\ tour' = [tour EXCEPT !.left = Tail(left)] /\ left # << >>
  BY <1>1, <1>2, <1>3, NodeOutcome
<1>5. PICK M2 : M2 = WithNode(M, r)
  OBVIOUS
<1>6. PICK ms2 : ms2 = [old EXCEPT ![story] = M2]
  OBVIOUS
<1>7. PICK t, s : t = [tour EXCEPT !.left = Tail(left)] /\ s = sort'
  OBVIOUS
<1>8. t.pc = "build" /\ t.story = story /\ t.left = Tail(left)
  BY <1>1, <1>2, <1>7 DEF TourSet
<1>9. /\ r.id = Head(left) /\ Head(left) \in PlanIds(story) \ Ids(M)
      /\ Dep(Head(left)) \subseteq Ids(M) /\ InLine(story, M2, Tail(left))
  <2>1. r.id = Head(left)
    BY <1>4 DEF Outcome
  <2>2. Head(left) \notin Ids(M)
    <3>1. left \in Seq(Nat) /\ Head(left) = left[1]
      BY <1>3, <1>4 DEF InLine
    <3>2. 1 \in DOMAIN left
      BY <1>4, <3>1
    <3> QED
      BY <1>3, <3>1, <3>2 DEF InLine, Elements
  <2>3. Ids(M2) = Ids(M) \union {Head(left)}
    BY <1>3, <1>5, <2>1, <2>2, NodeAppended DEF GoodNodes
  <2> QED
    BY <1>3, <1>4, <2>1, <2>3, NextInLine
<1>10. /\ StoriesInv(ms2["baseline"], ms2["candidate"], es2, d, ad, und)
       /\ DOMAIN ms2 = Stories /\ ms2[story] = M2 /\ GoodNodes(story, M2, ad)
       /\ M2.status = "running"
  <2>1. story \in Stories /\ M = old[story]
    BY <1>1, <1>2
  <2>2. PICK id : id = Head(left)
    OBVIOUS
  <2>3. id \in PlanIds(story) \ Ids(M) /\ Dep(id) \subseteq Ids(M) /\ Outcome(M, ad, es, id, r, es2)
    BY <1>4, <1>9, <2>2
  <2>4. /\ DOMAIN ms2 = Stories /\ ms2[story] = M2
        /\ \A other \in Stories : other # story => ms2[other] = old[other]
    BY <1>3, <1>6, <2>1
  <2>5. PICK x : GoodManifest(story, M, x)
    BY <1>3, <2>1 DEF StoriesInv, Stories
  <2>6. GoodManifest(story, M2, ad) /\ M2.status = "running"
    BY <1>3, <1>5, <2>1, <2>3, <2>5, NodeKeepsManifest
  <2>7. CASE story = "baseline"
    <3>1. StoriesInv(M2, old["candidate"], es2, d, ad, und)
      BY <1>3, <1>5, <2>1, <2>3, <2>7, NodeOfBaseline
    <3> QED
      BY <2>4, <2>6, <2>7, <3>1 DEF Stories, GoodManifest
  <2>8. CASE story = "candidate"
    <3>1. StoriesInv(old["baseline"], M2, es2, d, ad, und)
      BY <1>3, <1>5, <2>1, <2>3, <2>8, NodeOfCandidate
    <3> QED
      BY <2>4, <2>6, <2>8, <3>1 DEF Stories, GoodManifest
  <2> QED
    BY <2>1, <2>7, <2>8 DEF Stories
<1>11. story = "candidate" => ms2["baseline"].status = "succeeded"
  BY <1>1, <1>2, <1>3, <1>6 DEF Stories
<1>12. PlaceInv(t, ms2, d, ad, s)
  BY <1>8, <1>9, <1>10, <1>11 DEF PlaceInv
<1>13. /\ tour' = t /\ manifests' = ms2 /\ entries' = es2 /\ demo' = d /\ adapter' = ad
       /\ undisturbed' = und /\ sort' = s
  BY <1>2, <1>4, <1>5, <1>6, <1>7 DEF BuildNode
<1> QED
  BY <1>3, <1>10, <1>12, <1>13, TourNow

LEMMA EndOfBaseline ==
    ASSUME NEW b, NEW c, NEW es, NEW d, NEW ad, NEW und, StoriesInv(b, c, es, d, ad, und),
           b.status = "running", GoodNodes("baseline", b, ad),
           NEW status \in {"succeeded", "failed", "interrupted"},
           NEW b2, b2 = [b EXCEPT !.status = status], GoodStatus("baseline", b2)
    PROVE  StoriesInv(b2, c, es, d, ad, und)
<1>1. /\ GoodNodes("baseline", b2, ad) /\ b2.status = status /\ b2.source = b.source
      /\ b2.nodes = b.nodes
  BY StatusChanged
<1>2. c = NoManifest
  BY DEF StoriesInv
<1>3. c.status \notin Written /\ Elements(c.nodes) = {}
  BY <1>2 DEF NoManifest, Written, Elements
<1>4. und => Unspoilt(b, es, d, ad)
  BY DEF StoriesInv, Undisturbed
<1>5. Unspoilt(b, es, d, ad) => Unspoilt(b2, es, d, ad)
  BY <1>1 DEF Unspoilt
<1>6. und => Undisturbed(b2, c, es, d, ad)
  BY <1>3, <1>4, <1>5 DEF Undisturbed
<1> QED
  BY <1>1, <1>2, <1>6 DEF StoriesInv, GoodManifest

LEMMA EndOfCandidate ==
    ASSUME NEW b, NEW c, NEW es, NEW d, NEW ad, NEW und, StoriesInv(b, c, es, d, ad, und),
           c.status = "running", GoodNodes("candidate", c, ad),
           NEW status \in {"succeeded", "failed", "interrupted"},
           NEW c2, c2 = [c EXCEPT !.status = status], GoodStatus("candidate", c2)
    PROVE  StoriesInv(b, c2, es, d, ad, und)
<1>1. /\ GoodNodes("candidate", c2, ad) /\ c2.status = status /\ c2.source = c.source
      /\ c2.nodes = c.nodes
  BY StatusChanged
<1>2. c # NoManifest /\ c.status \in Written
  BY DEF NoManifest, Written
<1>3. b.status = "succeeded"
  BY <1>2 DEF StoriesInv
<1>4. Undisturbed(b, c, es, d, ad) => Undisturbed(b, c2, es, d, ad)
  BY <1>1, <1>2 DEF Undisturbed
<1> QED
  BY <1>1, <1>3, <1>4 DEF StoriesInv, GoodManifest

LEMMA EndKeepsTour ==
    ASSUME OrderInv, TourInv, tour.pc = "build", UNCHANGED <<entries, demo, adapter, undisturbed>>,
           NEW status \in {"succeeded", "failed", "interrupted"},
           NEW M2, M2 = [manifests[tour.story] EXCEPT !.status = status],
           GoodStatus(tour.story, M2),
           manifests' = [manifests EXCEPT ![tour.story].status = status],
           tour'.pc \in {"idle", "prepare", "compare"},
           tour'.pc = "idle" => tour'.story = "baseline",
           tour'.story = "candidate" => tour.story = "candidate" \/ status = "succeeded"
    PROVE  TourInv'
<1>1. tour \in TourSet /\ tour.story \in Stories
  BY DEF OrderInv, TourRecs, TourSet
<1>2. PICK story, old, M, ad, es, d, und :
         /\ story = tour.story /\ old = manifests /\ M = old[story] /\ ad = adapter /\ es = entries
         /\ d = demo /\ und = undisturbed
  OBVIOUS
<1>3. PICK ms2, t, s : ms2 = manifests' /\ t = tour' /\ s = sort'
  OBVIOUS
<1>4. /\ StoriesInv(old["baseline"], old["candidate"], es, d, ad, und) /\ DOMAIN old = Stories
      /\ M.status = "running" /\ GoodNodes(story, M, ad)
      /\ ad \in Adapters /\ und \in BOOLEAN
      /\ story = "candidate" => old["baseline"].status = "succeeded"
  BY <1>1, <1>2 DEF TourInv, PlaceInv
<1>5. M2 = [M EXCEPT !.status = status] /\ GoodStatus(story, M2) /\ story \in Stories
  BY <1>1, <1>2
<1>6. ms2 = [old EXCEPT ![story] = M2]
  BY <1>2, <1>3, <1>5
<1>7. /\ DOMAIN ms2 = Stories /\ ms2[story] = M2
      /\ \A other \in Stories : other # story => ms2[other] = old[other]
  BY <1>4, <1>5, <1>6
<1>8. M2.status = status
  BY <1>4, <1>5, StatusChanged
<1>9. /\ StoriesInv(ms2["baseline"], ms2["candidate"], es, d, ad, und)
      /\ t.story = "candidate" => ms2["baseline"].status = "succeeded"
  <2>1. CASE story = "baseline"
    <3>1. StoriesInv(M2, old["candidate"], es, d, ad, und)
      BY <1>2, <1>4, <1>5, <2>1, EndOfBaseline
    <3> QED
      BY <1>2, <1>3, <1>7, <1>8, <2>1, <3>1 DEF Stories
  <2>2. CASE story = "candidate"
    <3>1. StoriesInv(old["baseline"], M2, es, d, ad, und)
      BY <1>2, <1>4, <1>5, <2>2, EndOfCandidate
    <3> QED
      BY <1>4, <1>7, <2>2, <3>1 DEF Stories
  <2> QED
    BY <1>5, <2>1, <2>2 DEF Stories
<1>10. PlaceInv(t, ms2, d, ad, s)
  BY <1>3, <1>9 DEF PlaceInv
<1>11. /\ tour' = t /\ manifests' = ms2 /\ entries' = es /\ demo' = d /\ adapter' = ad
       /\ undisturbed' = und /\ sort' = s
  BY <1>2, <1>3
<1> QED
  BY <1>4, <1>7, <1>9, <1>10, <1>11, TourNow

LEMMA RunningStatus ==
    ASSUME NEW story \in Stories, NEW M, M.status = "running", NEW x, GoodManifest(story, M, x),
           NEW status, NEW M2, M2 = [M EXCEPT !.status = status],
           \/ status = "interrupted"
           \/ /\ status = "succeeded" /\ Ids(M) = PlanIds(story)
              /\ \A node \in Elements(M.nodes) : node.state \notin HasFailed
           \/ status = "failed" /\ \E node \in Elements(M.nodes) : node.state \in HasFailed
    PROVE  GoodStatus(story, M2)
<1>1. M \notin {NoManifest, Litter}
  BY DEF NoManifest, Litter
<1>2. M.source \in {"good", "edited"}
  BY <1>1 DEF GoodManifest, GoodStatus
<1>3. /\ M2.status = status /\ M2.source = M.source /\ M2.nodes = M.nodes /\ Ids(M2) = Ids(M)
  BY StatusChanged DEF GoodManifest
<1> QED
  BY <1>2, <1>3 DEF GoodStatus, Written

LEMMA FinishKeepsTour == ASSUME OrderInv, TourInv, FinishBuild PROVE TourInv'
<1>1. tour \in TourSet /\ tour.story \in Stories /\ tour.pc = "build" /\ tour.left = << >>
  BY DEF OrderInv, TourRecs, TourSet, FinishBuild
<1>2. PICK story, M : story = tour.story /\ M = manifests[story]
  OBVIOUS
<1>3. PICK x : GoodManifest(story, M, x)
  BY <1>1, <1>2 DEF TourInv, StoriesInv, Stories
<1>4. M.status = "running" /\ InLine(story, M, << >>) /\ story \in Stories
  BY <1>1, <1>2 DEF TourInv, PlaceInv
<1>5. Ids(M) = PlanIds(story)
  <2>1. Elements(<< >>) = {}
    BY DEF Elements
  <2> QED
    BY <1>4, <2>1 DEF InLine
<1> DEFINE good == \A node \in Elements(M.nodes) : node.state \notin HasFailed
<1>6. UNCHANGED <<entries, demo, adapter, undisturbed>>
  BY DEF FinishBuild
<1>7. CASE good
  <2>1. PICK M2 : M2 = [M EXCEPT !.status = "succeeded"]
    OBVIOUS
  <2>2. GoodStatus(story, M2)
    BY <1>3, <1>4, <1>5, <1>7, <2>1, RunningStatus
  <2>3. /\ manifests' = [manifests EXCEPT ![tour.story].status = "succeeded"]
        /\ tour' = AfterStory(tour.story)
    BY <1>2, <1>7 DEF FinishBuild
  <2>4. M2.status = "succeeded"
    BY <1>3, <2>1, StatusChanged DEF GoodManifest
  <2>5. AfterStory(tour.story).pc \in {"prepare", "compare"}
    BY <2>4, NextStory
  <2> QED
    BY <1>1, <1>2, <1>6, <2>1, <2>2, <2>3, <2>5, EndKeepsTour
<1>8. CASE ~good
  <2>1. PICK M2 : M2 = [M EXCEPT !.status = "failed"]
    OBVIOUS
  <2>2. GoodStatus(story, M2)
    BY <1>3, <1>4, <1>8, <2>1, RunningStatus
  <2>3. /\ manifests' = [manifests EXCEPT ![tour.story].status = "failed"]
        /\ tour' = Exit("build failed")
    BY <1>2, <1>8 DEF FinishBuild
  <2>4. tour'.pc = "idle" /\ tour'.story = "baseline"
    BY <2>3, ExitsAreIdle
  <2> QED
    BY <1>1, <1>2, <1>6, <2>1, <2>2, <2>3, <2>4, EndKeepsTour
<1> QED
  BY <1>7, <1>8

LEMMA StopsKeepTour == ASSUME OrderInv, TourInv, InterruptTour \/ KillTour PROVE TourInv'
<1>1. tour \in TourSet /\ tour.story \in Stories
  BY DEF OrderInv, TourRecs, TourSet
<1>2. UNCHANGED <<entries, demo, adapter, undisturbed>>
  BY DEF InterruptTour, KillTour, Stops
<1>3. CASE InterruptTour /\ tour.pc = "build"
  <2>1. PICK story, M : story = tour.story /\ M = manifests[story]
    OBVIOUS
  <2>2. PICK x : GoodManifest(story, M, x)
    BY <1>1, <2>1 DEF TourInv, StoriesInv, Stories
  <2>3. M.status = "running" /\ story \in Stories
    BY <1>1, <1>3, <2>1 DEF TourInv, PlaceInv
  <2>4. PICK M2 : M2 = [M EXCEPT !.status = "interrupted"]
    OBVIOUS
  <2>5. GoodStatus(story, M2)
    BY <2>2, <2>3, <2>4, RunningStatus
  <2>6. /\ manifests' = [manifests EXCEPT ![tour.story].status = "interrupted"]
        /\ tour' = Exit("interrupted")
    BY <1>3 DEF InterruptTour
  <2>7. tour'.pc = "idle" /\ tour'.story = "baseline"
    BY <2>6, ExitsAreIdle
  <2> QED
    BY <1>2, <1>3, <2>1, <2>4, <2>5, <2>6, <2>7, EndKeepsTour
<1>4. CASE InterruptTour /\ tour.pc # "build"
  <2>1. /\ tour' = Exit("interrupted")
        /\ manifests' = manifests \/ (tour.pc = "sort" /\ manifests' = Littered)
    BY <1>4 DEF InterruptTour
  <2> QED
    BY <1>2, <2>1, LitterKeepsTour
<1>5. CASE KillTour
  <2>1. /\ tour' = Exit("killed")
        /\ manifests' = manifests \/ (tour.pc = "sort" /\ manifests' = Littered)
    BY <1>5 DEF KillTour
  <2> QED
    BY <1>2, <2>1, LitterKeepsTour
<1> QED
  BY <1>3, <1>4, <1>5

LEMMA OwnersKeepTour ==
    ASSUME OrderInv, TourInv,
           \/ EditInput \/ RemoveInput \/ UpgradePackage \/ NewRunRoot
           \/ \E entry \in entries : SpoilEntry(entry)
    PROVE  TourInv'
<1>1. UNCHANGED <<tour, sort>>
  BY DEF EditInput, RemoveInput, UpgradePackage, NewRunRoot, SpoilEntry, OwnerActs
<1>2. PICK b, c, es, d, ad, und :
         /\ b = manifests["baseline"] /\ c = manifests["candidate"] /\ es = entries /\ d = demo
         /\ ad = adapter /\ und = undisturbed
  OBVIOUS
<1>3. StoriesInv(b, c, es, d, ad, und) /\ ad \in Adapters /\ und \in BOOLEAN
  BY <1>2 DEF TourInv
<1>4. CASE NewRunRoot
  <2>1. PICK ms2 : ms2 = manifests'
    OBVIOUS
  <2>2. /\ ms2 = [story \in Stories |-> NoManifest] /\ tour.pc = "idle"
        /\ UNCHANGED <<entries, demo, adapter, undisturbed>>
    BY <1>4, <2>1 DEF NewRunRoot, TourRuns
  <2>3. DOMAIN ms2 = Stories /\ ms2["baseline"] = NoManifest /\ ms2["candidate"] = NoManifest
    BY <2>2 DEF Stories
  <2>4. /\ \A story, x : GoodManifest(story, NoManifest, x)
        /\ Elements(NoManifest.nodes) = {} /\ NoManifest.status \notin Written
        /\ NoManifest.status = "none"
    BY EmptyManifest DEF NoManifest, Written
  <2>5. Undisturbed(NoManifest, NoManifest, es, d, ad)
    BY <2>4 DEF Undisturbed
  <2>6. StoriesInv(NoManifest, NoManifest, es, d, ad, und)
    BY <1>3, <2>4, <2>5 DEF StoriesInv
  <2>7. tour.story = "baseline"
    BY <2>2 DEF TourInv, PlaceInv
  <2>8. PlaceInv(tour, ms2, d, ad, sort)
    BY <2>2, <2>7 DEF PlaceInv
  <2> QED
    BY <1>1, <1>2, <1>3, <2>1, <2>2, <2>3, <2>6, <2>8, TourNow
<1>5. CASE \/ EditInput \/ RemoveInput \/ UpgradePackage
           \/ \E entry \in entries : SpoilEntry(entry)
  <2>1. PICK es2, d2, ad2 : es2 = entries' /\ d2 = demo' /\ ad2 = adapter'
    OBVIOUS
  <2>2. undisturbed' = FALSE /\ UNCHANGED manifests
    BY <1>5 DEF EditInput, RemoveInput, UpgradePackage, SpoilEntry
  <2>3. EntriesTrue(es2)
    <3>1. EntriesTrue(es)
      BY <1>3 DEF StoriesInv
    <3>2. CASE EditInput \/ RemoveInput \/ UpgradePackage
      BY <1>2, <2>1, <3>1, <3>2 DEF EditInput, RemoveInput, UpgradePackage
    <3>3. CASE \E entry \in entries : SpoilEntry(entry)
      <4>1. PICK entry \in es : SpoilEntry(entry)
        BY <1>2, <3>3
      <4>2. PICK spoilt : spoilt = [entry EXCEPT !.sound = FALSE]
        OBVIOUS
      <4>3. es2 = es \ {entry} \/ es2 = (es \ {entry}) \union {spoilt}
        BY <1>2, <2>1, <4>1, <4>2 DEF SpoilEntry
      <4>4. PICK key, sound : sound \in BOOLEAN /\ entry = [SoundEntry(key) EXCEPT !.sound = sound]
        BY <3>1 DEF EntriesTrue
      <4>5. entry.key = key /\ spoilt.key = key
            /\ \E no \in BOOLEAN : spoilt = [SoundEntry(key) EXCEPT !.sound = no]
        <5>1. PICK no \in BOOLEAN : spoilt = [entry EXCEPT !.sound = no]
          BY <4>2
        <5>2. entry = [key |-> key, bytes |-> OutputOf(key), sound |-> sound]
          BY <4>4 DEF SoundEntry
        <5>3. spoilt = [key |-> key, bytes |-> OutputOf(key), sound |-> no]
          BY <5>1, <5>2
        <5>4. [SoundEntry(key) EXCEPT !.sound = no]
                 = [key |-> key, bytes |-> OutputOf(key), sound |-> no]
          BY DEF SoundEntry
        <5> QED
          BY <5>2, <5>3, <5>4
      <4>6. \A one \in es2 :
               \E k, yes : yes \in BOOLEAN /\ one = [SoundEntry(k) EXCEPT !.sound = yes]
        BY <3>1, <4>3, <4>5 DEF EntriesTrue
      <4>7. \A one, other \in es2 : one.key = other.key => one = other
        BY <3>1, <4>3, <4>5 DEF EntriesTrue
      <4> QED
        BY <4>6, <4>7 DEF EntriesTrue
    <3> QED
      BY <1>5, <3>2, <3>3
  <2>4. StoriesInv(b, c, es2, d2, ad2, FALSE)
    BY <1>3, <2>3 DEF StoriesInv
  <2>5. /\ ad2 \in Adapters /\ (tour.pc = "build" => ad2 = ad)
        /\ d2 \in {d, "edited", "absent"} /\ (tour.pc = "write" => d2 = d)
    BY <1>2, <1>3, <1>5, <2>1
       DEF EditInput, RemoveInput, UpgradePackage, SpoilEntry, TourRuns, TourInv, PlaceInv
  <2>6. PlaceInv(tour, manifests, d2, ad2, sort)
    BY <1>2, <2>5 DEF TourInv, PlaceInv
  <2>7. DOMAIN manifests = Stories
    BY DEF TourInv
  <2> QED
    BY <1>1, <1>2, <2>1, <2>2, <2>4, <2>5, <2>6, <2>7, TourNow
<1> QED
  BY <1>4, <1>5

-----------------------------------------------------------------------------
(* The session around it.                                                  *)
ToolEnded == tool.pc = "ended" => tool.outcome \in {"ok", "error", "interrupted"}

LEMMA ToolEndedStep == ASSUME ToolInv, ToolEnded, [ToolNext]_toolVars PROVE ToolEnded'
<1>1. tool \in ToolSet
  BY DEF ToolInv, CallerOK
<1>2. ASSUME NEW outcome \in {"ok", "error", "interrupted"}, tool' = End(outcome) PROVE ToolEnded'
  BY <1>2 DEF End, ToolEnded
<1>3. ASSUME NEW label, label # "ended", Goto(label) PROVE ToolEnded'
  BY <1>1, <1>3 DEF Goto, ToolEnded, ToolSet
<1>4. ASSUME UNCHANGED tool PROVE ToolEnded'
  BY <1>4 DEF ToolEnded
<1>5. ASSUME NEW label, label # "ended", tool'.pc = label PROVE ToolEnded'
  BY <1>5 DEF ToolEnded
<1>6. CASE \/ WaitReturns \/ PollFindsExit \/ GraceReturns \/ ReapKilled \/ TermGroup \/ KillGroup
           \/ JoinReaders \/ JoinTimesOut \/ CloseStdout \/ CloseStderr \/ StartReaders
  BY <1>3, <1>6 DEF WaitReturns, PollFindsExit, GraceReturns, ReapKilled, ReapAnd, TermGroup,
     KillGroup, JoinReaders, JoinTimesOut, CloseStdout, CloseStderr, ClosePipe, StartReaders
<1>7. CASE LeaderExits \/ LeaderObeys \/ ChildExits \/ UNCHANGED toolVars
  BY <1>4, <1>7 DEF LeaderExits, LeaderObeys, ChildExits, toolVars
<1>8. CASE \E s \in Streams : Reader(s)
  BY <1>4, <1>8 DEF Reader, ReadChunk, TakeLock, KeepChunk, ReadClosed
<1>9. CASE CopySource
  BY <1>2, <1>3, <1>9 DEF CopySource
<1>10. CASE Popen \/ WaitTimesOut
  <2>1. tool'.pc \in {"spawned", "poll"}
    BY <1>1, <1>10 DEF Popen, WaitTimesOut, ToolSet
  <2> QED
    BY <1>5, <2>1
<1>11. CASE PopenFails
  <2>1. CASE tool' = End("error")
    BY <1>2, <2>1
  <2>2. CASE tool' = [tool EXCEPT !.calls = Tail(tool.calls)]
    <3>1. tool'.pc = "next"
      BY <1>1, <1>11, <2>2 DEF PopenFails, ToolSet
    <3> QED
      BY <1>5, <3>1
  <2> QED
    BY <1>11, <2>1, <2>2 DEF PopenFails
<1>12. CASE RunReturns
  BY <1>2, <1>12 DEF RunReturns
<1>13. CASE CallReturns
  <2>1. CASE tool' = End("interrupted") \/ tool' = End("error")
    BY <1>2, <2>1
  <2>2. CASE \E calls : tool' = [tool EXCEPT !.pc = "next", !.calls = calls, !.timedOut = FALSE]
    <3>1. tool'.pc = "next"
      BY <1>1, <2>2 DEF ToolSet
    <3> QED
      BY <1>5, <3>1
  <2> QED
    BY <1>13, <2>1, <2>2 DEF CallReturns
<1>14. CASE ToolInterrupt
  <2>1. CASE tool' = End("interrupted")
    BY <1>2, <2>1
  <2>2. CASE tool' # End("interrupted")
    <3>1. tool'.pc \in {"poll", "join"}
      BY <1>1, <1>14, <2>2 DEF ToolInterrupt, ToolSet
    <3> QED
      BY <1>5, <3>1
  <2> QED
    BY <2>1, <2>2
<1>15. CASE \E kind \in NodeKinds : ToolStart(kind)
  <2>1. tool'.pc \in {"copy", "next"}
    BY <1>15 DEF ToolStart, Idle
  <2> QED
    BY <1>5, <2>1
<1> QED
  BY <1>6, <1>7, <1>8, <1>9, <1>10, <1>11, <1>12, <1>13, <1>14, <1>15 DEF ToolNext, Caller

MainSet == [pc : {"idle", "notice", "command"}, command : Commands, exit : ExitCodes]

(* A process that is at work does what the session is about, and so does   *)
(* the tour.                                                               *)
FocusInv ==
    /\ focus \in Foci /\ main \in [Procs -> MainSet]
    /\ \A p \in Procs : main[p].pc # "idle" => main[p].command = CommandOf[focus]
    /\ TourRuns => focus = "tour"

PartsInv == ToolInv /\ ToolEnded /\ OrderInv

LEMMA PartsStepInv == ASSUME PartsInv, [CommandNext]_commandVars PROVE PartsInv'
<1>1. [ToolNext]_toolVars
  BY ToolSteps
<1> QED
  BY <1>1, StepInv, ToolEndedStep, OrderStepInv DEF PartsInv

LEMMA OneMain ==
    ASSUME FocusInv, NEW p \in Procs, NEW rec \in MainSet, main' = [main EXCEPT ![p] = rec],
           UNCHANGED focus, rec.pc # "idle" => rec.command = CommandOf[focus]
    PROVE  /\ focus' \in Foci /\ main' \in [Procs -> MainSet]
           /\ \A q \in Procs : main'[q].pc # "idle" => main'[q].command = CommandOf[focus']
BY DEF FocusInv

LEMMA CommandsAre ==
    ASSUME FocusInv
    PROVE  /\ CommandOf[focus] \in Commands
           /\ CommandOf[focus] = "tour" => focus = "tour"
           /\ CommandOf[focus] = "plan" => focus = "plan"
<1>1. /\ CommandOf["notice"] = "status" /\ CommandOf["tool"] = "build"
      /\ CommandOf["tour"] = "tour" /\ CommandOf["plan"] = "plan"
      /\ CommandOf["release"] = "status"
  BY DEF CommandOf
<1> QED
  BY <1>1 DEF FocusInv, Foci, Commands

LEMMA ExitsAreCodes ==
    ASSUME PartsInv, NEW command \in Commands, NEW code \in CommandExit(command)
    PROVE  code \in ExitCodes
<1>1. tour.exit \in ExitCodes
  BY DEF PartsInv, OrderInv, TourRecs, TourSet
<1>2. ASSUME tool.pc = "ended"
      PROVE  [ok |-> "ok", error |-> "build failed", interrupted |-> "interrupted"][tool.outcome]
                \in ExitCodes
  <2> DEFINE f == [ok |-> "ok", error |-> "build failed", interrupted |-> "interrupted"]
  <2>1. f["ok"] = "ok" /\ f["error"] = "build failed" /\ f["interrupted"] = "interrupted"
    OBVIOUS
  <2>2. tool.outcome \in {"ok", "error", "interrupted"}
    BY <1>2 DEF PartsInv, ToolEnded
  <2> HIDE DEF f
  <2>3. f[tool.outcome] \in ExitCodes
    BY <2>1, <2>2 DEF ExitCodes
  <2> QED
    BY <2>3 DEF f
<1>3. CASE command = "tour"
  BY <1>1, <1>3 DEF CommandExit
<1>4. CASE command = "build"
  BY <1>2, <1>4 DEF CommandExit
<1>5. CASE command = "plan"
  BY <1>5 DEF CommandExit, ExitCodes
<1>6. CASE command = "status"
  BY <1>6 DEF CommandExit, ExitCodes
<1> QED
  BY <1>3, <1>4, <1>5, <1>6 DEF Commands

LEMMA FocusInitInv == CommandInit => FocusInv
BY DEF CommandInit, FocusInv, MainSet, NoMain, Commands, ExitCodes, TourRuns, TourInit, NoTour

LEMMA FocusStepInv ==
    ASSUME PartsInv, FocusInv, [CommandNext]_commandVars PROVE FocusInv'
<1> DEFINE Mains == /\ focus' \in Foci /\ main' \in [Procs -> MainSet]
                    /\ \A q \in Procs : main'[q].pc # "idle" => main'[q].command = CommandOf[focus']
<1>1. CommandOf[focus] \in Commands
  BY CommandsAre
<1>2. UNCHANGED <<main, focus>> => Mains
  BY DEF FocusInv
<1>3. ASSUME NEW p \in Procs, MainStarts(p) PROVE Mains
  <2> DEFINE rec == [NoMain EXCEPT !.pc = "notice", !.command = CommandOf[focus]]
  <2>1. rec \in MainSet /\ rec.command = CommandOf[focus]
    BY <1>1 DEF MainSet, NoMain, ExitCodes
  <2>2. main' = [main EXCEPT ![p] = rec] /\ UNCHANGED focus
    BY <1>3 DEF MainStarts
  <2> QED
    BY <2>1, <2>2, OneMain
<1>4. ASSUME NEW p \in Procs, Dispatch(p) PROVE Mains
  <2> DEFINE rec == [main[p] EXCEPT !.pc = "command"]
  <2>1. main[p] \in MainSet /\ main[p].pc = "notice" /\ main[p].command = CommandOf[focus]
    BY <1>4 DEF FocusInv, Dispatch
  <2>2. rec \in MainSet /\ rec.command = CommandOf[focus]
    BY <2>1 DEF MainSet
  <2>3. main' = [main EXCEPT ![p] = rec] /\ UNCHANGED focus
    BY <1>4 DEF Dispatch
  <2> QED
    BY <2>2, <2>3, OneMain
<1>5. ASSUME NEW p \in Procs, NEW code \in ExitCodes, UNCHANGED focus,
             main' = [main EXCEPT ![p].pc = "idle", ![p].exit = code]
      PROVE  Mains
  <2> DEFINE rec == [main[p] EXCEPT !.pc = "idle", !.exit = code]
  <2>1. rec \in MainSet /\ rec.pc = "idle"
    BY DEF MainSet, FocusInv
  <2>2. main' = [main EXCEPT ![p] = rec] /\ UNCHANGED focus
    BY <1>5
  <2> QED
    BY <2>1, <2>2, OneMain
<1>6. ASSUME NEW p \in Procs, PlanRefused(p) PROVE Mains
  <2>1. "usage" \in ExitCodes
    BY DEF ExitCodes
  <2>2. main' = [main EXCEPT ![p].pc = "idle", ![p].exit = "usage"] /\ UNCHANGED focus
    BY <1>6 DEF PlanRefused
  <2> QED
    BY <1>5, <2>1, <2>2
<1>7. ASSUME NEW p \in Procs, NoticeRaises(p) \/ NoticeCutShort(p) PROVE Mains
  <2>1. "interrupted" \in ExitCodes /\ "traceback" \in ExitCodes
    BY DEF ExitCodes
  <2>2. CASE NoticeRaises(p)
    BY <1>5, <2>1, <2>2 DEF NoticeRaises
  <2>3. CASE NoticeCutShort(p)
    BY <1>5, <2>1, <2>3 DEF NoticeCutShort
  <2> QED
    BY <1>7, <2>2, <2>3
<1>8. ASSUME NEW p \in Procs, MainEnds(p) PROVE Mains
  <2>1. PICK code \in CommandExit(main[p].command) :
           main' = [main EXCEPT ![p].pc = "idle", ![p].exit = code]
    BY <1>8 DEF MainEnds
  <2>2. main[p].command \in Commands
    BY DEF FocusInv, MainSet
  <2>3. code \in ExitCodes
    BY <2>2, ExitsAreCodes
  <2> QED
    BY <1>5, <1>8, <2>1, <2>3 DEF MainEnds
<1>9. Mains
  BY <1>2, <1>3, <1>4, <1>6, <1>7, <1>8 DEF CommandNext, CommandStep, Sessions, GiveNotice, Notices,
     Tools, Tours, SortPlan, ReleaseStep, commandVars
<1>10. TourRuns' => focus' = "tour"
  <2>1. UNCHANGED focus
    BY DEF CommandNext, CommandStep, Sessions, MainStarts, GiveNotice, Dispatch, PlanRefused,
       MainEnds, NoticeRaises, NoticeCutShort, Notices, Tools, Tours, SortPlan, ReleaseStep,
       commandVars
  <2>2. CASE UNCHANGED tour
    BY <2>1, <2>2 DEF FocusInv, TourRuns
  <2>3. CASE TourRuns
    BY <2>1, <2>3 DEF FocusInv
  <2>4. CASE \E p \in Procs : Dispatch(p)
    <3>1. PICK p \in Procs : Dispatch(p)
      BY <2>4
    <3>2. main[p].command = CommandOf[focus]
      BY <3>1 DEF FocusInv, Dispatch
    <3>3. main[p].command = "tour" \/ UNCHANGED tour
      BY <3>1 DEF Dispatch, tourVars
    <3> QED
      BY <2>1, <2>2, <3>2, <3>3, CommandsAre
  <2>5. TourStepOrOwner => TourRuns \/ UNCHANGED tour
    BY DEF TourStepOrOwner, TourStep, PrepareWrites, PrepareWritten, PrepareFinds, LoadRefuses,
       BeginBuild, ReuseRun, RefuseRun, OrderNodes, FirstManifest, BuildNode, FinishBuild,
       PrintDiff,
       InterruptTour, KillTour, Stops, EditInput, RemoveInput, UpgradePackage, NewRunRoot,
       SpoilEntry, OwnerActs, TourRuns
  <2> QED
    BY <2>2, <2>3, <2>4, <2>5 DEF CommandNext, CommandStep, Sessions, MainStarts, GiveNotice,
       PlanRefused, MainEnds, NoticeRaises, NoticeCutShort, Notices, Tools, SortPlan, ReleaseStep,
       commandVars,
       tourVars
<1> QED
  BY <1>9, <1>10 DEF FocusInv

LEMMA TourStays ==
    ASSUME TourInv, UNCHANGED tourVars, UNCHANGED sort \/ ~TourRuns PROVE TourInv'
<1>1. PICK s : sort' = s
  OBVIOUS
<1>2. PlaceInv(tour, manifests, demo, adapter, s)
  BY <1>1 DEF TourInv, PlaceInv, TourRuns
<1> QED
  BY <1>1, <1>2, TourNow DEF TourInv, tourVars

LEMMA TourInitInv == CommandInit => TourInv
<1> SUFFICES ASSUME CommandInit PROVE TourInv
  OBVIOUS
<1>1. /\ \A story, x : GoodManifest(story, NoManifest, x)
      /\ Elements(NoManifest.nodes) = {} /\ NoManifest.status \notin Written
      /\ NoManifest.status = "none"
  BY EmptyManifest DEF NoManifest, Written
<1>2. /\ manifests = [story \in Stories |-> NoManifest] /\ entries = {} /\ undisturbed = TRUE
      /\ tour.pc = "idle" /\ tour.story = "baseline"
  BY DEF CommandInit, TourInit, NoTour
<1>3. adapter \in Adapters
  BY TourAssumption DEF CommandInit, TourInit
<1>4. /\ DOMAIN manifests = Stories /\ manifests["baseline"] = NoManifest
      /\ manifests["candidate"] = NoManifest
  BY <1>2 DEF Stories
<1>5. EntriesTrue(entries)
  BY <1>2 DEF EntriesTrue
<1>6. Undisturbed(NoManifest, NoManifest, entries, demo, adapter)
  BY <1>1 DEF Undisturbed
<1>7. StoriesInv(NoManifest, NoManifest, entries, demo, adapter, undisturbed)
  BY <1>1, <1>5, <1>6 DEF StoriesInv
<1>8. PlaceInv(tour, manifests, demo, adapter, sort)
  BY <1>2 DEF PlaceInv
<1> QED
  BY <1>2, <1>3, <1>4, <1>7, <1>8 DEF TourInv

LEMMA TourStepInv ==
    ASSUME PartsInv, FocusInv, TourInv, [CommandNext]_commandVars PROVE TourInv'
<1>1. OrderInv
  BY DEF PartsInv
<1>2. CASE TourStepOrOwner
  BY <1>1, <1>2, MovesKeepTour, PreparesKeepTour, BeginKeepsTour, OrderingKeepsTour,
     FirstManifestKeepsTour, NodesKeepTour, FinishKeepsTour, StopsKeepTour, OwnersKeepTour
     DEF TourStepOrOwner, TourStep
<1>3. ASSUME NEW p \in Procs, Dispatch(p) PROVE TourInv'
  <2>1. main[p].command = CommandOf[focus]
    BY <1>3 DEF FocusInv, Dispatch
  <2>2. CASE StartTour
    BY <1>1, <2>2, MovesKeepTour
  <2>3. CASE ~StartTour
    <3>1. UNCHANGED tourVars /\ (UNCHANGED sort \/ main[p].command = "plan")
      BY <1>3, <2>3 DEF Dispatch
    <3>2. main[p].command = "plan" => ~TourRuns
      BY <2>1, CommandsAre DEF FocusInv
    <3> QED
      BY <3>1, <3>2, TourStays
  <2> QED
    BY <2>2, <2>3
<1>4. ASSUME NEW p \in Procs, MainEnds(p) PROVE TourInv'
  <2>1. main[p].command = CommandOf[focus]
    BY <1>4 DEF FocusInv, MainEnds
  <2>2. main[p].command = "plan" => ~TourRuns
    BY <2>1, CommandsAre DEF FocusInv
  <2>3. UNCHANGED tourVars /\ (UNCHANGED sort \/ main[p].command = "plan")
    BY <1>4 DEF MainEnds
  <2> QED
    BY <2>2, <2>3, TourStays
<1>5. CASE SortPlan
  BY <1>5, TourStays DEF SortPlan, FocusInv
<1>6. UNCHANGED <<tourVars, sort>> => TourInv'
  BY TourStays
<1> QED
  BY <1>2, <1>3, <1>4, <1>5, <1>6 DEF CommandNext, CommandStep, Sessions, MainStarts, GiveNotice,
     PlanRefused, NoticeRaises, NoticeCutShort, Notices, Tools, ReleaseStep, commandVars

SessionInv == PartsInv /\ FocusInv /\ TourInv

LEMMA SessionInitInv == CommandInit => SessionInv
<1> SUFFICES ASSUME CommandInit PROVE SessionInv
  OBVIOUS
<1>1. ToolInv /\ ToolEnded
  BY InitInv DEF CommandInit, ToolInit, Idle, ToolEnded
<1> QED
  BY <1>1, OrderInitInv, FocusInitInv, TourInitInv DEF SessionInv, PartsInv

LEMMA SessionStepInv == SessionInv /\ [CommandNext]_commandVars => SessionInv'
BY PartsStepInv, FocusStepInv, TourStepInv DEF SessionInv

LEMMA DiffFollows == TourInv => DiffIsTrue
<1> SUFFICES ASSUME TourInv PROVE DiffIsTrue
  OBVIOUS
<1>1. PICK before, after, x, y :
         /\ before = manifests["baseline"] /\ after = manifests["candidate"]
         /\ GoodManifest("baseline", before, x) /\ GoodManifest("candidate", after, y)
  BY DEF TourInv, StoriesInv
<1>2. ASSUME NEW id \in Ids(before) \intersect Ids(after), NEW b, b = Node(before, id),
             NEW a, a = Node(after, id)
      PROVE  /\ undisturbed => Change(b, a) \in {"unchanged", "reused_from_cache"}
             /\ b.output # Nothing /\ a.output # Nothing =>
                   /\ Change(b, a) = "recorded_output_changed" =>
                         before.source # after.source \/ b.key.adapter[2] # a.key.adapter[2]
                   /\ Change(b, a) = "evidence_changed_same_recorded_output" =>
                         b.key.adapter # a.key.adapter \/ a.state # "cache_hit"
  <2>1. ASSUME undisturbed PROVE Change(b, a) \in {"unchanged", "reused_from_cache"}
    <3>1. a \in Elements(after.nodes) /\ a.id = id
      BY <1>2, NodeThere
    <3>2. \A n \in Elements(after.nodes) : n.id \in Ids(before) => Reuses(before, n)
      BY <1>1, <2>1 DEF TourInv, StoriesInv, Undisturbed
    <3>3. Reuses(before, a)
      BY <3>1, <3>2
    <3>4. a.state = "cache_hit" /\ a.key = b.key /\ a.inputs = b.inputs /\ a.output = b.output
      BY <1>2, <3>1, <3>3 DEF Reuses
    <3> QED
      BY <3>4 DEF Change
  <2>2. ASSUME b.output # Nothing, a.output # Nothing
        PROVE  /\ Change(b, a) = "recorded_output_changed" =>
                     before.source # after.source \/ b.key.adapter[2] # a.key.adapter[2]
               /\ Change(b, a) = "evidence_changed_same_recorded_output" =>
                     b.key.adapter # a.key.adapter \/ a.state # "cache_hit"
    BY <1>1, <1>2, <2>2, DiffOfManifests DEF GoodManifest, Stories
  <2> QED
    BY <2>1, <2>2
<1> QED
  BY <1>1, <1>2 DEF DiffIsTrue

(* Whatever the package writes, however often the owner acts and a tour is *)
(* stopped, and at whichever step: what the tour's diff says of a node has *)
(* the cause that it names.                                                *)
THEOREM DiffsAreTrue == CommandSpec => []DiffIsTrue
<1>1. SessionInv => DiffIsTrue
  BY DiffFollows DEF SessionInv
<1> QED
  BY <1>1, SessionInitInv, SessionStepInv, PTL DEF CommandSpec

-----------------------------------------------------------------------------
(* Types.  What the notice knows of a version came from the server, and no *)
(* stamp is of a time to come.                                             *)
Announced == Current .. server
Informed(c) ==
    /\ c.now <= clock /\ (c.latest = Unknown \/ c.latest \in Announced)
    /\ c.pc \in {"write", "replace"} => c.latest \in Announced

Saved(p) == check[p].pc = "replace" => p \in temps

VersionsInv ==
    /\ server \in Current .. Latest
    /\ cacheFile = NoFile \/ (cacheFile.at <= clock /\ cacheFile.version \in Announced)
    /\ \A p \in Procs : Informed(check[p]) /\ Saved(p)

LEMMA OneInformed ==
    ASSUME NoticeInv, VersionsInv, NEW p \in Procs, NEW rec, check' = [check EXCEPT ![p] = rec],
           UNCHANGED <<clock, server>>, Informed(rec), rec.pc = "replace" => p \in temps',
           temps \ {p} \subseteq temps',
           UNCHANGED cacheFile \/ (cacheFile'.at <= clock /\ cacheFile'.version \in Announced)
    PROVE  VersionsInv'
<1>1. check'[p] = rec /\ \A q \in Procs \ {p} : check'[q] = check[q]
  BY DEF NoticeInv
<1>2. \A r : Informed(r)' <=> (/\ r.now <= clock /\ (r.latest = Unknown \/ r.latest \in Announced)
                               /\ r.pc \in {"write", "replace"} => r.latest \in Announced)
  BY DEF Announced, Informed
<1>3. ASSUME NEW q \in Procs PROVE Informed(check[q])' /\ Saved(q)'
  <2>1. CASE q = p
    BY <1>1, <2>1 DEF Informed, Saved, Announced
  <2>2. CASE q # p
    BY <1>1, <2>2 DEF Informed, Saved, Announced, VersionsInv
  <2> QED
    BY <2>1, <2>2
<1>4. /\ server' \in Current .. Latest
      /\ (cacheFile = NoFile \/ (cacheFile.at <= clock /\ cacheFile.version \in Announced))'
  BY DEF VersionsInv, NoFile, Announced
<1> QED
  BY <1>3, <1>4 DEF VersionsInv

LEMMA VersionsStepInv ==
    ASSUME NoticeInv, VersionsInv, [NoticeNext]_noticeVars PROVE VersionsInv'
<1>1. \A p \in Procs : check[p] \in CheckSet /\ Informed(check[p]) /\ Saved(p)
  BY DEF NoticeInv, VersionsInv
<1>2. /\ clock \in Nat /\ server \in Nat /\ Current \in Nat /\ Current <= server /\ server <= Latest
      /\ Latest \in Nat
  BY NoticeAssumption DEF NoticeInv, VersionsInv
<1>3. Informed(NoCheck)
  BY <1>2 DEF Informed, NoCheck
<1>4. ASSUME NEW p \in Procs, \/ NoticeSkipped(p) \/ NoticeBegins(p) \/ NoticeStops(p)
                              \/ NoticeEnds(p) \/ FetchRaises(p)
      PROVE  VersionsInv'
  <2>1. CASE NoticeSkipped(p)
    <3> DEFINE rec == [check[p] EXCEPT !.pc = "done"]
    <3>1. Informed(rec) /\ rec.pc = "done"
      BY <1>1 DEF Informed, CheckSet
    <3>2. check' = [check EXCEPT ![p] = rec] /\ UNCHANGED <<clock, server, cacheFile, temps>>
      BY <2>1 DEF NoticeSkipped, Become
    <3> HIDE DEF rec
    <3> QED
      BY <3>1, <3>2, OneInformed
  <2>2. CASE NoticeBegins(p)
    <3> DEFINE rec == [NoCheck EXCEPT !.pc = "read", !.now = clock]
    <3>1. Informed(rec) /\ rec.pc = "read"
      BY <1>2 DEF Informed, NoCheck
    <3>2. check' = [check EXCEPT ![p] = rec] /\ UNCHANGED <<clock, server, cacheFile, temps>>
      BY <2>2 DEF NoticeBegins
    <3> HIDE DEF rec
    <3> QED
      BY <3>1, <3>2, OneInformed
  <2>3. CASE NoticeStops(p) \/ NoticeEnds(p) \/ FetchRaises(p)
    <3>1. /\ check' = [check EXCEPT ![p] = NoCheck] /\ UNCHANGED <<clock, server, cacheFile>>
          /\ temps \ {p} \subseteq temps'
      BY <2>3 DEF NoticeStops, NoticeEnds, FetchRaises
    <3>2. NoCheck.pc = "idle"
      BY DEF NoCheck
    <3> QED
      BY <1>3, <3>1, <3>2, OneInformed
  <2> QED
    BY <1>4, <2>1, <2>2, <2>3
<1>5. ASSUME NEW p \in Procs, ReadCache(p) PROVE VersionsInv'
  <2> DEFINE label == IF Fresh(p) THEN "done" ELSE "fetch"
             rec == [check[p] EXCEPT !.pc = label, !.latest = cacheFile.version]
  <2>1. check' = [check EXCEPT ![p] = rec] /\ UNCHANGED <<clock, server, cacheFile, temps>>
    BY <1>5 DEF ReadCache
  <2>2. cacheFile.version = Unknown \/ cacheFile.version \in Announced
    BY DEF VersionsInv, NoFile
  <2>3. /\ rec.pc \in {"done", "fetch"} /\ rec.now = check[p].now
        /\ rec.latest = cacheFile.version
    BY <1>1 DEF CheckSet
  <2> HIDE DEF rec
  <2>4. Informed(rec) /\ rec.pc # "replace"
    BY <1>1, <2>2, <2>3 DEF Informed
  <2> QED
    BY <2>1, <2>4, OneInformed
<1>6. ASSUME NEW p \in Procs, Fetch(p) PROVE VersionsInv'
  <2>1. PICK observed \in {Unknown, server} :
           check' = [check EXCEPT ![p].pc = "write",
                        ![p].latest = IF observed # Unknown THEN observed
                                      ELSE IF @ # Unknown THEN @ ELSE Current]
    BY <1>6 DEF Fetch
  <2> DEFINE version == IF observed # Unknown THEN observed
                        ELSE IF check[p].latest # Unknown THEN check[p].latest ELSE Current
             rec == [check[p] EXCEPT !.pc = "write", !.latest = version]
  <2>2. check' = [check EXCEPT ![p] = rec]
    BY <1>1, <2>1 DEF CheckSet
  <2>3. version \in Announced
    BY <1>1, <1>2, <2>1 DEF Informed, Announced
  <2>4. rec.pc = "write" /\ rec.now = check[p].now /\ rec.latest = version
    BY <1>1 DEF CheckSet
  <2> HIDE DEF rec, version
  <2>5. Informed(rec) /\ rec.pc # "replace"
    BY <1>1, <2>3, <2>4 DEF Informed
  <2> QED
    BY <1>6, <2>2, <2>5, OneInformed DEF Fetch
<1>7. ASSUME NEW p \in Procs, WriteTemporary(p) PROVE VersionsInv'
  <2>1. PICK label \in {"replace", "done"} :
           Become(p, label) /\ temps \subseteq temps' /\ (label = "replace" => p \in temps')
    BY <1>7 DEF WriteTemporary
  <2> DEFINE rec == [check[p] EXCEPT !.pc = label]
  <2>2. /\ rec.pc = label /\ rec.now = check[p].now /\ rec.latest = check[p].latest
        /\ check[p].pc = "write"
    BY <1>1, <1>7 DEF CheckSet, WriteTemporary
  <2>3. check' = [check EXCEPT ![p] = rec] /\ UNCHANGED <<clock, server, cacheFile>>
    BY <1>7, <2>1 DEF Become, WriteTemporary
  <2> HIDE DEF rec
  <2>4. Informed(rec)
    BY <1>1, <2>2 DEF Informed
  <2> QED
    BY <2>1, <2>2, <2>3, <2>4, OneInformed
<1>8. ASSUME NEW p \in Procs, ReplaceCache(p) PROVE VersionsInv'
  <2> DEFINE rec == [check[p] EXCEPT !.pc = "done"]
  <2>1. /\ rec.pc = "done" /\ rec.now = check[p].now /\ rec.latest = check[p].latest
        /\ check[p].pc = "replace"
    BY <1>1, <1>8 DEF CheckSet, ReplaceCache
  <2>2. check' = [check EXCEPT ![p] = rec] /\ UNCHANGED <<clock, server>> /\ temps' = temps \ {p}
    BY <1>8 DEF Become, ReplaceCache
  <2>3. cacheFile'.at <= clock /\ cacheFile'.version \in Announced
    BY <1>1, <1>8, <2>1 DEF ReplaceCache, Stamped, Informed
  <2> HIDE DEF rec
  <2>4. Informed(rec)
    BY <1>1, <2>1 DEF Informed
  <2> QED
    BY <2>1, <2>2, <2>3, <2>4, OneInformed
<1>9. CASE UNCHANGED noticeVars \/ Tick \/ ServerReleases
  <2>1. /\ UNCHANGED <<cacheFile, temps, check>> /\ clock <= clock' /\ clock' \in Nat
        /\ server <= server' /\ server' <= Latest /\ server' \in Nat
    <3>1. CASE UNCHANGED noticeVars
      BY <1>2, <3>1 DEF noticeVars
    <3>2. CASE Tick \/ ServerReleases
      BY <1>2, <3>2 DEF Tick, ServerReleases
    <3> QED
      BY <1>9, <3>1, <3>2
  <2>2. Announced \subseteq Announced'
    BY <1>2, <2>1 DEF Announced
  <2>3. ASSUME NEW p \in Procs PROVE Informed(check[p])' /\ Saved(p)'
    <3>1. check[p].now \in Nat /\ check[p].now <= clock'
      BY <1>1, <1>2, <2>1 DEF CheckSet, Informed
    <3> QED
      BY <1>1, <2>1, <2>2, <3>1 DEF Informed, Saved
  <2>4. (cacheFile = NoFile \/ (cacheFile.at <= clock /\ cacheFile.version \in Announced))'
    <3>1. cacheFile.at \in Nat
      BY DEF NoticeInv
    <3>2. cacheFile.at <= clock => cacheFile.at <= clock'
      BY <1>2, <2>1, <3>1
    <3> QED
      BY <2>1, <2>2, <3>2 DEF VersionsInv, NoFile
  <2> QED
    BY <1>2, <2>1, <2>3, <2>4 DEF VersionsInv
<1> QED
  BY <1>4, <1>5, <1>6, <1>7, <1>8, <1>9 DEF NoticeNext, NoticeStep

LEMMA VersionsInitInv == NoticeInit => VersionsInv
<1> SUFFICES ASSUME NoticeInit PROVE VersionsInv
  OBVIOUS
<1>1. Informed(NoCheck) /\ NoCheck.pc = "idle"
  BY NoticeAssumption DEF NoticeInit, Informed, NoCheck
<1>2. \A p \in Procs : check[p] = NoCheck
  BY DEF NoticeInit
<1> QED
  BY <1>1, <1>2, NoticeAssumption DEF NoticeInit, VersionsInv, Saved

LEMMA NoticeTypes == NoticeInv /\ VersionsInv => NoticeTypeOK
<1> SUFFICES ASSUME NoticeInv, VersionsInv PROVE NoticeTypeOK
  OBVIOUS
<1>1. cacheFile \in [at : 0 .. clock, version : Current .. server] \union {NoFile}
  BY DEF NoticeInv, VersionsInv, Announced
<1>2. ASSUME NEW p \in Procs
      PROVE  /\ check[p].now \in 0 .. clock /\ Notice(p) \subseteq Current + 1 .. server
             /\ p \in temps \/ check[p].pc # "replace"
  <2>1. check[p] \in CheckSet /\ Informed(check[p]) /\ Saved(p)
    BY DEF NoticeInv, VersionsInv
  <2>2. check[p].now \in Nat /\ check[p].latest \in Nat
    BY <2>1 DEF CheckSet
  <2>3. Notice(p) \subseteq Current + 1 .. server
    BY <2>1, <2>2, NoticeAssumption DEF Notice, Informed, Announced, Unknown, NoticeInv
  <2> QED
    BY <2>1, <2>2, <2>3 DEF Informed, Saved, NoticeInv
<1> QED
  BY <1>1, <1>2 DEF NoticeTypeOK, NoticeInv, VersionsInv

(* A process without a notice under way has no check under way.            *)
ChecksAreNotices == \A p \in Procs : main[p].pc = "notice" \/ check[p] = NoCheck

LEMMA ChecksStepInv ==
    ASSUME NoticeInv, FocusInv, ChecksAreNotices, [CommandNext]_commandVars
    PROVE  ChecksAreNotices'
<1>1. /\ check \in [Procs -> CheckSet] /\ main \in [Procs -> MainSet]
  BY DEF NoticeInv, FocusInv
<1>2. CASE UNCHANGED <<main, check>>
  BY <1>2 DEF ChecksAreNotices
<1>3. ASSUME NEW p \in Procs, MainStarts(p) \/ GiveNotice(p) \/ Dispatch(p) \/ PlanRefused(p)
                              \/ MainEnds(p) \/ NoticeRaises(p) \/ NoticeCutShort(p)
      PROVE  ChecksAreNotices'
  <2>1. \A q \in Procs \ {p} : main'[q] = main[q] /\ check'[q] = check[q]
    BY <1>1, <1>3 DEF MainStarts, GiveNotice, Dispatch, PlanRefused, MainEnds, NoticeRaises,
       NoticeCutShort,
       NoticeSkipped, NoticeBegins, NoticeStep, NoticeEnds, NoticeStops, FetchRaises,
       ReadCache, Fetch,
       WriteTemporary, ReplaceCache, Become, Notices, noticeVars
  <2>2. main'[p].pc = "notice" \/ check'[p] = NoCheck
    <3>1. CASE MainStarts(p)
      BY <1>1, <3>1 DEF MainStarts, NoMain
    <3>2. CASE GiveNotice(p)
      BY <1>1, <3>2 DEF GiveNotice, Notices
    <3>3. CASE Dispatch(p) \/ PlanRefused(p) \/ NoticeRaises(p) \/ NoticeCutShort(p)
      BY <1>1, <3>3 DEF Dispatch, PlanRefused, NoticeRaises, NoticeCutShort, NoticeEnds,
         NoticeStops, FetchRaises
    <3>4. CASE MainEnds(p)
      BY <1>1, <3>4 DEF MainEnds, noticeVars, ChecksAreNotices
    <3> QED
      BY <1>3, <3>1, <3>2, <3>3, <3>4
  <2> QED
    BY <2>1, <2>2 DEF ChecksAreNotices
<1>4. (Tick \/ ServerReleases) /\ Notices => UNCHANGED <<main, check>>
  BY DEF Tick, ServerReleases, Notices
<1>5. Tools \/ Tours \/ SortPlan \/ ReleaseStep => UNCHANGED <<main, check>>
  BY DEF Tools, Tours, SortPlan, ReleaseStep, noticeVars
<1>6. UNCHANGED commandVars => UNCHANGED <<main, check>>
  BY DEF commandVars, noticeVars
<1> QED
  BY <1>2, <1>3, <1>4, <1>5, <1>6 DEF CommandNext, CommandStep, Sessions

(* What has not been indexed, or was refused there, has nothing ready.     *)
LEMMA SortTypesHold ==
    ASSUME SortInv, SortTypeOK, \/ UNCHANGED sort \/ sort' = NotSorting \/ SortStep
                                \/ \E listing, planned : StartSort(listing, planned),
           SortInv'
    PROVE  SortTypeOK'
<1>1. sort' \in SortSet /\ sort \in SortSet
  BY DEF SortInv
<1>2. sort'.pc \in {"idle", "index", "pop", "ended"} /\ sort'.error \in Errors
  BY <1>1 DEF SortSet
<1>3. \A id \in DOMAIN sort'.degree : sort'.degree[id] \in Nat
  <2>1. sort'.degree \in Degrees
    BY <1>1 DEF SortSet
  <2> QED
    BY <2>1 DEF Degrees
<1>4. /\ sort'.ready \subseteq DOMAIN sort'.degree
      /\ Elements(sort'.ordered) \subseteq DOMAIN sort'.degree
  <2>1. CASE UNCHANGED sort
    BY <2>1 DEF SortTypeOK
  <2>2. CASE sort' = NotSorting \/ \E listing, planned : StartSort(listing, planned)
    <3>1. CASE sort' = NotSorting
      BY <3>1 DEF NotSorting, Elements
    <3>2. ASSUME NEW listing, NEW planned, StartSort(listing, planned)
          PROVE  sort'.ready = {} /\ sort'.ordered = << >>
      BY <3>2 DEF StartSort, NotSorting
    <3> QED
      BY <2>2, <3>1, <3>2 DEF Elements
  <2>3. CASE IndexNodes
    <3>1. CASE IndexError(sort.listing) # "none"
      <4>1. sort' = [sort EXCEPT !.pc = "ended", !.error = IndexError(sort.listing)]
        BY <2>3, <3>1 DEF IndexNodes
      <4>2. /\ sort'.ready = sort.ready /\ sort'.ordered = sort.ordered
            /\ sort'.degree = sort.degree
        BY <1>1, <4>1 DEF SortSet
      <4> QED
        BY <4>2 DEF SortTypeOK
    <3>2. CASE IndexError(sort.listing) = "none"
      <4> DEFINE degree == [id \in Known(sort.listing) |-> Len(SpecOf(id).deps)]
      <4>1. sort' = [sort EXCEPT !.pc = "pop", !.degree = degree,
                                 !.ready = {id \in DOMAIN degree : degree[id] = 0}]
        BY <2>3, <3>2 DEF IndexNodes
      <4> HIDE DEF degree
      <4>2. /\ sort'.ready = {id \in DOMAIN degree : degree[id] = 0} /\ sort'.degree = degree
            /\ sort'.ordered = sort.ordered
        BY <1>1, <4>1 DEF SortSet
      <4>3. sort.ordered = << >>
        BY <2>3 DEF SortInv, IndexNodes
      <4> QED
        BY <4>2, <4>3 DEF Elements
    <3> QED
      BY <3>1, <3>2
  <2>4. CASE PopReady
    <3>1. sort'.pc = "pop"
      BY <1>1, <2>4 DEF PopReady, SortSet
    <3>2. Popping'
      BY <3>1 DEF SortInv
    <3>3. /\ DOMAIN sort'.degree = Known(sort'.listing)
          /\ sort'.ready \subseteq Known(sort'.listing)
          /\ sort'.ordered \in Seq(Known(sort'.listing))
      BY <3>2 DEF Popping, Free
    <3> QED
      BY <3>3, ElementsCounted
  <2>5. CASE EndSort
    <3>1. /\ sort'.ready = sort.ready /\ sort'.ordered = sort.ordered
          /\ sort'.degree = sort.degree
      BY <1>1, <2>5 DEF EndSort, SortSet
    <3> QED
      BY <3>1 DEF SortTypeOK
  <2> QED
    BY <2>1, <2>2, <2>3, <2>4, <2>5 DEF SortStep
<1> QED
  BY <1>2, <1>3, <1>4 DEF SortTypeOK, Errors

LEMMA SortMoves ==
    ASSUME [CommandNext]_commandVars
    PROVE  \/ UNCHANGED sort \/ sort' = NotSorting \/ SortStep
           \/ \E listing, planned : StartSort(listing, planned)
<1>1. ASSUME NEW p \in Procs, MainStarts(p) \/ GiveNotice(p) \/ Dispatch(p) \/ PlanRefused(p)
                              \/ MainEnds(p) \/ NoticeRaises(p) \/ NoticeCutShort(p)
      PROVE  \/ UNCHANGED sort \/ sort' = NotSorting
             \/ \E listing, planned : StartSort(listing, planned)
  BY <1>1 DEF MainStarts, GiveNotice, Dispatch, PlanRefused, MainEnds, NoticeRaises,
     NoticeCutShort, Notices,
     StartTour
<1>2. CASE TourStepOrOwner
  BY <1>2 DEF TourStepOrOwner, TourStep, PrepareWrites, PrepareWritten, PrepareFinds, LoadRefuses,
     BeginBuild, ReuseRun, RefuseRun, OrderNodes, FirstManifest, BuildNode, FinishBuild, PrintDiff,
     InterruptTour, KillTour, Stops, EditInput, RemoveInput, UpgradePackage, NewRunRoot,
     SpoilEntry, OwnerActs
<1>3. Notices \/ Tools \/ ReleaseStep \/ UNCHANGED commandVars => UNCHANGED sort
  BY DEF Notices, Tools, ReleaseStep, commandVars
<1> QED
  BY <1>1, <1>2, <1>3 DEF CommandNext, CommandStep, Sessions, SortPlan

(* A manifest that a build has written, as far as it came, is one that     *)
(* load_manifest accepts.                                                  *)
LEMMA WrittenLoads ==
    ASSUME NEW story \in Stories, NEW M, NEW x, GoodManifest(story, M, x)
    PROVE  /\ M \in {NoManifest, Litter} \/ Loads(M)
           /\ Ids(M) \subseteq PlanIds(story)
<1>1. GoodNodes(story, M, x) /\ GoodStatus(story, M)
  BY DEF GoodManifest
<1>2. Ids(M) \subseteq PlanIds(story)
  BY <1>1 DEF GoodNodes, Ids
<1>3. ASSUME M \notin {NoManifest, Litter} PROVE Loads(M)
  <2>1. M.status \in {"running", "succeeded", "failed", "interrupted"}
    BY <1>1, <1>3 DEF GoodStatus, Written
  <2>2. \A node \in Elements(M.nodes) :
           /\ node.state \in HasOutput \union HasFailed
           /\ node.state \notin HasFailed => node.output # Nothing
    BY <1>1, OutputsAreSome DEF GoodNodes, Filled, Unfilled
  <2>3. HasOutput \intersect HasFailed = {}
    BY DEF HasOutput, HasFailed
  <2>4. ASSUME M.status = "succeeded"
        PROVE  /\ \E node \in Elements(M.nodes) : node.output # Nothing
               /\ States(M) \intersect HasFailed = {}
    <3>1. Ids(M) = PlanIds(story) /\ \A node \in Elements(M.nodes) : node.state \notin HasFailed
      BY <1>1, <2>4 DEF GoodStatus
    <3>2. 30 \in PlanIds(story)
      BY PlanTables DEF Stories
    <3>3. PICK node \in Elements(M.nodes) : node.id = 30
      BY <3>1, <3>2 DEF Ids
    <3> QED
      BY <2>2, <3>1, <3>3 DEF States
  <2>5. M.status = "failed" => States(M) \intersect HasFailed # {}
    BY <1>1 DEF GoodStatus, States
  <2> QED
    BY <1>1, <2>1, <2>2, <2>3, <2>4, <2>5 DEF Loads, GoodNodes, NoRepeats, States
<1> QED
  BY <1>2, <1>3

LEMMA TourTypes == OrderInv /\ TourInv => TourTypeOK
<1> SUFFICES ASSUME OrderInv, TourInv PROVE TourTypeOK
  OBVIOUS
<1>1. tour \in TourSet /\ demo \in Demos
  BY DEF OrderInv, TourRecs
<1>2. Elements(tour.left) \subseteq Nat
  <2>1. tour.left \in Seq(Nat)
    BY <1>1 DEF TourSet
  <2> QED
    BY <2>1, ElementsCounted
<1>3. ASSUME NEW story \in Stories
      PROVE  /\ manifests[story] \in {NoManifest, Litter} \/ Loads(manifests[story])
             /\ Ids(manifests[story]) \subseteq {spec.id : spec \in Elements(Plan(story))}
  <2>1. PICK x : GoodManifest(story, manifests[story], x)
    BY DEF TourInv, StoriesInv, Stories
  <2> QED
    BY <2>1, WrittenLoads DEF PlanIds
<1>4. tour.pc = "build" => manifests[tour.story].status = "running"
  BY DEF TourInv, PlaceInv
<1>5. \A one, other \in entries : one.key = other.key => one = other
  BY DEF TourInv, StoriesInv, EntriesTrue
<1>6. adapter \in Adapters /\ undisturbed \in BOOLEAN
  BY DEF TourInv
<1> QED
  BY <1>1, <1>2, <1>3, <1>4, <1>5, <1>6 DEF TourTypeOK, TourSet, Demos

TypeInv == SessionInv /\ NoticeInv /\ VersionsInv /\ ChecksAreNotices /\ SortTypeOK

LEMMA TypeInitInv == CommandInit => TypeInv
<1> SUFFICES ASSUME CommandInit PROVE TypeInv
  OBVIOUS
<1>1. NoticeInv /\ VersionsInv
  BY NoticeInitInv, VersionsInitInv DEF CommandInit
<1>2. ChecksAreNotices
  BY DEF CommandInit, NoticeInit, ChecksAreNotices
<1>3. SortTypeOK
  BY DEF CommandInit, SortInit, NotSorting, SortTypeOK, Elements
<1> QED
  BY <1>1, <1>2, <1>3, SessionInitInv DEF TypeInv

LEMMA TypeStepInv == TypeInv /\ [CommandNext]_commandVars => TypeInv'
<1> SUFFICES ASSUME TypeInv, [CommandNext]_commandVars PROVE TypeInv'
  OBVIOUS
<1>1. SessionInv' /\ SortInv /\ SortInv'
  BY SessionStepInv DEF TypeInv, SessionInv, PartsInv, OrderInv
<1>2. NoticeInv' /\ VersionsInv'
  BY NoticeSteps, NoticeStepInv, VersionsStepInv DEF TypeInv
<1>3. ChecksAreNotices'
  BY ChecksStepInv DEF TypeInv, SessionInv
<1>4. SortTypeOK'
  BY <1>1, SortMoves, SortTypesHold DEF TypeInv
<1> QED
  BY <1>1, <1>2, <1>3, <1>4 DEF TypeInv

(* In a session of any of its parts every variable is of its type: what    *)
(* the notice names was announced, a manifest on disk is one that          *)
(* load_manifest accepts, a cache key has one entry, and the exit codes    *)
(* are those of the command line.                                          *)
THEOREM SessionTypesCorrect == CommandSpec => []CommandTypeOK
<1>1. TypeInv /\ ToolTypeOK /\ GateTypeOK => CommandTypeOK
  <2> SUFFICES ASSUME TypeInv, ToolTypeOK, GateTypeOK PROVE CommandTypeOK
    OBVIOUS
  <2>1. NoticeTypeOK /\ TourTypeOK
    BY NoticeTypes, TourTypes DEF TypeInv, SessionInv, PartsInv
  <2>2. /\ focus \in Foci
        /\ main \in [Procs -> [pc : {"idle", "notice", "command"}, command : Commands,
                               exit : ExitCodes]]
    BY DEF TypeInv, SessionInv, FocusInv, MainSet
  <2> QED
    BY <2>1, <2>2 DEF CommandTypeOK, TypeInv, ChecksAreNotices
<1>2. CommandSpec => []TypeInv
  BY TypeInitInv, TypeStepInv, PTL DEF CommandSpec
<1>3. CommandSpec => []ToolTypeOK
  BY SessionRunsTools, ToolTypeCorrect, PTL
<1>4. CommandSpec => []GateTypeOK
  BY SessionReleases, GateTypeCorrect, PTL
<1> QED
  BY <1>1, <1>2, <1>3, <1>4, PTL
=============================================================================
