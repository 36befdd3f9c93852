--------------------------- MODULE BuildRunProofs ---------------------------
(***************************************************************************)
(* Proofs about BuildRun, for any plan, any number of builds and any       *)
(* number of interrupts, kills and damaged entries.                        *)
(***************************************************************************)
EXTENDS BuildRun, TLAPS

(* Where a build is at a node, where it has that node's key, and where it  *)
(* has but to write its last manifest.                                     *)
Working == {"node", "lookup", "snapshot", "execute", "recheck", "modified",
            "commit", "save"}
Keyed == {"lookup", "snapshot", "execute", "recheck", "modified", "commit"}
Ending == {"final", "abort"}

(* k is a key for node n, made of what these results say of its inputs.    *)
KeyFits(k, n, results) ==
    /\ k \in Keys /\ k.node = n
    /\ \A d \in Deps[n] : results[d].state \in Good /\ results[d].value = k.inputs[d]

Fits(r, n, results) ==
    r.state \in Good => KeyFits(r.key, n, results) /\ r.value \in Values

AllFit(results) == \A n \in Nodes : Fits(results[n], n, results)

(* The nodes a working build has recorded are those before the one it is   *)
(* at.                                                                     *)
Progress(p) ==
    \A i \in 1..Len(Order) : Done(p)[Order[i]].state = "pending" <=> i > at[p]

LocalsOf(p) ==
    /\ pc[p] \in Waiting => at[p] = 0
    /\ pc[p] \in Working => at[p] < Len(Order) /\ Progress(p)
    /\ pc[p] \in Keyed => KeyFits(key[p], Node(p), Done(p))
    /\ pc[p] \in {"recheck", "modified", "commit"} =>
         /\ result[p].state = "produced" /\ result[p].key = key[p]
         /\ result[p].value \in Values
    /\ pc[p] = "save" =>
         /\ result[p].state # "pending"
         /\ Fits(result[p], Node(p), Done(p))

BuildInv ==
    /\ TypeOK
    /\ \A p \in Builds : LocalsOf(p)
    /\ \A p \in Builds : AllFit(memory[p].results)
    /\ \A d \in Dirs : AllFit(disk[d].results)

-----------------------------------------------------------------------------
(* The plan and its keys.                                                  *)

LEMMA OrderFacts ==
    /\ Len(Order) \in Nat
    /\ \A i \in 1..Len(Order) : Order[i] \in Nodes
    /\ \A n \in Nodes : \E i \in 1..Len(Order) : Order[i] = n
    /\ \A i, j \in 1..Len(Order) : Order[i] = Order[j] => i = j
    /\ \A i, j \in 1..Len(Order) : Order[j] \in Deps[Order[i]] => j < i
    /\ \A n \in Nodes : Deps[n] \subseteq Nodes
BY PlanAssumption

LEMMA MakeKey ==
    ASSUME NEW n \in Nodes, NEW t \in Tools, NEW inputs \in [Deps[n] -> Values]
    PROVE  [node |-> n, tool |-> t, inputs |-> inputs] \in Keys
BY DEF Keys

LEMMA KeyFacts ==
    ASSUME NEW k \in Keys
    PROVE  /\ k.node \in Nodes /\ k.tool \in Tools
           /\ \A t \in Tools : [k EXCEPT !.tool = t] \in Keys
           /\ [k EXCEPT !.tool = k.tool] = k
<1>1. PICK n \in Nodes : k \in [node : {n}, tool : Tools, inputs : [Deps[n] -> Values]]
  BY DEF Keys
<1>2. \A t \in Tools :
         [k EXCEPT !.tool = t] \in [node : {n}, tool : Tools, inputs : [Deps[n] -> Values]]
  BY <1>1
<1>3. \A t \in Tools : [k EXCEPT !.tool = t] \in Keys BY <1>2 DEF Keys
<1>4. QED BY <1>1, <1>3

(* A working build has recorded the dependencies of the node it is at, and *)
(* no node that depends on it.                                             *)
LEMMA NodeFacts ==
    ASSUME BuildInv, NEW p \in Builds, pc[p] \in Working
    PROVE  /\ at[p] \in 0..Len(Order) /\ at[p] + 1 \in 1..Len(Order)
           /\ Node(p) \in Nodes
           /\ \A d \in Deps[Node(p)] : d \in Nodes /\ Done(p)[d].state # "pending"
           /\ \A n \in Nodes : Node(p) \in Deps[n] => Done(p)[n].state = "pending"
           /\ Node(p) \notin Deps[Node(p)]
<1> DEFINE i == at[p] + 1
<1>1. at[p] \in 0..Len(Order) /\ at[p] < Len(Order) /\ Progress(p)
  BY DEF BuildInv, TypeOK, LocalsOf
<1>2. i \in 1..Len(Order) /\ Node(p) = Order[i] /\ Node(p) \in Nodes
  BY <1>1, OrderFacts DEF Node
<1>3. ASSUME NEW d \in Deps[Node(p)] PROVE d \in Nodes /\ Done(p)[d].state # "pending"
  <2>1. d \in Nodes BY <1>2, OrderFacts
  <2>2. PICK j \in 1..Len(Order) : Order[j] = d BY <2>1, OrderFacts
  <2>3. j < i BY <1>2, <2>2, OrderFacts
  <2>4. QED BY <1>1, <2>1, <2>2, <2>3, OrderFacts DEF Progress
<1>4. ASSUME NEW n \in Nodes, Node(p) \in Deps[n] PROVE Done(p)[n].state = "pending"
  <2>1. PICK j \in 1..Len(Order) : Order[j] = n BY OrderFacts
  <2>2. i < j BY <1>2, <1>4, <2>1, OrderFacts
  <2>3. QED BY <1>1, <2>1, <2>2, OrderFacts DEF Progress
<1>5. Node(p) \notin Deps[Node(p)] BY <1>2, OrderFacts
<1>6. QED BY <1>1, <1>2, <1>3, <1>4, <1>5

-----------------------------------------------------------------------------
(* The types of a step.                                                    *)

WorldTyped ==
    /\ entries \subseteq [key : Keys, value : Values, intact : BOOLEAN]
    /\ tool \in Tools \union {Broken}
    /\ produced \subseteq [key : Keys, value : Values]
    /\ changes \in 0..MaxChanges /\ damage \in 0..MaxDamage

(* A step of p changes nothing of the other builds.                        *)
Others(p) ==
    \A q \in Builds \ {p} :
        /\ pc'[q] = pc[q] /\ at'[q] = at[q] /\ key'[q] = key[q] /\ dir'[q] = dir[q]
        /\ result'[q] = result[q] /\ memory'[q] = memory[q]

LEMMA StepOfOne ==
    ASSUME BuildInv, NEW p \in Builds, Others(p), TypeOK', LocalsOf(p)',
           AllFit(memory'[p].results),
           \A d \in Dirs : disk'[d] = disk[d] \/ AllFit(disk'[d].results)
    PROVE  BuildInv'
<1>1. ASSUME NEW q \in Builds PROVE LocalsOf(q)' /\ AllFit(memory[q].results)'
  <2>1. CASE q = p BY <2>1
  <2>2. CASE q # p
    <3>1. /\ pc'[q] = pc[q] /\ at'[q] = at[q] /\ key'[q] = key[q]
          /\ result'[q] = result[q] /\ memory'[q] = memory[q]
      BY <2>2 DEF Others
    <3>2. Done(q)' = Done(q) /\ Node(q)' = Node(q) /\ Progress(q)' = Progress(q)
      BY <3>1 DEF Done, Node, Progress
    <3>3. KeyFits(key[q], Node(q), Done(q))' = KeyFits(key[q], Node(q), Done(q))
      BY <3>1, <3>2 DEF KeyFits
    <3>4. Fits(result[q], Node(q), Done(q))' = Fits(result[q], Node(q), Done(q))
      BY <3>1, <3>2 DEF Fits, KeyFits
    <3>5. LocalsOf(q) BY DEF BuildInv
    <3>6. LocalsOf(q)' BY <3>1, <3>2, <3>3, <3>4, <3>5 DEF LocalsOf
    <3>7. QED BY <3>1, <3>6 DEF BuildInv, AllFit, Fits, KeyFits
  <2>3. QED BY <2>1, <2>2
<1>2. ASSUME NEW d \in Dirs PROVE AllFit(disk[d].results)'
  BY DEF BuildInv, AllFit, Fits, KeyFits
<1>3. QED BY <1>1, <1>2 DEF BuildInv

LEMMA YieldInv ==
    ASSUME BuildInv, NEW p \in Builds, pc[p] \in Working, WorldTyped',
           NEW s, NEW k, NEW v, Yield(p, s, k, v),
           [state |-> s, key |-> k, value |-> v] \in Result, s # "pending",
           s \in Good => KeyFits(k, Node(p), Done(p)) /\ v \in Values
    PROVE  BuildInv'
<1>1. TypeOK' BY DEF Yield, Goto, WorldTyped, BuildInv, TypeOK, Working
<1>2. /\ pc'[p] = "save" /\ result'[p] = [state |-> s, key |-> k, value |-> v]
      /\ at' = at /\ memory' = memory /\ disk' = disk
  BY DEF Yield, Goto, BuildInv, TypeOK
<1>3. at[p] < Len(Order) /\ Progress(p) BY DEF BuildInv, LocalsOf
<1>4. LocalsOf(p)'
  <2>1. Progress(p)' /\ Done(p)' = Done(p) /\ Node(p)' = Node(p)
    BY <1>2, <1>3 DEF Progress, Done, Node
  <2>2. Fits(result[p], Node(p), Done(p))' BY <1>2, <2>1 DEF Fits, KeyFits
  <2>3. QED BY <1>2, <1>3, <2>1, <2>2 DEF LocalsOf, Keyed, Waiting
<1>5. Others(p) BY <1>2 DEF Yield, Goto, Others, BuildInv, TypeOK
<1>6. QED BY <1>1, <1>2, <1>4, <1>5, StepOfOne DEF BuildInv

LEMMA ProceedInv ==
    ASSUME BuildInv, NEW p \in Builds, pc[p] \in Keyed, WorldTyped',
           NEW label \in Keyed \union {"save"}, Proceed(p, label),
           label \in {"recheck", "modified", "commit", "save"} =>
              pc[p] \in {"recheck", "modified", "commit"}
    PROVE  BuildInv'
<1>1. TypeOK' BY DEF Proceed, Goto, WorldTyped, BuildInv, TypeOK, Keyed
<1>2. /\ pc'[p] = label /\ result' = result /\ key' = key
      /\ at' = at /\ memory' = memory /\ disk' = disk
  BY DEF Proceed, Goto, BuildInv, TypeOK
<1>3. at[p] < Len(Order) /\ Progress(p) /\ KeyFits(key[p], Node(p), Done(p))
  BY DEF BuildInv, LocalsOf, Keyed, Working
<1>4. LocalsOf(p)'
  BY <1>2, <1>3
     DEF BuildInv, LocalsOf, Progress, Done, Node, KeyFits, Fits, Keyed, Waiting
<1>5. Others(p) BY <1>2 DEF Proceed, Goto, Others, BuildInv, TypeOK
<1>6. QED BY <1>1, <1>2, <1>4, <1>5, StepOfOne DEF BuildInv

(* The results of a build after the one it is about to record.             *)
LEMMA RecordedFits ==
    ASSUME BuildInv, NEW p \in Builds, pc[p] = "save"
    PROVE  /\ Recorded(p) \in Manifest
           /\ Recorded(p).status = memory[p].status
           /\ Recorded(p).results = [Done(p) EXCEPT ![Node(p)] = result[p]]
           /\ AllFit(Recorded(p).results)
<1> DEFINE m == Recorded(p)
<1>1. Node(p) \in Nodes /\ \A n \in Nodes : Node(p) \in Deps[n] => Done(p)[n].state = "pending"
  BY NodeFacts DEF Working
<1>2. memory[p] \in Manifest /\ result[p] \in Result BY DEF BuildInv, TypeOK
<1>3. m \in Manifest BY <1>1, <1>2 DEF Recorded, Manifest
<1>4. m.results = [Done(p) EXCEPT ![Node(p)] = result[p]]
      /\ m.status = memory[p].status
  BY <1>1, <1>2 DEF Recorded, Manifest, Done
<1>5. ASSUME NEW n \in Nodes PROVE Fits(m.results[n], n, m.results)
  <2>1. Done(p) \in [Nodes -> Result] BY <1>2 DEF Manifest, Done
  <2>2. CASE n = Node(p)
    <3>1. m.results[n] = result[p] BY <1>1, <1>4, <2>1, <2>2
    <3>2. Fits(result[p], n, Done(p)) BY <2>2 DEF BuildInv, LocalsOf
    <3>3. \A d \in Deps[n] : d \in Nodes /\ m.results[d] = Done(p)[d]
      BY <1>4, <2>1, <2>2, NodeFacts DEF Working
    <3>4. QED BY <3>1, <3>2, <3>3 DEF Fits, KeyFits
  <2>3. CASE n # Node(p)
    <3>1. m.results[n] = Done(p)[n] BY <1>4, <2>1, <2>3
    <3>2. Fits(Done(p)[n], n, Done(p)) BY DEF BuildInv, AllFit, Done
    <3>3. CASE Node(p) \in Deps[n] BY <1>1, <3>1, <3>3 DEF Fits, Good
    <3>4. CASE Node(p) \notin Deps[n]
      <4>1. \A d \in Deps[n] : m.results[d] = Done(p)[d]
        BY <1>4, <2>1, <3>4, OrderFacts
      <4>2. QED BY <3>1, <3>2, <4>1 DEF Fits, KeyFits
    <3>5. QED BY <3>3, <3>4
  <2>4. QED BY <2>2, <2>3
<1>6. QED BY <1>3, <1>4, <1>5 DEF AllFit

-----------------------------------------------------------------------------
(* BuildInv is inductive.                                                  *)

LEMMA InitInv == Init => BuildInv
<1> SUFFICES ASSUME Init PROVE BuildInv OBVIOUS
<1>1. Pending \in Result /\ NoManifest \in Manifest
  BY DEF Pending, Result, NoManifest, Manifest
<1>2. TypeOK BY <1>1, PlanAssumption DEF Init, TypeOK, Waiting
<1>3. \A p \in Builds : LocalsOf(p) BY DEF Init, LocalsOf, Working, Keyed
<1>4. /\ \A p \in Builds : AllFit(memory[p].results)
      /\ \A d \in Dirs : AllFit(disk[d].results)
  BY DEF Init, AllFit, Fits, NoManifest, Pending, Good
<1>5. QED BY <1>2, <1>3, <1>4 DEF BuildInv

LEMMA WorldKept == ASSUME BuildInv, UNCHANGED world PROVE WorldTyped'
BY DEF BuildInv, TypeOK, world, WorldTyped

(* A write of one manifest.                                                *)
LEMMA Written ==
    ASSUME BuildInv, NEW x, NEW m, disk' = [disk EXCEPT ![x] = m]
    PROVE  \A d \in Dirs : disk'[d] = disk[d] \/ disk'[d] = m
BY DEF BuildInv, TypeOK

LEMMA AdmitInv == ASSUME BuildInv, NEW p \in Builds, Admit(p) PROVE BuildInv'
<1>1. PICK d \in Dirs : dir' = [dir EXCEPT ![p] = d] BY DEF Admit
<1>2. PICK label \in {"new", "resume"} : pc' = [pc EXCEPT ![p] = label] BY DEF Admit, Goto
<1>3. UNCHANGED <<world, disk, memory, at, key, result, faults>> BY DEF Admit
<1>4. TypeOK'
  <2>1. \A q \in Builds : pc'[q] # "over" => dir'[q] \in Dirs
    BY <1>1, <1>2 DEF BuildInv, TypeOK
  <2>2. /\ dir' \in [Builds -> Dirs \union {NoDir}]
        /\ pc' \in [Builds -> Waiting \union
               {"node", "lookup", "snapshot", "execute", "recheck", "modified", "commit",
                "save", "finish", "final", "abort"}]
    BY <1>1, <1>2 DEF BuildInv, TypeOK, Waiting
  <2>3. QED BY <1>3, <2>1, <2>2 DEF BuildInv, TypeOK, world
<1>5. pc'[p] = label BY <1>2 DEF BuildInv, TypeOK
<1>6. at'[p] = 0 BY <1>3 DEF BuildInv, LocalsOf, Admit, Waiting
<1>7. LocalsOf(p)' BY <1>5, <1>6 DEF LocalsOf, Working, Keyed
<1>8. Others(p) BY <1>1, <1>2, <1>3 DEF Others, BuildInv, TypeOK
<1>9. QED BY <1>3, <1>4, <1>7, <1>8, StepOfOne DEF BuildInv

LEMMA StartInv == ASSUME BuildInv, NEW p \in Builds, Start(p) PROVE BuildInv'
<1> DEFINE m == [NoManifest EXCEPT !.status = "running"]
<1>1. /\ m \in Manifest /\ m.status = "running"
      /\ \A n \in Nodes : m.results[n] = Pending
  BY DEF NoManifest, Manifest, Pending, Result
<1>2. /\ memory' = [memory EXCEPT ![p] = m] /\ disk' = [disk EXCEPT ![dir[p]] = memory'[p]]
      /\ pc' = [pc EXCEPT ![p] = "node"] /\ at[p] = 0
      /\ UNCHANGED <<world, dir, at, key, result, faults>>
  BY DEF Start, Goto, BuildInv, LocalsOf, Waiting
<1> HIDE DEF m
<1>3. memory'[p] = m BY <1>2 DEF BuildInv, TypeOK
<1>4. disk' \in [Dirs -> Manifest] /\ memory' \in [Builds -> Manifest]
  BY <1>1, <1>2, <1>3 DEF BuildInv, TypeOK
<1>5. TypeOK' BY <1>2, <1>4 DEF BuildInv, TypeOK, world, Start
<1>6. pc'[p] = "node" /\ at'[p] = 0 BY <1>2 DEF BuildInv, TypeOK
<1>7. Progress(p)' BY <1>1, <1>3, <1>6, OrderFacts DEF Progress, Done, Pending
<1>8. LocalsOf(p)' BY <1>6, <1>7, PlanAssumption, OrderFacts DEF LocalsOf, Keyed, Waiting
<1>9. AllFit(m.results) BY <1>1 DEF AllFit, Fits, Pending, Good
<1>10. Others(p) BY <1>2 DEF BuildInv, TypeOK, Others
<1>11. QED BY <1>2, <1>3, <1>5, <1>8, <1>9, <1>10, Written, StepOfOne

LEMMA FingerprintInv == ASSUME BuildInv, NEW p \in Builds, Fingerprint(p) PROVE BuildInv'
<1> DEFINE inputs == [d \in Deps[Node(p)] |-> Done(p)[d].value]
<1>1. pc[p] = "node" /\ ~IsBlocked(p) /\ tool \in Tools
  BY DEF Fingerprint, BuildInv, TypeOK
<1>2. /\ Node(p) \in Nodes
      /\ \A d \in Deps[Node(p)] : d \in Nodes /\ Done(p)[d].state # "pending"
  BY <1>1, NodeFacts DEF Working
<1>3. ASSUME NEW d \in Deps[Node(p)]
      PROVE  Done(p)[d].state \in Good /\ Done(p)[d].value \in Values
  <2>1. Done(p)[d] \in Result BY <1>2 DEF BuildInv, TypeOK, Manifest, Done
  <2>2. Done(p)[d].state \notin Bad BY <1>1 DEF IsBlocked
  <2>3. Done(p)[d].state \in Good BY <1>2, <2>1, <2>2 DEF Result
  <2>4. QED BY <1>2, <2>3 DEF BuildInv, AllFit, Fits, Done
<1>4. inputs \in [Deps[Node(p)] -> Values] BY <1>3
<1>5. KeyOf(p) \in Keys BY <1>1, <1>2, <1>4, MakeKey DEF KeyOf
<1>6. KeyFits(KeyOf(p), Node(p), Done(p)) BY <1>3, <1>5 DEF KeyFits, KeyOf
<1>7. /\ key' = [key EXCEPT ![p] = KeyOf(p)] /\ pc' = [pc EXCEPT ![p] = "lookup"]
      /\ UNCHANGED <<world, disk, dir, memory, at, result, faults>>
  BY DEF Fingerprint, Goto
<1>8. TypeOK' BY <1>1, <1>5, <1>7 DEF BuildInv, TypeOK, world
<1>9. key'[p] = KeyOf(p) /\ pc'[p] = "lookup" BY <1>7 DEF BuildInv, TypeOK
<1>10. Done(p)' = Done(p) /\ Node(p)' = Node(p) /\ Progress(p)'
  BY <1>1, <1>7 DEF Done, Node, Progress, BuildInv, LocalsOf, Working
<1>11. KeyFits(key[p], Node(p), Done(p))' BY <1>6, <1>9, <1>10 DEF KeyFits
<1>12. LocalsOf(p)'
  BY <1>1, <1>7, <1>9, <1>10, <1>11 DEF LocalsOf, BuildInv, Working, Waiting
<1>13. Others(p) BY <1>7 DEF BuildInv, TypeOK, Others
<1>14. QED BY <1>7, <1>8, <1>12, <1>13, StepOfOne DEF BuildInv

(* What a build has in hand while it has a key.                            *)
LEMMA KeyInHand ==
    ASSUME BuildInv, NEW p \in Builds, pc[p] \in Keyed
    PROVE  /\ pc[p] \in Working /\ key[p] \in Keys
           /\ KeyFits(key[p], Node(p), Done(p))
           /\ \A s \in {"failed", "produced", "cache_hit"}, v \in Values \union {NoValue} :
                 [state |-> s, key |-> key[p], value |-> v] \in Result
<1>1. KeyFits(key[p], Node(p), Done(p)) BY DEF BuildInv, LocalsOf
<1>2. key[p] \in Keys BY <1>1 DEF KeyFits
<1>3. \A s \in {"failed", "produced", "cache_hit"}, v \in Values \union {NoValue} :
          [state |-> s, key |-> key[p], value |-> v] \in Result
  BY <1>2 DEF Result, Good, Bad
<1>4. QED BY <1>1, <1>2, <1>3 DEF Keyed, Working

(* A node that fails once its key is known.                                *)
LEMMA FailInv ==
    ASSUME BuildInv, NEW p \in Builds, pc[p] \in Keyed, UNCHANGED world,
           Yield(p, "failed", key[p], NoValue)
    PROVE  BuildInv'
BY KeyInHand, WorldKept, YieldInv DEF Good

(* A node whose entry was in the cache.                                    *)
LEMMA HitInv ==
    ASSUME BuildInv, NEW p \in Builds, pc[p] \in Keyed, UNCHANGED world,
           NEW e \in EntryAt(key[p]), Yield(p, "cache_hit", key[p], e.value)
    PROVE  BuildInv'
<1>1. e.value \in Values BY DEF EntryAt, BuildInv, TypeOK
<1>2. [state |-> "cache_hit", key |-> key[p], value |-> e.value] \in Result
  BY <1>1, KeyInHand
<1>3. QED BY <1>1, <1>2, KeyInHand, WorldKept, YieldInv

(* An adapter that has left outputs.                                       *)
LEMMA OutputsInv ==
    ASSUME BuildInv, NEW p \in Builds, pc[p] = "execute", WorldTyped',
           NEW v \in Values, NEW label \in {"recheck", "modified"},
           result' = [result EXCEPT ![p] = [state |-> "produced", key |-> key[p], value |-> v]],
           Goto(p, label), UNCHANGED <<disk, dir, memory, at, key, faults>>
    PROVE  BuildInv'
<1> DEFINE r == [state |-> "produced", key |-> key[p], value |-> v]
<1>1. r \in Result BY KeyInHand DEF Keyed
<1>2. TypeOK' BY <1>1 DEF Goto, WorldTyped, BuildInv, TypeOK
<1>3. pc'[p] = label /\ result'[p] = r BY DEF Goto, BuildInv, TypeOK
<1>4. at[p] < Len(Order) /\ Progress(p) /\ KeyFits(key[p], Node(p), Done(p))
  BY KeyInHand DEF BuildInv, LocalsOf, Keyed, Working
<1>5. Progress(p)' /\ KeyFits(key[p], Node(p), Done(p))'
  BY <1>4 DEF Progress, KeyFits, Node, Done
<1>6. LocalsOf(p)' BY <1>3, <1>4, <1>5 DEF LocalsOf, Waiting
<1>7. Others(p) BY DEF Goto, Others, BuildInv, TypeOK
<1>8. QED BY <1>2, <1>6, <1>7, StepOfOne DEF BuildInv

LEMMA ExecuteInv == ASSUME BuildInv, NEW p \in Builds, Execute(p) PROVE BuildInv'
<1>1. tool \in Tools /\ key[p] \in Keys
  BY KeyInHand DEF Execute, BuildInv, TypeOK, Keyed
<1>2. [key[p] EXCEPT !.tool = tool] \in Keys BY <1>1, KeyFacts
<1>3. PICK v \in Values :
        /\ produced' = produced \union {[key |-> [key[p] EXCEPT !.tool = tool], value |-> v]}
        /\ result' = [result EXCEPT ![p] = [state |-> "produced", key |-> key[p], value |-> v]]
  BY DEF Execute
<1>4. [key |-> [key[p] EXCEPT !.tool = tool], value |-> v] \in [key : Keys, value : Values]
  BY <1>2
<1>5. WorldTyped
  BY DEF WorldTyped, BuildInv, TypeOK
<1>6. produced' \subseteq [key : Keys, value : Values] BY <1>3, <1>4, <1>5 DEF WorldTyped
<1>7. WorldTyped' BY <1>5, <1>6 DEF Execute, WorldTyped
<1>8. QED BY <1>3, <1>7, OutputsInv DEF Execute

LEMMA CommitCreatesInv ==
    ASSUME BuildInv, NEW p \in Builds, CommitCreates(p) PROVE BuildInv'
<1>1. key[p] \in Keys /\ result[p].value \in Values
  BY KeyInHand DEF CommitCreates, BuildInv, LocalsOf, Keyed
<1>2. [key |-> key[p], value |-> result[p].value, intact |-> TRUE]
        \in [key : Keys, value : Values, intact : BOOLEAN]
  BY <1>1
<1>3. WorldTyped BY DEF WorldTyped, BuildInv, TypeOK
<1>4. WorldTyped' BY <1>2, <1>3 DEF CommitCreates, WorldTyped
<1>5. QED BY <1>4, ProceedInv DEF CommitCreates, Keyed

(* A write of the manifest in memory.                                      *)
LEMMA SaveInv == ASSUME BuildInv, NEW p \in Builds, Save(p) PROVE BuildInv'
<1> DEFINE m == Recorded(p)
<1>1. /\ pc[p] = "save"
      /\ memory' = [memory EXCEPT ![p] = m] /\ disk' = [disk EXCEPT ![dir[p]] = m]
      /\ at' = [at EXCEPT ![p] = @ + 1]
      /\ pc' = [pc EXCEPT ![p] = IF at[p] + 1 = Len(Order) THEN "finish" ELSE "node"]
      /\ UNCHANGED <<world, dir, key, result, faults>>
  BY DEF Save, Goto
<1>2. m \in Manifest /\ AllFit(m.results)
      /\ m.results = [Done(p) EXCEPT ![Node(p)] = result[p]]
  BY <1>1, RecordedFits
<1> HIDE DEF m
<1>3. at[p] \in 0..Len(Order) /\ at[p] + 1 \in 1..Len(Order) /\ Node(p) \in Nodes
  BY <1>1, NodeFacts DEF Working
<1>4. memory'[p] = m /\ at'[p] = at[p] + 1
  BY <1>1 DEF BuildInv, TypeOK
<1>5. TypeOK' BY <1>1, <1>2, <1>3, OrderFacts DEF BuildInv, TypeOK, world
<1>6. ASSUME pc'[p] \in Working PROVE at'[p] < Len(Order) /\ Progress(p)'
  <2>1. at[p] + 1 < Len(Order)
    BY <1>1, <1>3, <1>6, OrderFacts DEF Working, BuildInv, TypeOK
  <2>2. Progress(p) /\ result[p].state # "pending"
    BY <1>1 DEF BuildInv, LocalsOf, Working
  <2>3. Done(p) \in [Nodes -> Result] BY DEF BuildInv, TypeOK, Manifest, Done
  <2>4. ASSUME NEW i \in 1..Len(Order)
        PROVE  m.results[Order[i]].state = "pending" <=> i > at[p] + 1
    <3>1. Order[i] \in Nodes BY OrderFacts
    <3>2. CASE i = at[p] + 1 BY <1>2, <1>3, <2>2, <2>3, <3>2, OrderFacts DEF Node
    <3>3. CASE i # at[p] + 1
      <4>1. Order[i] # Node(p) BY <1>3, <3>3, OrderFacts DEF Node
      <4>2. m.results[Order[i]] = Done(p)[Order[i]] BY <1>2, <2>3, <3>1, <4>1
      <4>3. QED BY <1>3, <2>2, <3>3, <4>2, OrderFacts DEF Progress
    <3>4. QED BY <3>2, <3>3
  <2>5. QED BY <1>4, <2>1, <2>4 DEF Progress, Done
<1>7. pc'[p] \in {"finish", "node"} BY <1>1 DEF BuildInv, TypeOK
<1>8. LocalsOf(p)' BY <1>6, <1>7 DEF LocalsOf, Keyed, Waiting
<1>9. Others(p) BY <1>1 DEF Others, BuildInv, TypeOK
<1>10. QED BY <1>1, <1>2, <1>4, <1>5, <1>8, <1>9, Written, StepOfOne

(* A step out of the node loop, to a manifest of the same or new results.  *)
LEMMA EndingInv ==
    ASSUME BuildInv, NEW p \in Builds, NEW m \in Manifest, AllFit(m.results),
           memory' = [memory EXCEPT ![p] = m], pc[p] \notin Waiting,
           NEW label \in Ending, Goto(p, label),
           UNCHANGED <<world, disk, dir, at, key, result>>, faults' \in 0..MaxFaults
    PROVE  BuildInv'
<1>1. TypeOK' BY DEF Goto, BuildInv, TypeOK, world, Ending, Waiting
<1>2. pc'[p] = label /\ memory'[p] = m BY DEF Goto, BuildInv, TypeOK
<1>3. LocalsOf(p)' BY <1>2 DEF LocalsOf, Working, Keyed, Ending, Waiting
<1>4. Others(p) BY DEF Goto, Others, BuildInv, TypeOK
<1>5. QED BY <1>1, <1>2, <1>3, <1>4, StepOfOne

(* A build that goes keeps nothing.                                        *)
LEMMA LeaveFacts ==
    ASSUME BuildInv, NEW p \in Builds, Leave(p)
    PROVE  /\ pc'[p] = "over" /\ memory'[p] = NoManifest /\ result'[p] = Pending
           /\ Others(p)
BY DEF Leave, Goto, Others, BuildInv, TypeOK

LEMMA LeaveInv ==
    ASSUME BuildInv, NEW p \in Builds, Leave(p), UNCHANGED world, faults' \in 0..MaxFaults,
           disk' \in [Dirs -> Manifest],
           \A d \in Dirs : disk'[d] = disk[d] \/ AllFit(disk'[d].results)
    PROVE  BuildInv'
<1>1. Pending \in Result /\ NoManifest \in Manifest
  BY DEF Pending, Result, NoManifest, Manifest
<1>2. TypeOK' BY <1>1, OrderFacts DEF Leave, Goto, BuildInv, TypeOK, world, Waiting
<1>3. at'[p] = 0 BY DEF Leave, BuildInv, TypeOK
<1>4. LocalsOf(p)' BY <1>3, LeaveFacts DEF LocalsOf, Working, Keyed
<1>5. AllFit(NoManifest.results) BY DEF AllFit, Fits, NoManifest, Pending, Good
<1>6. QED BY <1>2, <1>4, <1>5, LeaveFacts, StepOfOne

LEMMA RefuseInv == ASSUME BuildInv, NEW p \in Builds, Refuse(p) PROVE BuildInv'
BY LeaveInv DEF Refuse, BuildInv, TypeOK

LEMMA StatusInv ==
    ASSUME BuildInv, NEW p \in Builds, NEW s \in {"interrupted", "succeeded", "failed"},
           NEW label \in Ending, Goto(p, label), pc[p] \notin Waiting,
           memory' = [memory EXCEPT ![p].status = s],
           UNCHANGED <<world, disk, dir, at, key, result, faults>>
    PROVE  BuildInv'
<1> DEFINE m == [memory[p] EXCEPT !.status = s]
<1>1. m \in Manifest /\ m.results = memory[p].results BY DEF BuildInv, TypeOK, Manifest
<1>2. AllFit(m.results) BY <1>1 DEF BuildInv
<1>3. memory' = [memory EXCEPT ![p] = m] OBVIOUS
<1>4. faults' \in 0..MaxFaults BY DEF BuildInv, TypeOK
<1> HIDE DEF m
<1>5. QED BY <1>1, <1>2, <1>3, <1>4, EndingInv

LEMMA SaveLastInv == ASSUME BuildInv, NEW p \in Builds, SaveLast(p) PROVE BuildInv'
<1>1. disk' = [disk EXCEPT ![dir[p]] = memory[p]] BY DEF SaveLast
<1>2. memory[p] \in Manifest /\ AllFit(memory[p].results) BY DEF BuildInv, TypeOK
<1>3. disk' \in [Dirs -> Manifest] BY <1>1, <1>2 DEF BuildInv, TypeOK
<1>4. QED BY <1>1, <1>2, <1>3, Written, LeaveInv DEF SaveLast, BuildInv, TypeOK

LEMMA InterruptInv == ASSUME BuildInv, NEW p \in Builds, Interrupt(p) PROVE BuildInv'
<1>1. PICK m \in {memory[p]} \union (IF pc[p] = "save" THEN {Recorded(p)} ELSE {}) :
         memory' = [memory EXCEPT ![p] = [m EXCEPT !.status = "interrupted"]]
  BY DEF Interrupt
<1>2. m \in Manifest /\ AllFit(m.results)
  <2>1. CASE m = memory[p] BY <2>1 DEF BuildInv, TypeOK
  <2>2. CASE m # memory[p]
    <3>1. pc[p] = "save" /\ m = Recorded(p) BY <2>2
    <3>2. QED BY <3>1, RecordedFits
  <2>3. QED BY <2>1, <2>2
<1> DEFINE mi == [m EXCEPT !.status = "interrupted"]
<1>3. mi \in Manifest /\ mi.results = m.results BY <1>2 DEF Manifest
<1>4. faults' \in 0..MaxFaults BY PlanAssumption DEF Interrupt, BuildInv, TypeOK
<1>5. memory' = [memory EXCEPT ![p] = mi] BY <1>1
<1> HIDE DEF mi
<1>6. QED BY <1>2, <1>3, <1>4, <1>5, EndingInv DEF Interrupt, Ending

LEMMA DieInv == ASSUME BuildInv, NEW p \in Builds, Die(p) PROVE BuildInv'
<1>1. faults' \in 0..MaxFaults BY PlanAssumption DEF Die, BuildInv, TypeOK
<1>2. QED BY <1>1, LeaveInv DEF Die, BuildInv, TypeOK

(* The owner touches no build.                                             *)
LEMMA OwnerInv ==
    ASSUME BuildInv, WorldTyped', UNCHANGED <<disk, dir, pc, memory, at, key, result, faults>>
    PROVE  BuildInv'
<1>1. TypeOK' BY DEF WorldTyped, BuildInv, TypeOK
<1>2. ASSUME NEW p \in Builds PROVE LocalsOf(p)'
  BY DEF BuildInv, LocalsOf, Progress, KeyFits, Fits, Done, Node
<1>3. QED BY <1>1, <1>2 DEF BuildInv, AllFit, Fits, KeyFits

LEMMA ChangeToolInv == ASSUME BuildInv, ChangeTool PROVE BuildInv'
<1>1. WorldTyped' BY PlanAssumption DEF ChangeTool, WorldTyped, BuildInv, TypeOK
<1>2. QED BY <1>1, OwnerInv DEF ChangeTool

LEMMA DamageEntryInv == ASSUME BuildInv, DamageEntry PROVE BuildInv'
<1>1. ASSUME NEW e \in entries
      PROVE  [e EXCEPT !.intact = FALSE] \in [key : Keys, value : Values, intact : BOOLEAN]
  BY DEF BuildInv, TypeOK
<1>2. WorldTyped' BY <1>1, PlanAssumption DEF DamageEntry, WorldTyped, BuildInv, TypeOK
<1>3. QED BY <1>2, OwnerInv DEF DamageEntry

LEMMA StepInv == BuildInv /\ [Next]_vars => BuildInv'
<1> SUFFICES ASSUME BuildInv, [Next]_vars PROVE BuildInv'
  OBVIOUS
<1>1. ASSUME NEW p \in Builds, Admit(p) \/ Start(p) \/ Refuse(p) PROVE BuildInv'
  BY <1>1, AdmitInv, StartInv, RefuseInv
<1>2. ASSUME NEW p \in Builds, Block(p) \/ FindNoAdapter(p) PROVE BuildInv'
  <2>1. /\ pc[p] \in Working /\ WorldTyped'
        /\ \E s \in {"blocked", "failed"} : Yield(p, s, NoKey, NoValue)
    BY <1>2, WorldKept DEF Block, FindNoAdapter, Working
  <2>2. \A s \in {"blocked", "failed"} :
           [state |-> s, key |-> NoKey, value |-> NoValue] \in Result
    BY DEF Result, Bad
  <2>3. QED BY <2>1, <2>2, YieldInv DEF Good
<1>3. ASSUME NEW p \in Builds, Fingerprint(p) PROVE BuildInv' BY <1>3, FingerprintInv
<1>4. ASSUME NEW p \in Builds, FingerprintRaises(p) PROVE BuildInv'
  BY <1>4, StatusInv DEF FingerprintRaises, Ending, Waiting
<1>5. ASSUME NEW p \in Builds, LoadHits(p) \/ CommitFinds(p) PROVE BuildInv'
  BY <1>5, HitInv DEF LoadHits, CommitFinds, Keyed
<1>6. ASSUME NEW p \in Builds,
             \/ LoadFindsCorrupt(p) \/ SnapshotFails(p) \/ ExecuteRaises(p)
             \/ RecheckFails(p) \/ CommitFindsCorrupt(p)
      PROVE  BuildInv'
  BY <1>6, FailInv
     DEF LoadFindsCorrupt, SnapshotFails, ExecuteRaises, RecheckFails, CommitFindsCorrupt, Keyed
<1>7. ASSUME NEW p \in Builds, LoadMisses(p) \/ Snapshot(p) \/ Recheck(p) PROVE BuildInv'
  BY <1>7, ProceedInv, WorldKept DEF LoadMisses, Snapshot, Recheck, Keyed
<1>8. ASSUME NEW p \in Builds, Execute(p) PROVE BuildInv' BY <1>8, ExecuteInv
<1>9. ASSUME NEW p \in Builds, ExecuteOnModified(p) PROVE BuildInv'
  BY <1>9, OutputsInv, WorldKept DEF ExecuteOnModified
<1>10. ASSUME NEW p \in Builds, CommitCreates(p) PROVE BuildInv' BY <1>10, CommitCreatesInv
<1>11. ASSUME NEW p \in Builds, Save(p) PROVE BuildInv' BY <1>11, SaveInv
<1>12. ASSUME NEW p \in Builds, Finish(p) PROVE BuildInv' 
  BY <1>12, StatusInv DEF Finish, Ending, Waiting
<1>13. ASSUME NEW p \in Builds, SaveLast(p) PROVE BuildInv' BY <1>13, SaveLastInv
<1>14. ASSUME NEW p \in Builds, Interrupt(p) PROVE BuildInv' BY <1>14, InterruptInv
<1>15. ASSUME NEW p \in Builds, Die(p) PROVE BuildInv' BY <1>15, DieInv
<1>16. CASE ChangeTool \/ DamageEntry BY <1>16, ChangeToolInv, DamageEntryInv
<1>17. CASE UNCHANGED vars
  <2>1. WorldTyped' BY <1>17, WorldKept DEF vars, world
  <2>2. QED BY <1>17, <2>1, OwnerInv DEF vars
<1>18. QED
  BY <1>1, <1>2, <1>3, <1>4, <1>5, <1>6, <1>7, <1>8, <1>9, <1>10, <1>11, <1>12,
     <1>13, <1>14, <1>15, <1>16, <1>17 DEF Next, Step, Finished

(* Every variable keeps its type: no step of _run_owned uses a key, a      *)
(* result or a dependency's output that is not there.                      *)
THEOREM TypeCorrect == Spec => []TypeOK
<1>1. Init => BuildInv BY InitInv
<1>2. BuildInv => TypeOK BY DEF BuildInv
<1>3. QED BY <1>1, <1>2, StepInv, PTL DEF Spec

-----------------------------------------------------------------------------
(* The manifest of a directory is that of the one build that runs in it.   *)

OwnOf(p) ==
    pc[p] \notin Waiting =>
        /\ disk[dir[p]].status = "running"
        /\ pc[p] \notin Ending => disk[dir[p]] = memory[p]

OwnInv ==
    /\ \A p, q \in Builds :
          pc[p] \notin Waiting /\ pc[q] \notin Waiting /\ dir[p] = dir[q] => p = q
    /\ \A p \in Builds : OwnOf(p)

LEMMA AtWork ==
    ASSUME OwnInv, NEW p \in Builds, pc[p] \in Working \union {"finish"}
    PROVE  memory[p].status = "running" /\ disk[dir[p]] = memory[p]
BY DEF OwnInv, OwnOf, Working, Waiting, Ending

(* A step of p that writes in no directory but its own.                    *)
LEMMA OwnStep ==
    ASSUME BuildInv, OwnInv, NEW p \in Builds, Others(p), OwnOf(p)',
           pc'[p] \notin Waiting => dir'[p] = dir[p],
           disk' # disk \/ pc'[p] \notin Waiting => pc[p] \notin Waiting \/ ~Locked(dir[p]),
           \A d \in Dirs : d # dir[p] => disk'[d] = disk[d]
    PROVE  OwnInv'
<1>1. ASSUME NEW q \in Builds, q # p
      PROVE  /\ OwnOf(q)'
             /\ pc'[p] \notin Waiting /\ pc'[q] \notin Waiting => dir'[p] # dir'[q]
  <2>1. pc'[q] = pc[q] /\ dir'[q] = dir[q] /\ memory'[q] = memory[q]
    BY <1>1 DEF Others
  <2>2. CASE pc[q] \in Waiting BY <2>1, <2>2 DEF OwnOf
  <2>3. CASE pc[q] \notin Waiting
    <3>1. dir[q] \in Dirs BY <2>3 DEF BuildInv, TypeOK, Waiting
    <3>2. pc[p] \notin Waiting \/ ~Locked(dir[p]) => dir[q] # dir[p]
      BY <1>1, <2>3 DEF OwnInv, Locked
    <3>3. disk'[dir[q]] = disk[dir[q]] BY <3>1, <3>2
    <3>4. OwnOf(q) BY DEF OwnInv
    <3>5. OwnOf(q)' BY <2>1, <3>3, <3>4 DEF OwnOf
    <3>6. QED BY <2>1, <3>2, <3>5
  <2>4. QED BY <2>2, <2>3
<1>2. ASSUME NEW q \in Builds, NEW r \in Builds, pc'[q] \notin Waiting,
             pc'[r] \notin Waiting, dir'[q] = dir'[r], q # r
      PROVE  FALSE
  <2>1. CASE q = p \/ r = p BY <1>1, <1>2, <2>1
  <2>2. CASE q # p /\ r # p BY <1>2, <2>2 DEF Others, OwnInv
  <2>3. QED BY <2>1, <2>2
<1>3. QED BY <1>1, <1>2 DEF OwnInv

(* The steps at a node before its result is recorded.                      *)
NodeStep(p) ==
    \/ Block(p) \/ FindNoAdapter(p) \/ Fingerprint(p)
    \/ LoadHits(p) \/ LoadFindsCorrupt(p) \/ LoadMisses(p)
    \/ Snapshot(p) \/ SnapshotFails(p)
    \/ Execute(p) \/ ExecuteOnModified(p) \/ ExecuteRaises(p)
    \/ Recheck(p) \/ RecheckFails(p)
    \/ CommitCreates(p) \/ CommitFinds(p) \/ CommitFindsCorrupt(p)

LEMMA NodeStepFacts ==
    ASSUME BuildInv, NEW p \in Builds, NodeStep(p)
    PROVE  /\ pc[p] \in Working /\ pc'[p] \in Working
           /\ pc' = [pc EXCEPT ![p] = pc'[p]]
           /\ UNCHANGED <<disk, dir, memory, at>>
<1>1. ASSUME NEW label \in Working, Goto(p, label)
      PROVE  pc'[p] \in Working /\ pc' = [pc EXCEPT ![p] = pc'[p]]
  BY <1>1 DEF Goto, BuildInv, TypeOK
<1>2. ASSUME NEW s, NEW k, NEW v, Yield(p, s, k, v), pc[p] \in Working
      PROVE  /\ pc[p] \in Working /\ pc'[p] \in Working
             /\ pc' = [pc EXCEPT ![p] = pc'[p]]
             /\ UNCHANGED <<disk, dir, memory, at>>
  BY <1>1, <1>2 DEF Yield, Working
<1>3. CASE Block(p) \/ FindNoAdapter(p) BY <1>2, <1>3 DEF Block, FindNoAdapter, Working
<1>4. CASE \/ LoadHits(p) \/ LoadFindsCorrupt(p) \/ SnapshotFails(p) \/ ExecuteRaises(p)
  BY <1>2, <1>4 DEF LoadHits, LoadFindsCorrupt, SnapshotFails, ExecuteRaises, Working
<1>5. CASE RecheckFails(p) \/ CommitFinds(p) \/ CommitFindsCorrupt(p)
  BY <1>2, <1>5 DEF RecheckFails, CommitFinds, CommitFindsCorrupt, Working
<1>6. CASE Fingerprint(p) \/ LoadMisses(p) \/ Snapshot(p) \/ Recheck(p) \/ CommitCreates(p)
  BY <1>1, <1>6
     DEF Fingerprint, LoadMisses, Snapshot, Recheck, CommitCreates, Proceed, Working
<1>7. CASE Execute(p) \/ ExecuteOnModified(p)
  BY <1>1, <1>7 DEF Execute, ExecuteOnModified, Working
<1>8. QED BY <1>3, <1>4, <1>5, <1>6, <1>7 DEF NodeStep

LEMMA NodeStepOthers ==
    ASSUME BuildInv, NEW p \in Builds, NodeStep(p) PROVE Others(p)
<1>1. ASSUME NEW q \in Builds \ {p} PROVE key'[q] = key[q] /\ result'[q] = result[q]
  BY DEF NodeStep, Block, FindNoAdapter, Fingerprint, LoadHits, LoadFindsCorrupt,
     LoadMisses, Snapshot, SnapshotFails, Execute, ExecuteOnModified, ExecuteRaises,
     Recheck, RecheckFails, CommitCreates, CommitFinds, CommitFindsCorrupt, Yield,
     Proceed, BuildInv, TypeOK
<1>2. ASSUME NEW q \in Builds \ {p} PROVE pc'[q] = pc[q]
  BY NodeStepFacts DEF BuildInv, TypeOK
<1>3. QED BY <1>1, <1>2, NodeStepFacts DEF Others

(* What a build writes in its directory while it is at work.               *)
LEMMA SaveFacts ==
    ASSUME BuildInv, NEW p \in Builds, Save(p)
    PROVE  /\ pc[p] = "save" /\ pc'[p] \in {"node", "finish"}
           /\ memory'[p] = Recorded(p) /\ disk' = [disk EXCEPT ![dir[p]] = Recorded(p)]
           /\ dir' = dir /\ dir[p] \in Dirs /\ Others(p)
           /\ \A d \in Dirs : disk'[d] = disk[d] \/ disk'[d] = Recorded(p)
<1>1. pc[p] = "save" /\ disk' = [disk EXCEPT ![dir[p]] = Recorded(p)] /\ dir' = dir
  BY DEF Save
<1>2. pc'[p] \in {"node", "finish"} /\ memory'[p] = Recorded(p) /\ Others(p)
  BY DEF Save, Goto, Others, BuildInv, TypeOK
<1>3. dir[p] \in Dirs BY <1>1 DEF BuildInv, TypeOK
<1>4. QED BY <1>1, <1>2, <1>3, Written

LEMMA StartFacts ==
    ASSUME BuildInv, NEW p \in Builds, Start(p)
    PROVE  LET m == [NoManifest EXCEPT !.status = "running"]
           IN /\ pc[p] \in {"new", "resume"} /\ ~Locked(dir[p]) /\ pc'[p] = "node"
              /\ memory'[p] = m /\ disk' = [disk EXCEPT ![dir[p]] = m]
              /\ dir' = dir /\ dir[p] \in Dirs /\ Others(p)
              /\ \A d \in Dirs : disk'[d] = disk[d] \/ disk'[d] = m
<1> DEFINE m == [NoManifest EXCEPT !.status = "running"]
<1>1. /\ pc[p] \in {"new", "resume"} /\ ~Locked(dir[p]) /\ dir' = dir
      /\ memory' = [memory EXCEPT ![p] = m] /\ disk' = [disk EXCEPT ![dir[p]] = memory'[p]]
  BY DEF Start
<1> HIDE DEF m
<1>2. memory'[p] = m /\ dir[p] \in Dirs BY <1>1 DEF BuildInv, TypeOK
<1>3. pc'[p] = "node" BY DEF Start, Goto, BuildInv, TypeOK
<1>4. Others(p) BY <1>1 DEF Start, Goto, Others, BuildInv, TypeOK
<1>5. \A d \in Dirs : disk'[d] = disk[d] \/ disk'[d] = m BY <1>1, <1>2, Written
<1>6. QED BY <1>1, <1>2, <1>3, <1>4, <1>5 DEF m

(* A build is admitted, refused, ends or dies.                             *)
LEMMA GoingFacts ==
    ASSUME BuildInv, NEW p \in Builds, Admit(p) \/ Refuse(p) \/ SaveLast(p) \/ Die(p)
    PROVE  /\ pc'[p] \in Waiting /\ Others(p) /\ UNCHANGED world
           /\ memory'[p] \in {memory[p], NoManifest}
           /\ \A d \in Dirs : disk'[d] = disk[d] \/ disk'[d] = memory[p]
           /\ disk' # disk => disk' = [disk EXCEPT ![dir[p]] = memory[p]] /\ pc[p] \in Ending
<1>1. CASE Admit(p)
  <2>1. pc'[p] \in Waiting BY <1>1 DEF Admit, Goto, Waiting, BuildInv, TypeOK
  <2>2. Others(p) BY <1>1 DEF Admit, Goto, Others, BuildInv, TypeOK
  <2>3. QED BY <1>1, <2>1, <2>2 DEF Admit
<1>2. CASE Refuse(p) \/ Die(p)
  BY <1>2, LeaveFacts DEF Refuse, Die, Waiting
<1>3. CASE SaveLast(p)
  <2>1. disk' = [disk EXCEPT ![dir[p]] = memory[p]] /\ pc[p] \in Ending
    BY <1>3 DEF SaveLast, Ending
  <2>2. QED BY <1>3, <2>1, Written, LeaveFacts DEF SaveLast, Waiting
<1>4. QED BY <1>1, <1>2, <1>3

(* A build stops at its nodes: it has not written its last manifest yet.   *)
LEMMA EndingFacts ==
    ASSUME BuildInv, NEW p \in Builds, FingerprintRaises(p) \/ Finish(p) \/ Interrupt(p)
    PROVE  /\ pc[p] \notin Waiting \union Ending /\ pc'[p] \in Ending
           /\ Others(p) /\ UNCHANGED <<world, disk, dir>>
<1>1. \E label \in Ending : Goto(p, label)
  BY DEF FingerprintRaises, Finish, Interrupt, Ending
<1>2. pc'[p] \in Ending BY <1>1 DEF Goto, BuildInv, TypeOK
<1>3. pc[p] \notin Waiting \union Ending
  BY DEF FingerprintRaises, Finish, Interrupt, Waiting, Ending
<1>4. Others(p) BY DEF FingerprintRaises, Finish, Interrupt, Goto, Others, BuildInv, TypeOK
<1>5. UNCHANGED <<world, disk, dir>> BY DEF FingerprintRaises, Finish, Interrupt
<1>6. QED BY <1>2, <1>3, <1>4, <1>5

LEMMA OwnInvStep == BuildInv /\ OwnInv /\ [Next]_vars => OwnInv'
<1> SUFFICES ASSUME BuildInv, OwnInv, [Next]_vars PROVE OwnInv'
  OBVIOUS
<1>1. ASSUME NEW p \in Builds, Start(p) PROVE OwnInv'
  <2> DEFINE m == [NoManifest EXCEPT !.status = "running"]
  <2>1. /\ ~Locked(dir[p]) /\ pc'[p] = "node" /\ memory'[p] = m
        /\ disk' = [disk EXCEPT ![dir[p]] = m] /\ dir' = dir /\ dir[p] \in Dirs /\ Others(p)
    BY <1>1, StartFacts
  <2>2. m.status = "running" BY DEF NoManifest
  <2> HIDE DEF m
  <2>3. disk'[dir[p]] = m /\ \A d \in Dirs : d # dir[p] => disk'[d] = disk[d]
    BY <2>1 DEF BuildInv, TypeOK
  <2>4. OwnOf(p)' BY <2>1, <2>2, <2>3 DEF OwnOf
  <2>5. QED BY <2>1, <2>3, <2>4, OwnStep
<1>2. ASSUME NEW p \in Builds, Save(p) PROVE OwnInv'
  <2> DEFINE m == Recorded(p)
  <2>1. /\ pc[p] = "save" /\ pc'[p] \in {"node", "finish"} /\ memory'[p] = m
        /\ disk' = [disk EXCEPT ![dir[p]] = m] /\ dir' = dir /\ dir[p] \in Dirs /\ Others(p)
    BY <1>2, SaveFacts
  <2>2. m.status = "running" BY <2>1, RecordedFits, AtWork DEF Working
  <2> HIDE DEF m
  <2>3. disk'[dir[p]] = m /\ \A d \in Dirs : d # dir[p] => disk'[d] = disk[d]
    BY <2>1 DEF BuildInv, TypeOK
  <2>4. OwnOf(p)' BY <2>1, <2>2, <2>3 DEF OwnOf
  <2>5. pc[p] \notin Waiting BY <2>1 DEF Waiting
  <2>6. QED BY <2>1, <2>3, <2>4, <2>5, OwnStep
<1>3. ASSUME NEW p \in Builds, Admit(p) \/ Refuse(p) \/ SaveLast(p) \/ Die(p) PROVE OwnInv'
  <2>1. /\ pc'[p] \in Waiting /\ Others(p)
        /\ disk' # disk => disk' = [disk EXCEPT ![dir[p]] = memory[p]] /\ pc[p] \in Ending
    BY <1>3, GoingFacts
  <2>2. \A d \in Dirs : d # dir[p] => disk'[d] = disk[d] BY <2>1 DEF BuildInv, TypeOK
  <2>3. OwnOf(p)' BY <2>1 DEF OwnOf
  <2>4. disk' # disk => pc[p] \notin Waiting BY <2>1 DEF Ending, Waiting
  <2>5. QED BY <2>1, <2>2, <2>3, <2>4, OwnStep
<1>4. ASSUME NEW p \in Builds, NodeStep(p) PROVE OwnInv'
  <2>1. pc[p] \notin Waiting \union Ending /\ UNCHANGED <<disk, dir, memory>>
    BY <1>4, NodeStepFacts DEF Working, Waiting, Ending
  <2>2. OwnOf(p)' BY <2>1 DEF OwnInv, OwnOf
  <2>3. QED BY <1>4, <2>1, <2>2, NodeStepOthers, OwnStep
<1>5. ASSUME NEW p \in Builds, FingerprintRaises(p) \/ Finish(p) \/ Interrupt(p) PROVE OwnInv'
  <2>1. OwnOf(p)' BY <1>5, EndingFacts DEF OwnInv, OwnOf
  <2>2. QED BY <1>5, <2>1, EndingFacts, OwnStep
<1>6. CASE ChangeTool \/ DamageEntry \/ UNCHANGED vars
  BY <1>6 DEF ChangeTool, DamageEntry, vars, OwnInv, OwnOf
<1>7. QED
  BY <1>1, <1>2, <1>3, <1>4, <1>5, <1>6 DEF Next, Step, NodeStep, Finished

(* However many builds are admitted to one directory before the lock is    *)
(* taken, the manifest in it is that of the build that runs there, as this *)
(* build last wrote it.                                                    *)
THEOREM ManifestsAreOwn == Spec => []ManifestIsOwn
<1>1. Init => BuildInv /\ OwnInv
  <2>1. Init => OwnInv BY DEF Init, OwnInv, OwnOf, Waiting
  <2>2. QED BY <2>1, InitInv
<1>2. BuildInv /\ OwnInv /\ [Next]_vars => BuildInv' /\ OwnInv' BY StepInv, OwnInvStep
<1>3. OwnInv => ManifestIsOwn BY DEF OwnInv, OwnOf, ManifestIsOwn, Ending
<1>4. QED BY <1>1, <1>2, <1>3, PTL DEF Spec

-----------------------------------------------------------------------------
(* What was made.                                                          *)

Made(k, v) == [key |-> k, value |-> v] \in produced

AllMade(results) ==
    \A n \in Nodes : results[n].state \in Good => Made(results[n].key, results[n].value)

(* Between the two fingerprints: if the tools are those of the key, they   *)
(* are those the adapter has used.                                         *)
MadeBy(p) ==
    /\ pc[p] = "recheck" => (tool = key[p].tool => Made(key[p], result[p].value))
    /\ pc[p] = "commit" => Made(key[p], result[p].value)
    /\ pc[p] = "save" => (result[p].state \in Good => Made(result[p].key, result[p].value))

EntriesMade == \A e \in entries : Made(e.key, e.value)

MadeInv ==
    /\ EntriesMade
    /\ \A p \in Builds : MadeBy(p)
    /\ \A p \in Builds : AllMade(memory[p].results)
    /\ \A d \in Dirs : AllMade(disk[d].results)

(* What the second fingerprint cannot notice: the tools of a key are put   *)
(* back after an adapter has run with others.                              *)
PutsNothingBack ==
    \A p \in Builds : pc[p] = "recheck" /\ tool' = key[p].tool => tool = key[p].tool

NeverPutBack == [][PutsNothingBack]_vars

(* A step of p.                                                            *)
LEMMA MadeStep ==
    ASSUME BuildInv, MadeInv, NEW p \in Builds, Others(p), produced \subseteq produced',
           tool' = tool, EntriesMade', MadeBy(p)', AllMade(memory[p].results)',
           \A d \in Dirs : disk'[d] = disk[d] \/ AllMade(disk[d].results)'
    PROVE  MadeInv'
<1>1. ASSUME NEW q \in Builds PROVE MadeBy(q)' /\ AllMade(memory[q].results)'
  <2>1. CASE q = p BY <2>1
  <2>2. CASE q # p
    <3>1. /\ pc'[q] = pc[q] /\ key'[q] = key[q] /\ result'[q] = result[q]
          /\ memory'[q] = memory[q]
      BY <2>2 DEF Others
    <3>2. MadeBy(q) /\ AllMade(memory[q].results)
      BY DEF MadeInv
    <3>3. MadeBy(q)' BY <3>1, <3>2 DEF MadeBy, Made
    <3>4. QED BY <3>1, <3>2, <3>3 DEF AllMade, Made
  <2>3. QED BY <2>1, <2>2
<1>2. ASSUME NEW d \in Dirs PROVE AllMade(disk[d].results)' BY DEF MadeInv, AllMade, Made
<1>3. QED BY <1>1, <1>2 DEF MadeInv

(* A step of p at its node, that makes and caches nothing.                 *)
LEMMA MadeLocal ==
    ASSUME BuildInv, MadeInv, NEW p \in Builds, Others(p), UNCHANGED world,
           memory'[p] = memory[p], disk' = disk, MadeBy(p)'
    PROVE  MadeInv'
<1>1. EntriesMade' BY DEF MadeInv, EntriesMade, Made, world
<1>2. AllMade(memory[p].results)' BY DEF MadeInv, AllMade, Made, world
<1>3. QED BY <1>1, <1>2, MadeStep DEF world

LEMMA YieldMade ==
    ASSUME BuildInv, MadeInv, NEW p \in Builds, NEW s, NEW k, NEW v, Yield(p, s, k, v),
           UNCHANGED world, s \in Good => Made(k, v)
    PROVE  MadeInv'
<1>1. Others(p) BY DEF Yield, Goto, Others, BuildInv, TypeOK
<1>2. pc'[p] = "save" /\ result'[p] = [state |-> s, key |-> k, value |-> v]
  BY DEF Yield, Goto, BuildInv, TypeOK
<1>3. MadeBy(p)' BY <1>2 DEF MadeBy, Made, world
<1>4. QED BY <1>1, <1>3, MadeLocal DEF Yield

LEMMA HitMade ==
    ASSUME BuildInv, MadeInv, NEW p \in Builds, UNCHANGED world,
           NEW e \in EntryAt(key[p]), Yield(p, "cache_hit", key[p], e.value)
    PROVE  MadeInv'
<1>1. Made(key[p], e.value) BY DEF EntryAt, MadeInv, EntriesMade
<1>2. QED BY <1>1, YieldMade

LEMMA ProceedMade ==
    ASSUME BuildInv, MadeInv, NEW p \in Builds, NEW label, Proceed(p, label), UNCHANGED world,
           \/ label \in {"snapshot", "execute"} /\ pc[p] \in {"lookup", "snapshot"}
           \/ label = "commit" /\ pc[p] = "recheck" /\ tool = key[p].tool
    PROVE  MadeInv'
<1>1. Others(p) BY DEF Proceed, Goto, Others, BuildInv, TypeOK
<1>2. pc'[p] = label /\ key'[p] = key[p] /\ result'[p] = result[p]
  BY DEF Proceed, Goto, BuildInv, TypeOK
<1>3. MadeBy(p) BY DEF MadeInv
<1>4. MadeBy(p)' BY <1>2, <1>3 DEF MadeBy, Made, world
<1>5. QED BY <1>1, <1>4, MadeLocal DEF Proceed

LEMMA FingerprintMade ==
    ASSUME BuildInv, MadeInv, NEW p \in Builds, Fingerprint(p) PROVE MadeInv'
<1>1. Others(p) BY DEF Fingerprint, Goto, Others, BuildInv, TypeOK
<1>2. pc'[p] = "lookup" BY DEF Fingerprint, Goto, BuildInv, TypeOK
<1>3. MadeBy(p)' BY <1>2 DEF MadeBy
<1>4. QED BY <1>1, <1>3, MadeLocal DEF Fingerprint

LEMMA ExecuteMade ==
    ASSUME BuildInv, MadeInv, NEW p \in Builds, Execute(p) PROVE MadeInv'
<1>1. PICK v \in Values :
        /\ produced' = produced \union {[key |-> [key[p] EXCEPT !.tool = tool], value |-> v]}
        /\ result' = [result EXCEPT ![p] = [state |-> "produced", key |-> key[p], value |-> v]]
  BY DEF Execute
<1>2. Others(p) BY DEF Execute, Goto, Others, BuildInv, TypeOK
<1>3. pc'[p] = "recheck" /\ key'[p] = key[p] /\ result'[p].value = v
  BY <1>1 DEF Execute, Goto, BuildInv, TypeOK
<1>4. MadeBy(p) /\ key[p] \in Keys BY KeyInHand DEF MadeInv, Execute, Keyed
<1>5. tool = key[p].tool => Made(key[p], v)' BY <1>1, <1>3, <1>4, KeyFacts DEF Made, Execute
<1>6. MadeBy(p)' BY <1>3, <1>4, <1>5 DEF MadeBy, Made, Execute
<1>7. EntriesMade' BY <1>1 DEF MadeInv, EntriesMade, Made, Execute
<1>8. AllMade(memory[p].results)'
  BY <1>1 DEF MadeInv, AllMade, Made, Execute
<1>9. QED BY <1>1, <1>2, <1>6, <1>7, <1>8, MadeStep DEF Execute

LEMMA ModifiedMade ==
    ASSUME BuildInv, MadeInv, NEW p \in Builds, ExecuteOnModified(p) PROVE MadeInv'
<1>1. Others(p) BY DEF ExecuteOnModified, Goto, Others, BuildInv, TypeOK
<1>2. pc'[p] = "modified" BY DEF ExecuteOnModified, Goto, BuildInv, TypeOK
<1>3. MadeBy(p)' BY <1>2 DEF MadeBy
<1>4. QED BY <1>1, <1>3, MadeLocal DEF ExecuteOnModified

LEMMA CommitMade ==
    ASSUME BuildInv, MadeInv, NEW p \in Builds, CommitCreates(p) PROVE MadeInv'
<1>1. Made(key[p], result[p].value) /\ result[p].key = key[p]
  BY DEF CommitCreates, MadeInv, MadeBy, BuildInv, LocalsOf
<1>2. EntriesMade'
  <2> DEFINE new == [key |-> key[p], value |-> result[p].value, intact |-> TRUE]
  <2>1. entries' = entries \union {new} /\ produced' = produced BY DEF CommitCreates
  <2>2. new.key = key[p] /\ new.value = result[p].value OBVIOUS
  <2> HIDE DEF new
  <2>3. QED BY <1>1, <2>1, <2>2 DEF MadeInv, EntriesMade, Made
<1>3. Others(p) BY DEF CommitCreates, Proceed, Goto, Others, BuildInv, TypeOK
<1>4. pc'[p] = "save" /\ result'[p] = result[p]
  BY DEF CommitCreates, Proceed, Goto, BuildInv, TypeOK
<1>5. MadeBy(p)' BY <1>1, <1>4 DEF MadeBy, Made, CommitCreates
<1>6. AllMade(memory[p].results)'
  BY DEF MadeInv, AllMade, Made, CommitCreates, Proceed
<1>7. QED BY <1>2, <1>3, <1>5, <1>6, MadeStep DEF CommitCreates, Proceed

LEMMA RecordedMade ==
    ASSUME BuildInv, MadeInv, NEW p \in Builds, pc[p] = "save"
    PROVE  AllMade(Recorded(p).results)
<1>1. Recorded(p).results = [Done(p) EXCEPT ![Node(p)] = result[p]] BY RecordedFits
<1>2. Done(p) \in [Nodes -> Result] BY DEF BuildInv, TypeOK, Manifest, Done
<1>3. AllMade(Done(p)) /\ (result[p].state \in Good => Made(result[p].key, result[p].value))
  BY DEF MadeInv, MadeBy, Done
<1>4. QED BY <1>1, <1>2, <1>3 DEF AllMade

(* A step of p to new manifests and out of the handling of a node.         *)
LEMMA ManifestMade ==
    ASSUME BuildInv, MadeInv, NEW p \in Builds, Others(p), UNCHANGED world,
           pc'[p] \in Waiting \union Ending \union {"node", "finish"},
           AllMade(memory'[p].results),
           \A d \in Dirs : disk'[d] = disk[d] \/ AllMade(disk'[d].results)
    PROVE  MadeInv'
<1>1. EntriesMade' BY DEF MadeInv, EntriesMade, Made, world
<1>2. /\ AllMade(memory[p].results)'
      /\ \A d \in Dirs : disk'[d] = disk[d] \/ AllMade(disk[d].results)'
  BY DEF AllMade, Made, world
<1>3. MadeBy(p)' BY DEF MadeBy, Waiting, Ending
<1>4. QED BY <1>1, <1>2, <1>3, MadeStep DEF world

LEMMA SaveMade == ASSUME BuildInv, MadeInv, NEW p \in Builds, Save(p) PROVE MadeInv'
BY SaveFacts, RecordedMade, ManifestMade DEF Save

LEMMA StartMade == ASSUME BuildInv, MadeInv, NEW p \in Builds, Start(p) PROVE MadeInv'
<1> DEFINE m == [NoManifest EXCEPT !.status = "running"]
<1>1. AllMade(m.results) BY DEF AllMade, NoManifest, Pending, Good
<1>2. /\ memory'[p] = m /\ pc'[p] = "node" /\ Others(p)
      /\ \A d \in Dirs : disk'[d] = disk[d] \/ disk'[d] = m
  BY StartFacts
<1> HIDE DEF m
<1>3. UNCHANGED world BY DEF Start
<1>4. QED BY <1>1, <1>2, <1>3, ManifestMade

LEMMA GoingMade ==
    ASSUME BuildInv, MadeInv, NEW p \in Builds,
           Admit(p) \/ Refuse(p) \/ SaveLast(p) \/ Die(p)
    PROVE  MadeInv'
<1>1. AllMade(memory[p].results) BY DEF MadeInv
<1>2. AllMade(NoManifest.results) BY DEF AllMade, NoManifest, Pending, Good
<1>3. QED BY <1>1, <1>2, GoingFacts, ManifestMade

LEMMA EndingMade ==
    ASSUME BuildInv, MadeInv, NEW p \in Builds,
           FingerprintRaises(p) \/ Finish(p) \/ Interrupt(p)
    PROVE  MadeInv'
<1>1. memory[p] \in Manifest /\ AllMade(memory[p].results) BY DEF MadeInv, BuildInv, TypeOK
<1>2. AllMade(memory'[p].results)
  <2>1. CASE FingerprintRaises(p) \/ Finish(p)
    <3>1. memory'[p].results = memory[p].results
      BY <1>1, <2>1 DEF FingerprintRaises, Finish, Manifest, BuildInv, TypeOK
    <3>2. QED BY <1>1, <3>1
  <2>2. CASE Interrupt(p)
    <3>1. PICK m \in {memory[p]} \union (IF pc[p] = "save" THEN {Recorded(p)} ELSE {}) :
             memory' = [memory EXCEPT ![p] = [m EXCEPT !.status = "interrupted"]]
      BY <2>2 DEF Interrupt
    <3>2. m \in Manifest /\ AllMade(m.results)
      <4>1. CASE m = memory[p] BY <1>1, <4>1
      <4>2. CASE m # memory[p]
        <5>1. pc[p] = "save" /\ m = Recorded(p) BY <4>2
        <5>2. QED BY <5>1, RecordedFits, RecordedMade
      <4>3. QED BY <4>1, <4>2
    <3>3. memory'[p].results = m.results BY <3>1, <3>2 DEF BuildInv, TypeOK, Manifest
    <3>4. QED BY <3>2, <3>3
  <2>3. QED BY <2>1, <2>2
<1>3. QED BY <1>2, EndingFacts, ManifestMade

(* A replacement of the tools makes nothing untrue: what was made with     *)
(* others than the key's fails the second fingerprint.                     *)
LEMMA ChangeToolMade ==
    ASSUME BuildInv, MadeInv, ChangeTool, PutsNothingBack PROVE MadeInv'
<1>1. ASSUME NEW p \in Builds PROVE MadeBy(p)'
  <2>1. MadeBy(p) BY DEF MadeInv
  <2>2. QED BY <2>1 DEF MadeBy, Made, ChangeTool, PutsNothingBack
<1>2. EntriesMade' BY DEF MadeInv, EntriesMade, Made, ChangeTool
<1>3. QED BY <1>1, <1>2 DEF MadeInv, AllMade, Made, ChangeTool

LEMMA DamageEntryMade == ASSUME BuildInv, MadeInv, DamageEntry PROVE MadeInv'
<1>1. ASSUME NEW f \in entries' PROVE Made(f.key, f.value)
  <2>1. PICK e \in entries : f \in entries \/ f = [e EXCEPT !.intact = FALSE]
    BY DEF DamageEntry
  <2>2. e \in [key : Keys, value : Values, intact : BOOLEAN] BY DEF BuildInv, TypeOK
  <2>3. f \in entries \/ (f.key = e.key /\ f.value = e.value) BY <2>1, <2>2
  <2>4. QED BY <2>3 DEF MadeInv, EntriesMade
<1>2. EntriesMade' BY <1>1 DEF EntriesMade, Made, DamageEntry
<1>3. ASSUME NEW p \in Builds PROVE MadeBy(p)'
  BY DEF MadeInv, MadeBy, Made, DamageEntry
<1>4. QED BY <1>2, <1>3 DEF MadeInv, AllMade, Made, DamageEntry

LEMMA MadeInvStep ==
    ASSUME BuildInv, MadeInv, [Next]_vars, [PutsNothingBack]_vars PROVE MadeInv'
<1>1. ASSUME NEW p \in Builds, Start(p) PROVE MadeInv' BY <1>1, StartMade
<1>2. ASSUME NEW p \in Builds, Block(p) \/ FindNoAdapter(p) PROVE MadeInv'
  BY <1>2, YieldMade DEF Block, FindNoAdapter, Good
<1>3. ASSUME NEW p \in Builds, Fingerprint(p) PROVE MadeInv' BY <1>3, FingerprintMade
<1>4. ASSUME NEW p \in Builds, LoadHits(p) \/ CommitFinds(p) PROVE MadeInv'
  BY <1>4, HitMade DEF LoadHits, CommitFinds
<1>5. ASSUME NEW p \in Builds,
             \/ LoadFindsCorrupt(p) \/ SnapshotFails(p) \/ ExecuteRaises(p)
             \/ RecheckFails(p) \/ CommitFindsCorrupt(p)
      PROVE  MadeInv'
  BY <1>5, YieldMade
     DEF LoadFindsCorrupt, SnapshotFails, ExecuteRaises, RecheckFails, CommitFindsCorrupt, Good
<1>6. ASSUME NEW p \in Builds, LoadMisses(p) \/ Snapshot(p) \/ Recheck(p) PROVE MadeInv'
  BY <1>6, ProceedMade DEF LoadMisses, Snapshot, Recheck
<1>7. ASSUME NEW p \in Builds, Execute(p) PROVE MadeInv' BY <1>7, ExecuteMade
<1>8. ASSUME NEW p \in Builds, ExecuteOnModified(p) PROVE MadeInv'
  BY <1>8, ModifiedMade
<1>9. ASSUME NEW p \in Builds, CommitCreates(p) PROVE MadeInv' BY <1>9, CommitMade
<1>10. ASSUME NEW p \in Builds, Save(p) PROVE MadeInv' BY <1>10, SaveMade
<1>11. ASSUME NEW p \in Builds,
              \/ Admit(p) \/ Refuse(p) \/ SaveLast(p) \/ Die(p)
              \/ FingerprintRaises(p) \/ Finish(p) \/ Interrupt(p)
       PROVE  MadeInv'
  BY <1>11, GoingMade, EndingMade
<1>12. CASE ChangeTool
  <2>1. PutsNothingBack BY <1>12 DEF vars, ChangeTool, PutsNothingBack
  <2>2. QED BY <1>12, <2>1, ChangeToolMade
<1>13. CASE DamageEntry BY <1>13, DamageEntryMade
<1>14. CASE UNCHANGED vars
  BY <1>14 DEF vars, MadeInv, EntriesMade, MadeBy, AllMade, Made
<1>15. QED
  BY <1>1, <1>2, <1>3, <1>4, <1>5, <1>6, <1>7, <1>8, <1>9, <1>10, <1>11, <1>12,
     <1>13, <1>14 DEF Next, Step, Finished

LEMMA MadeInvInit == Init => MadeInv
BY DEF Init, MadeInv, EntriesMade, MadeBy, AllMade, NoManifest, Pending, Good

(* However many builds race, fail or are resumed, and however often the    *)
(* tools are replaced under them, the cache holds for a key only what was  *)
(* made of it, and every manifest is a derivation, unless tools are put    *)
(* back between a run of an adapter and its second fingerprint.            *)
ManifestsDerived ==
    \A d \in Dirs : AllMade(disk[d].results) /\ AllFit(disk[d].results)

THEOREM RecordsAreMade == Spec /\ NeverPutBack => [](EntriesMade /\ ManifestsDerived)
<1>1. Init => BuildInv /\ MadeInv BY InitInv, MadeInvInit
<1>2. BuildInv /\ MadeInv /\ [Next]_vars /\ [PutsNothingBack]_vars => BuildInv' /\ MadeInv'
  BY StepInv, MadeInvStep
<1>3. BuildInv /\ MadeInv => EntriesMade /\ ManifestsDerived
  BY DEF BuildInv, MadeInv, ManifestsDerived
<1>4. QED BY <1>1, <1>2, <1>3, PTL DEF Spec, NeverPutBack

(* Until the tools are replaced for the first time, they are those of      *)
(* every key in hand.                                                      *)
FirstTools ==
    \A p \in Builds :
        pc[p] \in {"lookup", "snapshot", "execute", "recheck"} /\ changes = 0 =>
            tool = key[p].tool

LEMMA FirstToolsStep ==
    ASSUME BuildInv, FirstTools, [Next]_vars PROVE FirstTools'
<1>1. ASSUME NEW p \in Builds, Fingerprint(p) PROVE FirstTools'
  <2>1. Others(p) BY <1>1 DEF Fingerprint, Goto, Others, BuildInv, TypeOK
  <2>2. pc'[p] = "lookup" /\ key'[p].tool = tool
    BY <1>1 DEF Fingerprint, KeyOf, Goto, BuildInv, TypeOK
  <2>3. QED BY <1>1, <2>1, <2>2 DEF FirstTools, Fingerprint, Others, world
<1>2. ASSUME NEW p \in Builds, LoadMisses(p) \/ Snapshot(p) \/ Execute(p) PROVE FirstTools'
  <2>1. /\ UNCHANGED <<tool, changes, key>> /\ pc[p] \in {"lookup", "snapshot", "execute"}
        /\ \A q \in Builds \ {p} : pc'[q] = pc[q]
    BY <1>2 DEF LoadMisses, Snapshot, Execute, Proceed, Goto, world, BuildInv, TypeOK
  <2>2. QED BY <2>1 DEF FirstTools
<1>3. ASSUME NEW p \in Builds,
             \/ Start(p) \/ Block(p) \/ FindNoAdapter(p) \/ FingerprintRaises(p)
             \/ LoadHits(p) \/ LoadFindsCorrupt(p) \/ SnapshotFails(p) \/ ExecuteOnModified(p)
             \/ ExecuteRaises(p) \/ Recheck(p) \/ RecheckFails(p) \/ CommitCreates(p)
             \/ CommitFinds(p) \/ CommitFindsCorrupt(p) \/ Save(p) \/ Finish(p) \/ SaveLast(p)
             \/ Interrupt(p)
      PROVE  FirstTools'
  <2>1. \E label \in {"node", "modified", "commit", "save", "finish", "final", "abort", "over"} :
           Goto(p, label)
    BY <1>3 DEF Start, Block, FindNoAdapter, FingerprintRaises, LoadHits, LoadFindsCorrupt,
       SnapshotFails, ExecuteOnModified, ExecuteRaises, Recheck, RecheckFails, CommitCreates,
       CommitFinds, CommitFindsCorrupt, Save, Finish, SaveLast, Leave, Interrupt, Yield, Proceed
  <2>2. UNCHANGED <<tool, changes>> /\ \A q \in Builds \ {p} : key'[q] = key[q]
    BY <1>3 DEF Start, Block, FindNoAdapter, FingerprintRaises, LoadHits, LoadFindsCorrupt,
       SnapshotFails, ExecuteOnModified, ExecuteRaises, Recheck, RecheckFails, CommitCreates,
       CommitFinds, CommitFindsCorrupt, Save, Finish, SaveLast, Leave, Interrupt, Yield, Proceed,
       world, BuildInv, TypeOK
  <2>3. QED BY <2>1, <2>2 DEF Goto, FirstTools, BuildInv, TypeOK
<1>7. ASSUME NEW p \in Builds, Admit(p) \/ Refuse(p) \/ Die(p) PROVE FirstTools'
  <2>1. pc'[p] \in Waiting /\ Others(p) /\ UNCHANGED <<tool, changes>>
    BY <1>7, GoingFacts DEF world
  <2>2. QED BY <2>1 DEF FirstTools, Others, Waiting
<1>4. CASE ChangeTool
  <2>1. changes' # 0 BY <1>4, PlanAssumption DEF ChangeTool, BuildInv, TypeOK
  <2>2. QED BY <2>1 DEF FirstTools
<1>5. CASE DamageEntry \/ UNCHANGED vars
  BY <1>5 DEF DamageEntry, vars, FirstTools
<1>6. QED
  BY <1>1, <1>2, <1>3, <1>4, <1>5, <1>7 DEF Next, Step, Finished

(* The first replacement puts nothing back.                                *)
LEMMA FirstChange ==
    ASSUME BuildInv, FirstTools, [Next]_vars, NoRollback'
    PROVE  NoRollback /\ [PutsNothingBack]_vars
<1>1. ASSUME NEW p \in Builds,
             Admit(p) \/ Start(p) \/ Refuse(p) \/ Step(p) \/ Interrupt(p) \/ Die(p)
      PROVE  UNCHANGED <<tool, changes>>
  BY <1>1 DEF Admit, Start, Refuse, Step, Interrupt, Die, Block, FindNoAdapter, Fingerprint,
     FingerprintRaises, LoadHits, LoadFindsCorrupt, LoadMisses, Snapshot, SnapshotFails,
     Execute, ExecuteOnModified, ExecuteRaises, Recheck, RecheckFails, CommitCreates,
     CommitFinds, CommitFindsCorrupt, Save, Finish, SaveLast, Yield, Proceed, world
<1>2. CASE ChangeTool
  <2>1. changes = 0
    BY <1>2, PlanAssumption DEF ChangeTool, NoRollback, BuildInv, TypeOK
  <2>2. QED BY <2>1 DEF NoRollback, FirstTools, PutsNothingBack
<1>3. CASE ~ChangeTool
  <2>1. UNCHANGED <<tool, changes>>
    BY <1>1, <1>3 DEF Next, Finished, DamageEntry, vars
  <2>2. QED BY <2>1 DEF NoRollback, PutsNothingBack
<1>4. QED BY <1>2, <1>3

LEMMA SoundUntilRollback ==
    Spec => [](BuildInv /\ FirstTools /\ (NoRollback => MadeInv))
<1>1. Init => BuildInv /\ FirstTools /\ (NoRollback => MadeInv)
  <2>1. Init => FirstTools BY DEF Init, FirstTools
  <2>2. QED BY <2>1, InitInv, MadeInvInit
<1>2. BuildInv /\ FirstTools /\ (NoRollback => MadeInv) /\ [Next]_vars =>
        BuildInv' /\ FirstTools' /\ (NoRollback' => MadeInv')
  BY StepInv, FirstToolsStep, FirstChange, MadeInvStep
<1>3. QED BY <1>1, <1>2, PTL DEF Spec

(* In particular while the tools are replaced once at most.                *)
THEOREM CacheIsSound == Spec => []CacheSound
<1>1. (NoRollback => MadeInv) => CacheSound BY DEF MadeInv, EntriesMade, Made, CacheSound
<1>2. QED BY <1>1, SoundUntilRollback, PTL

(* Every manifest that any run leaves on disk, whatever became of the run, *)
(* is a derivation.                                                        *)
THEOREM ManifestsAreDerivations == Spec => []ManifestIsDerivation
<1>1. BuildInv /\ (NoRollback => MadeInv) => ManifestIsDerivation
  BY DEF BuildInv, MadeInv, AllFit, Fits, KeyFits, AllMade, Made, ManifestIsDerivation
<1>2. QED BY <1>1, SoundUntilRollback, PTL

-----------------------------------------------------------------------------
(* The status of a run is what its nodes say.                              *)

(* A node is blocked by a bad dependency alone, and the first bad node has *)
(* failed.                                                                 *)
BlockedTruly(results) ==
    /\ \A n \in Nodes : results[n].state # "pending" =>
         (results[n].state = "blocked" <=> \E d \in Deps[n] : results[d].state \in Bad)
    /\ (\E n \in Nodes : results[n].state \in Bad) =>
         \E n \in Nodes : results[n].state = "failed"

Truthful(m) ==
    /\ BlockedTruly(m.results)
    /\ m.status = "succeeded" => \A n \in Nodes : m.results[n].state \in Good
    /\ m.status = "failed" =>
         /\ \A n \in Nodes : m.results[n].state # "pending"
         /\ \E n \in Nodes : m.results[n].state = "failed"

BlockingOf(p) ==
    /\ pc[p] \in Keyed => ~IsBlocked(p)
    /\ pc[p] = "save" => (result[p].state = "blocked" <=> IsBlocked(p))
    /\ pc[p] = "finish" => \A n \in Nodes : Done(p)[n].state # "pending"

TruthInv ==
    /\ \A p \in Builds : BlockingOf(p)
    /\ \A p \in Builds : Truthful(memory[p])
    /\ \A d \in Dirs : Truthful(disk[d])

LEMMA TruthStep ==
    ASSUME BuildInv, TruthInv, NEW p \in Builds, Others(p), BlockingOf(p)',
           Truthful(memory'[p]), \A d \in Dirs : disk'[d] = disk[d] \/ Truthful(disk'[d])
    PROVE  TruthInv'
<1>1. ASSUME NEW q \in Builds PROVE BlockingOf(q)' /\ Truthful(memory[q])'
  <2>1. CASE q = p BY <2>1
  <2>2. CASE q # p
    <3>1. /\ pc'[q] = pc[q] /\ at'[q] = at[q] /\ result'[q] = result[q]
          /\ memory'[q] = memory[q]
      BY <2>2 DEF Others
    <3>2. Done(q)' = Done(q) /\ Node(q)' = Node(q) BY <3>1 DEF Done, Node
    <3>3. IsBlocked(q)' = IsBlocked(q) BY <3>2 DEF IsBlocked
    <3>4. BlockingOf(q) BY DEF TruthInv
    <3>5. BlockingOf(q)' BY <3>1, <3>2, <3>3, <3>4 DEF BlockingOf
    <3>6. QED BY <3>1, <3>5 DEF TruthInv, Truthful, BlockedTruly
  <2>3. QED BY <2>1, <2>2
<1>2. ASSUME NEW d \in Dirs PROVE Truthful(disk[d])'
  BY DEF TruthInv, Truthful, BlockedTruly
<1>3. QED BY <1>1, <1>2 DEF TruthInv

(* What a step at a node does with a node that is, or is not, blocked.     *)
LEMMA NodeStepTruth ==
    ASSUME BuildInv, TruthInv, NEW p \in Builds, NodeStep(p) PROVE TruthInv'
<1>1. Done(p)' = Done(p) /\ Node(p)' = Node(p) /\ memory'[p] = memory[p] /\ disk' = disk
  BY NodeStepFacts DEF Done, Node
<1>2. IsBlocked(p)' = IsBlocked(p) BY <1>1 DEF IsBlocked
<1>3. Others(p) BY NodeStepOthers
<1>4. BlockingOf(p) BY DEF TruthInv
<1>5. BlockingOf(p)'
  <2>1. CASE Block(p)
    <3>1. pc'[p] = "save" /\ result'[p].state = "blocked" /\ IsBlocked(p)
      BY <2>1 DEF Block, Yield, Goto, BuildInv, TypeOK
    <3>2. QED BY <1>2, <3>1 DEF BlockingOf, Keyed
  <2>2. CASE FindNoAdapter(p)
    <3>1. pc'[p] = "save" /\ result'[p].state = "failed" /\ ~IsBlocked(p)
      BY <2>2 DEF FindNoAdapter, Yield, Goto, BuildInv, TypeOK
    <3>2. QED BY <1>2, <3>1 DEF BlockingOf, Keyed
  <2>3. CASE Fingerprint(p)
    <3>1. pc'[p] = "lookup" /\ ~IsBlocked(p)
      BY <2>3 DEF Fingerprint, Goto, BuildInv, TypeOK
    <3>2. QED BY <1>2, <3>1 DEF BlockingOf
  <2>4. CASE \/ LoadHits(p) \/ LoadFindsCorrupt(p) \/ SnapshotFails(p) \/ ExecuteRaises(p)
             \/ RecheckFails(p) \/ CommitFinds(p) \/ CommitFindsCorrupt(p)
    <3>1. pc'[p] = "save" /\ result'[p].state \in {"failed", "cache_hit"} /\ pc[p] \in Keyed
      BY <2>4 DEF LoadHits, LoadFindsCorrupt, SnapshotFails, ExecuteRaises, RecheckFails,
         CommitFinds, CommitFindsCorrupt, Yield, Goto, Keyed, BuildInv, TypeOK
    <3>2. QED BY <1>2, <1>4, <3>1 DEF BlockingOf, Keyed
  <2>5. CASE LoadMisses(p) \/ Snapshot(p) \/ Execute(p) \/ ExecuteOnModified(p) \/ Recheck(p)
    <3>1. pc'[p] \in Keyed /\ pc[p] \in Keyed
      BY <2>5 DEF LoadMisses, Snapshot, Execute, ExecuteOnModified, Recheck, Proceed, Goto,
         Keyed, BuildInv, TypeOK
    <3>2. QED BY <1>2, <1>4, <3>1 DEF BlockingOf, Keyed
  <2>6. CASE CommitCreates(p)
    <3>1. pc'[p] = "save" /\ result'[p] = result[p] /\ pc[p] = "commit"
      BY <2>6 DEF CommitCreates, Proceed, Goto, BuildInv, TypeOK
    <3>2. result[p].state = "produced" BY <3>1 DEF BuildInv, LocalsOf
    <3>3. QED BY <1>2, <1>4, <3>1, <3>2 DEF BlockingOf, Keyed
  <2>7. QED BY <2>1, <2>2, <2>3, <2>4, <2>5, <2>6 DEF NodeStep
<1>6. QED BY <1>1, <1>3, <1>5, TruthStep DEF TruthInv

LEMMA RecordedTruth ==
    ASSUME BuildInv, TruthInv, NEW p \in Builds, pc[p] = "save"
    PROVE  BlockedTruly(Recorded(p).results)
<1> DEFINE old == Done(p)
           new == Recorded(p).results
           x == Node(p)
<1>1. new = [old EXCEPT ![x] = result[p]] BY RecordedFits
<1>2. old \in [Nodes -> Result] BY DEF BuildInv, TypeOK, Manifest, Done
<1>3. /\ x \in Nodes /\ x \notin Deps[x] /\ \A n \in Nodes : Deps[n] \subseteq Nodes
      /\ \A n \in Nodes : x \in Deps[n] => old[n].state = "pending"
  BY NodeFacts, OrderFacts DEF Working
<1>4. new[x] = result[p] /\ \A n \in Nodes \ {x} : new[n] = old[n] BY <1>1, <1>2, <1>3
<1>5. result[p].state = "blocked" <=> \E d \in Deps[x] : old[d].state \in Bad
  BY DEF TruthInv, BlockingOf, IsBlocked
<1>6. BlockedTruly(old) BY DEF TruthInv, Truthful, Done
<1>7. old[x].state = "pending"
  <2>1. Progress(p) /\ at[p] + 1 \in 1..Len(Order) /\ at[p] \in 0..Len(Order)
    BY NodeFacts DEF BuildInv, LocalsOf, Working
  <2>2. QED BY <2>1 DEF Progress, Node
<1> HIDE DEF old, new, x
<1>8. ASSUME NEW n \in Nodes, new[n].state # "pending"
      PROVE  new[n].state = "blocked" <=> \E d \in Deps[n] : new[d].state \in Bad
  <2>1. CASE n = x
    <3>1. \A d \in Deps[x] : new[d] = old[d] BY <1>3, <1>4
    <3>2. QED BY <1>4, <1>5, <2>1, <3>1
  <2>2. CASE n # x
    <3>1. old[n].state # "pending" /\ x \notin Deps[n] BY <1>3, <1>4, <1>8, <2>2
    <3>2. \A d \in Deps[n] : new[d] = old[d] BY <1>3, <1>4, <3>1
    <3>3. QED BY <1>4, <1>6, <2>2, <3>1, <3>2 DEF BlockedTruly
  <2>3. QED BY <2>1, <2>2
<1>9. ASSUME NEW b \in Nodes, new[b].state \in Bad
      PROVE  \E n \in Nodes : new[n].state = "failed"
  <2>1. CASE new[x].state = "failed" BY <1>3, <2>1
  <2>2. CASE new[x].state # "failed"
    <3>1. \E c \in Nodes : old[c].state \in Bad
      <4>1. CASE b = x BY <1>3, <1>4, <1>5, <1>9, <2>2, <4>1 DEF Bad
      <4>2. CASE b # x BY <1>4, <1>9, <4>2
      <4>3. QED BY <4>1, <4>2
    <3>2. PICK n \in Nodes : old[n].state = "failed" BY <1>6, <3>1 DEF BlockedTruly
    <3>3. n # x BY <1>7, <3>2
    <3>4. QED BY <1>4, <3>2, <3>3
  <2>3. QED BY <2>1, <2>2
<1>10. BlockedTruly(new) BY <1>8, <1>9 DEF BlockedTruly
<1>11. QED BY <1>10 DEF new

LEMMA StartTruth == ASSUME BuildInv, TruthInv, NEW p \in Builds, Start(p) PROVE TruthInv'
<1> DEFINE m == [NoManifest EXCEPT !.status = "running"]
<1>1. m.status = "running" /\ \A n \in Nodes : m.results[n].state = "pending"
  BY DEF NoManifest, Pending
<1>2. Truthful(m) BY <1>1 DEF Truthful, BlockedTruly, Bad
<1>3. /\ memory'[p] = m /\ pc'[p] = "node" /\ Others(p)
      /\ \A d \in Dirs : disk'[d] = disk[d] \/ disk'[d] = m
  BY StartFacts
<1>4. BlockingOf(p)' BY <1>3 DEF BlockingOf, Keyed
<1> HIDE DEF m
<1>5. QED BY <1>2, <1>3, <1>4, TruthStep

LEMMA SaveTruth ==
    ASSUME BuildInv, OwnInv, TruthInv, NEW p \in Builds, Save(p) PROVE TruthInv'
<1> DEFINE m == Recorded(p)
<1>1. pc[p] = "save" /\ pc'[p] = IF at[p] + 1 = Len(Order) THEN "finish" ELSE "node"
  BY DEF Save, Goto, BuildInv, TypeOK
<1>2. memory'[p] = m /\ \A d \in Dirs : disk'[d] = disk[d] \/ disk'[d] = m BY SaveFacts
<1>3. m.status = "running" BY <1>1, RecordedFits, AtWork DEF Working
<1>4. Truthful(m) BY <1>1, <1>3, RecordedTruth DEF Truthful
<1>5. ASSUME pc'[p] = "finish", NEW n \in Nodes PROVE m.results[n].state # "pending"
  <2>1. at[p] + 1 = Len(Order) /\ at[p] \in 0..Len(Order) BY <1>1, <1>5, NodeFacts DEF Working
  <2>2. PICK i \in 1..Len(Order) : Order[i] = n BY OrderFacts
  <2>3. /\ m.results = [Done(p) EXCEPT ![Node(p)] = result[p]] /\ Node(p) \in Nodes
        /\ Done(p) \in [Nodes -> Result]
    BY <1>1, RecordedFits, NodeFacts DEF Working, BuildInv, TypeOK, Manifest, Done
  <2>4. Progress(p) /\ result[p].state # "pending"
    BY <1>1 DEF BuildInv, LocalsOf, Working
  <2>5. CASE n = Node(p) BY <2>3, <2>4, <2>5
  <2>6. CASE n # Node(p)
    <3>1. i # at[p] + 1 BY <2>2, <2>6 DEF Node
    <3>2. ~(i > at[p]) BY <2>1, <2>2, <3>1, OrderFacts
    <3>3. QED BY <2>2, <2>3, <2>4, <2>6, <3>2 DEF Progress
  <2>7. QED BY <2>5, <2>6
<1>6. BlockingOf(p)' BY <1>1, <1>2, <1>5 DEF BlockingOf, Keyed, Done
<1>7. QED BY <1>2, <1>4, <1>6, SaveFacts, TruthStep

LEMMA FinishTruth == ASSUME BuildInv, TruthInv, NEW p \in Builds, Finish(p) PROVE TruthInv'
<1> DEFINE s == IF \E n \in Nodes : Done(p)[n].state \in Bad THEN "failed" ELSE "succeeded"
<1>1. pc[p] = "finish" /\ pc'[p] = "final" /\ disk' = disk
  BY DEF Finish, Goto, BuildInv, TypeOK
<1>2. memory'[p].status = s /\ memory'[p].results = Done(p)
  BY DEF Finish, Done, BuildInv, TypeOK, Manifest
<1>3. \A n \in Nodes : Done(p)[n].state # "pending" BY <1>1 DEF TruthInv, BlockingOf
<1>4. \A n \in Nodes : Done(p)[n] \in Result BY DEF BuildInv, TypeOK, Manifest, Done
<1>5. BlockedTruly(Done(p)) BY DEF TruthInv, Truthful, Done
<1>6. Truthful(memory'[p])
  <2>1. CASE \E n \in Nodes : Done(p)[n].state \in Bad
    BY <1>2, <1>3, <1>5, <2>1 DEF Truthful, BlockedTruly
  <2>2. CASE ~\E n \in Nodes : Done(p)[n].state \in Bad
    <3>1. \A n \in Nodes : Done(p)[n].state \in Good BY <1>3, <1>4, <2>2 DEF Result
    <3>2. QED BY <1>2, <1>5, <2>2, <3>1 DEF Truthful
  <2>3. QED BY <2>1, <2>2
<1>7. BlockingOf(p)' BY <1>1 DEF BlockingOf, Keyed
<1>8. Others(p) BY DEF Finish, Goto, Others, BuildInv, TypeOK
<1>9. QED BY <1>1, <1>6, <1>7, <1>8, TruthStep DEF TruthInv

LEMMA GoingTruth ==
    ASSUME BuildInv, TruthInv, NEW p \in Builds,
           Admit(p) \/ Refuse(p) \/ SaveLast(p) \/ Die(p)
    PROVE  TruthInv'
<1>1. Truthful(memory[p]) /\ Truthful(NoManifest)
  BY DEF TruthInv, Truthful, BlockedTruly, NoManifest, Pending, Bad
<1>2. BlockingOf(p)' BY GoingFacts DEF BlockingOf, Keyed, Waiting
<1>3. QED BY <1>1, <1>2, GoingFacts, TruthStep

LEMMA AbortTruth ==
    ASSUME BuildInv, TruthInv, NEW p \in Builds, FingerprintRaises(p) \/ Interrupt(p)
    PROVE  TruthInv'
<1>1. memory[p] \in Manifest /\ Truthful(memory[p]) BY DEF TruthInv, BuildInv, TypeOK
<1>2. BlockingOf(p)' BY EndingFacts DEF BlockingOf, Keyed, Ending
<1>3. Truthful(memory'[p])
  <2>1. CASE FingerprintRaises(p)
    <3>1. memory'[p] = [memory[p] EXCEPT !.status = "interrupted"]
      BY <2>1 DEF FingerprintRaises, BuildInv, TypeOK
    <3>2. memory'[p].results = memory[p].results /\ memory'[p].status = "interrupted"
      BY <1>1, <3>1 DEF Manifest
    <3>3. QED BY <1>1, <3>1, <3>2 DEF Truthful
  <2>2. CASE Interrupt(p)
    <3>1. PICK m \in {memory[p]} \union (IF pc[p] = "save" THEN {Recorded(p)} ELSE {}) :
             memory' = [memory EXCEPT ![p] = [m EXCEPT !.status = "interrupted"]]
      BY <2>2 DEF Interrupt
    <3>2. m \in Manifest /\ BlockedTruly(m.results)
      <4>1. CASE m = memory[p] BY <1>1, <4>1 DEF Truthful
      <4>2. CASE m # memory[p]
        <5>1. pc[p] = "save" /\ m = Recorded(p) BY <4>2
        <5>2. QED BY <5>1, RecordedFits, RecordedTruth
      <4>3. QED BY <4>1, <4>2
    <3>3. memory'[p].results = m.results /\ memory'[p].status = "interrupted"
      BY <3>1, <3>2 DEF BuildInv, TypeOK, Manifest
    <3>4. QED BY <3>2, <3>3 DEF Truthful
  <2>3. QED BY <2>1, <2>2
<1>4. QED BY <1>2, <1>3, EndingFacts, TruthStep

LEMMA TruthInvStep ==
    BuildInv /\ OwnInv /\ TruthInv /\ [Next]_vars => TruthInv'
<1> SUFFICES ASSUME BuildInv, OwnInv, TruthInv, [Next]_vars PROVE TruthInv'
  OBVIOUS
<1>1. CASE ChangeTool \/ DamageEntry \/ UNCHANGED vars
  <2>1. UNCHANGED <<pc, at, memory, disk, result>> BY <1>1 DEF ChangeTool, DamageEntry, vars
  <2>2. \A p \in Builds : BlockingOf(p)'
    BY <2>1 DEF TruthInv, BlockingOf, IsBlocked, Done, Node
  <2>3. QED BY <2>1, <2>2 DEF TruthInv, Truthful, BlockedTruly
<1>2. QED
  BY <1>1, NodeStepTruth, StartTruth, SaveTruth, FinishTruth, GoingTruth, AbortTruth
     DEF Next, Step, NodeStep, Finished

(* A manifest never says `succeeded' unless every node of the plan is      *)
(* good, nor `failed' unless some node has, and blocks a node exactly      *)
(* when one of its dependencies is bad.                                    *)
THEOREM StatusesAreTrue == Spec => []StatusTrue
<1>1. Init => BuildInv /\ OwnInv /\ TruthInv
  <2>1. Init => OwnInv BY DEF Init, OwnInv, OwnOf, Waiting
  <2>2. Init => TruthInv
    BY DEF Init, TruthInv, BlockingOf, Keyed, Truthful, BlockedTruly, NoManifest, Pending, Bad
  <2>3. QED BY <2>1, <2>2, InitInv
<1>2. BuildInv /\ OwnInv /\ TruthInv /\ [Next]_vars => BuildInv' /\ OwnInv' /\ TruthInv'
  BY StepInv, OwnInvStep, TruthInvStep
<1>3. TruthInv => StatusTrue BY DEF TruthInv, Truthful, BlockedTruly, StatusTrue
<1>4. QED BY <1>1, <1>2, <1>3, PTL DEF Spec

-----------------------------------------------------------------------------
(* What is recorded is in the cache.                                       *)

Held(r) == r.state \in Good => OutputsHold(r)

AllHeld(results) == \A n \in Nodes : Held(results[n])

HeldInv ==
    /\ \A e \in entries : e.intact
    /\ \A p \in Builds : pc[p] = "save" => Held(result[p])
    /\ \A p \in Builds : AllHeld(memory[p].results)
    /\ \A d \in Dirs : AllHeld(disk[d].results)

LEMMA HeldStep ==
    ASSUME BuildInv, HeldInv, NEW p \in Builds, Others(p), entries \subseteq entries',
           \A e \in entries' : e.intact, pc'[p] = "save" => Held(result[p])',
           AllHeld(memory[p].results)',
           \A d \in Dirs : disk'[d] = disk[d] \/ AllHeld(disk[d].results)'
    PROVE  HeldInv'
<1>1. ASSUME NEW q \in Builds
      PROVE  (pc[q] = "save" => Held(result[q]))' /\ AllHeld(memory[q].results)'
  <2>1. CASE q = p BY <2>1
  <2>2. CASE q # p
    <3>1. pc'[q] = pc[q] /\ result'[q] = result[q] /\ memory'[q] = memory[q]
      BY <2>2 DEF Others
    <3>2. QED BY <3>1 DEF HeldInv, AllHeld, Held, OutputsHold
  <2>3. QED BY <2>1, <2>2
<1>2. ASSUME NEW d \in Dirs PROVE AllHeld(disk[d].results)'
  BY DEF HeldInv, AllHeld, Held, OutputsHold
<1>3. QED BY <1>1, <1>2 DEF HeldInv

LEMMA YieldHeld ==
    ASSUME BuildInv, HeldInv, NEW p \in Builds, NEW s, NEW k, NEW v, Yield(p, s, k, v),
           UNCHANGED world,
           s \in Good => [key |-> k, value |-> v, intact |-> TRUE] \in entries
    PROVE  HeldInv'
<1>1. Others(p) BY DEF Yield, Goto, Others, BuildInv, TypeOK
<1>2. result'[p] = [state |-> s, key |-> k, value |-> v] BY DEF Yield, BuildInv, TypeOK
<1>3. Held(result[p])' BY <1>2 DEF Held, OutputsHold, world
<1>4. QED BY <1>1, <1>3, HeldStep DEF Yield, HeldInv, AllHeld, Held, OutputsHold, world

LEMMA HitHeld ==
    ASSUME BuildInv, HeldInv, NEW p \in Builds, UNCHANGED world,
           NEW e \in EntryAt(key[p]), e.intact, Yield(p, "cache_hit", key[p], e.value)
    PROVE  HeldInv'
<1>1. e \in entries /\ e.key = key[p] BY DEF EntryAt
<1>2. e \in [key : Keys, value : Values, intact : BOOLEAN] BY <1>1 DEF BuildInv, TypeOK
<1>3. e = [key |-> key[p], value |-> e.value, intact |-> TRUE] BY <1>1, <1>2
<1>4. QED BY <1>1, <1>3, YieldHeld

LEMMA CommitHeld ==
    ASSUME BuildInv, HeldInv, NEW p \in Builds, CommitCreates(p) PROVE HeldInv'
<1> DEFINE new == [key |-> key[p], value |-> result[p].value, intact |-> TRUE]
<1>1. entries' = entries \union {new} /\ new.intact BY DEF CommitCreates
<1>2. result'[p] = result[p] /\ result[p].key = key[p]
  BY DEF CommitCreates, Proceed, BuildInv, LocalsOf
<1>3. Held(result[p])' BY <1>1, <1>2 DEF Held, OutputsHold
<1> HIDE DEF new
<1>4. Others(p) BY DEF CommitCreates, Proceed, Goto, Others, BuildInv, TypeOK
<1>5. AllHeld(memory[p].results)' /\ disk' = disk
  BY <1>1 DEF HeldInv, AllHeld, Held, OutputsHold, CommitCreates, Proceed
<1>6. \A e \in entries' : e.intact BY <1>1 DEF HeldInv
<1>7. QED BY <1>1, <1>3, <1>4, <1>5, <1>6, HeldStep

(* A step of p that leaves the cache alone and is not at a result.         *)
LEMMA QuietHeld ==
    ASSUME BuildInv, HeldInv, NEW p \in Builds, Others(p), UNCHANGED entries,
           pc'[p] # "save", AllHeld(memory'[p].results),
           \A d \in Dirs : disk'[d] = disk[d] \/ AllHeld(disk'[d].results)
    PROVE  HeldInv'
<1>1. /\ AllHeld(memory[p].results)'
      /\ \A d \in Dirs : disk'[d] = disk[d] \/ AllHeld(disk[d].results)'
  BY DEF AllHeld, Held, OutputsHold
<1>2. QED BY <1>1, HeldStep DEF HeldInv

LEMMA NodeStepHeld ==
    ASSUME BuildInv, HeldInv, NEW p \in Builds, NodeStep(p) PROVE HeldInv'
<1>1. CASE Block(p) \/ FindNoAdapter(p) BY <1>1, YieldHeld DEF Block, FindNoAdapter, Good
<1>2. CASE LoadHits(p) \/ CommitFinds(p) BY <1>2, HitHeld DEF LoadHits, CommitFinds
<1>3. CASE \/ LoadFindsCorrupt(p) \/ SnapshotFails(p) \/ ExecuteRaises(p)
           \/ RecheckFails(p) \/ CommitFindsCorrupt(p)
  BY <1>3, YieldHeld
     DEF LoadFindsCorrupt, SnapshotFails, ExecuteRaises, RecheckFails, CommitFindsCorrupt, Good
<1>4. CASE CommitCreates(p) BY <1>4, CommitHeld
<1>5. CASE \/ Fingerprint(p) \/ LoadMisses(p) \/ Snapshot(p) \/ Execute(p)
           \/ ExecuteOnModified(p) \/ Recheck(p)
  <2>1. Others(p)
    BY <1>5 DEF Fingerprint, LoadMisses, Snapshot, Execute, ExecuteOnModified, Recheck,
       Proceed, Goto, Others, BuildInv, TypeOK
  <2>2. pc'[p] # "save" /\ UNCHANGED <<entries, memory, disk>>
    BY <1>5 DEF Fingerprint, LoadMisses, Snapshot, Execute, ExecuteOnModified, Recheck,
       Proceed, Goto, world, BuildInv, TypeOK
  <2>3. QED BY <2>1, <2>2, QuietHeld DEF HeldInv
<1>6. QED BY <1>1, <1>2, <1>3, <1>4, <1>5 DEF NodeStep

LEMMA RecordedHeld ==
    ASSUME BuildInv, HeldInv, NEW p \in Builds, pc[p] = "save"
    PROVE  AllHeld(Recorded(p).results)
<1>1. Recorded(p).results = [Done(p) EXCEPT ![Node(p)] = result[p]] BY RecordedFits
<1>2. Done(p) \in [Nodes -> Result] BY DEF BuildInv, TypeOK, Manifest, Done
<1>3. AllHeld(Done(p)) /\ Held(result[p]) BY DEF HeldInv, Done
<1>4. QED BY <1>1, <1>2, <1>3 DEF AllHeld

LEMMA ManifestHeld ==
    ASSUME BuildInv, HeldInv, NEW p \in Builds,
           \/ Start(p) \/ Save(p) \/ Admit(p) \/ Refuse(p) \/ SaveLast(p) \/ Die(p)
    PROVE  HeldInv'
<1> DEFINE m == [NoManifest EXCEPT !.status = "running"]
<1>1. AllHeld(m.results) /\ AllHeld(NoManifest.results) /\ AllHeld(memory[p].results)
  BY DEF HeldInv, AllHeld, Held, NoManifest, Pending, Good
<1>2. CASE Start(p)
  <2>1. /\ memory'[p] = m /\ pc'[p] = "node" /\ Others(p)
        /\ \A d \in Dirs : disk'[d] = disk[d] \/ disk'[d] = m
    BY <1>2, StartFacts
  <2> HIDE DEF m
  <2>2. QED BY <1>1, <1>2, <2>1, QuietHeld DEF Start, world
<1>3. CASE Save(p)
  BY <1>3, SaveFacts, RecordedHeld, QuietHeld DEF Save, world
<1>4. CASE Admit(p) \/ Refuse(p) \/ SaveLast(p) \/ Die(p)
  BY <1>1, <1>4, GoingFacts, QuietHeld DEF Waiting, world
<1>5. QED BY <1>2, <1>3, <1>4

LEMMA EndingHeld ==
    ASSUME BuildInv, HeldInv, NEW p \in Builds,
           FingerprintRaises(p) \/ Finish(p) \/ Interrupt(p)
    PROVE  HeldInv'
<1>1. memory[p] \in Manifest /\ AllHeld(memory[p].results) BY DEF HeldInv, BuildInv, TypeOK
<1>2. AllHeld(memory'[p].results)
  <2>1. CASE FingerprintRaises(p) \/ Finish(p)
    <3>1. memory'[p].results = memory[p].results
      BY <1>1, <2>1 DEF FingerprintRaises, Finish, Manifest, BuildInv, TypeOK
    <3>2. QED BY <1>1, <3>1
  <2>2. CASE Interrupt(p)
    <3>1. PICK m \in {memory[p]} \union (IF pc[p] = "save" THEN {Recorded(p)} ELSE {}) :
             memory' = [memory EXCEPT ![p] = [m EXCEPT !.status = "interrupted"]]
      BY <2>2 DEF Interrupt
    <3>2. m \in Manifest /\ AllHeld(m.results)
      <4>1. CASE m = memory[p] BY <1>1, <4>1
      <4>2. CASE m # memory[p]
        <5>1. pc[p] = "save" /\ m = Recorded(p) BY <4>2
        <5>2. QED BY <5>1, RecordedFits, RecordedHeld
      <4>3. QED BY <4>1, <4>2
    <3>3. memory'[p].results = m.results BY <3>1, <3>2 DEF BuildInv, TypeOK, Manifest
    <3>4. QED BY <3>2, <3>3
  <2>3. QED BY <2>1, <2>2
<1>3. QED BY <1>2, EndingFacts, QuietHeld DEF Ending, world

HeldUndamaged == damage = 0 => HeldInv

LEMMA HeldInvStep == BuildInv /\ HeldUndamaged /\ [Next]_vars => HeldUndamaged'
<1> SUFFICES ASSUME BuildInv, damage = 0 => HeldInv, [Next]_vars, damage' = 0
             PROVE  HeldInv'
  BY DEF HeldUndamaged
<1>1. CASE DamageEntry
  <2>1. damage' # 0 BY <1>1, PlanAssumption DEF DamageEntry, BuildInv, TypeOK
  <2>2. QED BY <2>1
<1>2. ASSUME NEW p \in Builds,
             Admit(p) \/ Start(p) \/ Refuse(p) \/ Step(p) \/ Interrupt(p) \/ Die(p)
      PROVE  HeldInv'
  <2>1. damage' = damage
    BY <1>2 DEF Admit, Start, Refuse, Step, Interrupt, Die, Block, FindNoAdapter, Fingerprint,
       FingerprintRaises, LoadHits, LoadFindsCorrupt, LoadMisses, Snapshot, SnapshotFails,
       Execute, ExecuteOnModified, ExecuteRaises, Recheck, RecheckFails, CommitCreates,
       CommitFinds, CommitFindsCorrupt, Save, Finish, SaveLast, world
  <2>2. HeldInv BY <2>1
  <2>3. QED BY <1>2, <2>2, NodeStepHeld, ManifestHeld, EndingHeld DEF Step, NodeStep
<1>3. CASE ChangeTool \/ UNCHANGED vars
  <2>1. UNCHANGED <<entries, damage, disk, pc, memory, result>> BY <1>3 DEF ChangeTool, vars
  <2>2. QED BY <2>1 DEF HeldInv, AllHeld, Held, OutputsHold
<1>4. QED BY <1>1, <1>2, <1>3 DEF Next, Finished

(* Unless the owner removes or damages entries, what any manifest records  *)
(* is in the cache, intact: a lost race is recorded as the winner's entry. *)
THEOREM RecordedAreCached == Spec => []RecordedIsCached
<1>1. Init => BuildInv /\ HeldUndamaged
  <2>1. Init => HeldInv
    BY DEF Init, HeldInv, AllHeld, Held, NoManifest, Pending, Good
  <2>2. QED BY <2>1, InitInv DEF HeldUndamaged
<1>2. BuildInv /\ HeldUndamaged /\ [Next]_vars => BuildInv' /\ HeldUndamaged'
  BY StepInv, HeldInvStep
<1>3. HeldUndamaged => RecordedIsCached
  BY DEF HeldUndamaged, HeldInv, AllHeld, Held, RecordedIsCached
<1>4. QED BY <1>1, <1>2, <1>3, PTL DEF Spec
=============================================================================
