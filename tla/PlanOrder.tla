----------------------------- MODULE PlanOrder -----------------------------
(***************************************************************************)
(* From a recipe to the order in which its nodes are built: load_config    *)
(* and build_plan (config.py), then _node_map and topological_sort         *)
(* (graph.py), which the engine also runs on plans a library caller made.  *)
(*                                                                         *)
(* A node id is a number.  Ids are compared as strings in the code, so the *)
(* numbers of a plan's nodes follow the order of "convert-...",            *)
(* "quantize-NAME", "smoke-NAME" and "source"; a target's name is a number *)
(* that stands for its place among the names.                              *)
(***************************************************************************)
EXTENDS Naturals, Sequences, FiniteSets

CONSTANTS
    TargetNames,    \* names a recipe may give its targets: numbers below 10
    MaxTargets,     \* bound: targets of a recipe
    GraphIds,       \* node ids of a library caller's plan
    MaxNodes        \* bound: nodes of such a plan

ASSUME PlanAssumption ==
    /\ TargetNames \subseteq 0 .. 9
    /\ GraphIds \subseteq Nat /\ IsFiniteSet(GraphIds)
    /\ {MaxTargets, MaxNodes} \subseteq Nat

VARIABLE sort   \* one call of topological_sort

Quantizations == {"F16", "Q4_0", "Q8_0"}
Targets == [name : TargetNames, quantization : Quantizations]
SeqsUpTo(S, n) == UNION {[1 .. k -> S] : k \in 0 .. n}
Elements(s) == {s[i] : i \in DOMAIN s}

-----------------------------------------------------------------------------
(* load_config: a recipe is refused as a whole.  The fields that decide    *)
(* what is built are kept; "wellFormed" says that the keys, the types, the *)
(* paths and the source tree are as the schema wants them.                 *)

Recipes == [wellFormed : BOOLEAN, targets : SeqsUpTo(Targets, MaxTargets),
            adapter : {"fixture", "llamacpp"}, format : {"fixture", "safetensors"},
            tools : BOOLEAN]

UniqueNames(targets) ==
    \A i, j \in DOMAIN targets : targets[i].name = targets[j].name => i = j

LoadConfig(recipe) ==
    /\ recipe.wellFormed
    /\ recipe.targets # << >> /\ UniqueNames(recipe.targets)
    /\ recipe.adapter = "fixture" => ~recipe.tools /\ recipe.format = "fixture"
    /\ recipe.adapter = "llamacpp" => recipe.tools /\ recipe.format = "safetensors"

Source == 30
Convert == 5
Quantize(target) == 10 + target.name
Smoke(target) == 20 + target.name

(* build_plan: one conversion, of the first F16 target or an intermediate, *)
(* serves every target; each other target is quantized from it; each       *)
(* target is smoke-tested.                                                 *)
ArtifactNode(target) == IF target.quantization = "F16" THEN Convert ELSE Quantize(target)

ToQuantize(targets) == {i \in DOMAIN targets : targets[i].quantization # "F16"}

(* The k-th target that is quantized, of those in the order of the recipe. *)
Quantized(targets, k) ==
    targets[CHOOSE i \in ToQuantize(targets) : Cardinality(ToQuantize(targets) \intersect 1 .. i) = k]

BuildPlan(targets) ==
    LET spec(id, deps) == [id |-> id, deps |-> deps]
    IN <<spec(Source, << >>), spec(Convert, <<Source>>)>>
       \o [k \in 1 .. Cardinality(ToQuantize(targets)) |->
              spec(Quantize(Quantized(targets, k)), <<Convert>>)]
       \o [i \in DOMAIN targets |-> spec(Smoke(targets[i]), <<ArtifactNode(targets[i])>>)]

-----------------------------------------------------------------------------
(* topological_sort                                                        *)

NotSorting == [pc |-> "idle", planned |-> FALSE, listing |-> << >>, degree |-> << >>,
               ready |-> {}, ordered |-> << >>, error |-> "none"]

SortInit == sort = NotSorting

StartSort(listing, planned) ==
    sort' = [NotSorting EXCEPT !.pc = "index", !.listing = listing, !.planned = planned]

(* _node_map refuses at the first spec that repeats an id or one of its    *)
(* own dependencies, and only then looks for unknown dependencies.         *)
Repeats(listing, i) == \E j \in 1 .. i - 1 : listing[j].id = listing[i].id
Doubles(spec) == \E j, k \in DOMAIN spec.deps : j # k /\ spec.deps[j] = spec.deps[k]
Known(listing) == {listing[i].id : i \in DOMAIN listing}

IndexError(listing) ==
    LET wrong == {i \in DOMAIN listing : Repeats(listing, i) \/ Doubles(listing[i])}
        first == CHOOSE i \in wrong : \A j \in wrong : i <= j
    IN IF wrong # {}
       THEN IF Repeats(listing, first) THEN "DuplicateNodeError" ELSE "GraphError"
       ELSE IF \E i \in DOMAIN listing : Elements(listing[i].deps) \ Known(listing) # {}
            THEN "UnknownDependencyError" ELSE "none"

SpecOf(id) == CHOOSE spec \in Elements(sort.listing) : spec.id = id
Deps(id) == Elements(SpecOf(id).deps)

IndexNodes ==
    /\ sort.pc = "index"
    /\ sort' = LET error == IndexError(sort.listing)
                   degree == [id \in Known(sort.listing) |-> Len(SpecOf(id).deps)]
               IN IF error # "none" THEN [sort EXCEPT !.pc = "ended", !.error = error]
                  ELSE [sort EXCEPT !.pc = "pop", !.degree = degree,
                                    !.ready = {id \in DOMAIN degree : degree[id] = 0}]

LeastReady == CHOOSE id \in sort.ready : \A other \in sort.ready : id <= other

(* Mutant of PopReady: a list from which the last is taken, not a heap.    *)
PopGreatest ==
    /\ sort.pc = "pop" /\ sort.ready # {}
    /\ LET id == CHOOSE i \in sort.ready : \A other \in sort.ready : i >= other
           degree == [n \in DOMAIN sort.degree |->
                         IF id \in Deps(n) THEN sort.degree[n] - 1 ELSE sort.degree[n]]
       IN sort' = [sort EXCEPT !.ordered = Append(@, id), !.degree = degree,
                               !.ready = (@ \ {id}) \union
                                   {n \in DOMAIN degree : id \in Deps(n) /\ degree[n] = 0}]

PopReady ==
    /\ sort.pc = "pop" /\ sort.ready # {}
    /\ LET id == LeastReady
           degree == [n \in DOMAIN sort.degree |->
                         IF id \in Deps(n) THEN sort.degree[n] - 1 ELSE sort.degree[n]]
       IN sort' = [sort EXCEPT !.ordered = Append(@, id), !.degree = degree,
                               !.ready = (@ \ {id}) \union
                                   {n \in DOMAIN degree : id \in Deps(n) /\ degree[n] = 0}]

EndSort ==
    /\ sort.pc = "pop" /\ sort.ready = {}
    /\ sort' = [sort EXCEPT !.pc = "ended",
                            !.error = IF Len(sort.ordered) # Cardinality(DOMAIN sort.degree)
                                      THEN "CycleError" ELSE "none"]

SortStep == IndexNodes \/ PopReady \/ EndSort

(* A library caller hands over any list of specs.                          *)
NodeSpecs == [id : GraphIds, deps : SeqsUpTo(GraphIds, 2)]

SortTypeOK ==
    /\ sort.pc \in {"idle", "index", "pop", "ended"}
    /\ \A id \in DOMAIN sort.degree : sort.degree[id] \in Nat
    /\ sort.ready \subseteq DOMAIN sort.degree
    /\ Elements(sort.ordered) \subseteq DOMAIN sort.degree
    /\ sort.error \in {"none", "DuplicateNodeError", "GraphError",
                       "UnknownDependencyError", "CycleError"}

-----------------------------------------------------------------------------
Circular == \E S \in SUBSET Known(sort.listing) :
               S # {} /\ \A id \in S : Deps(id) \intersect S # {}

(* "Validate a DAG and return a deterministic dependency-first ordering"   *)
(* (graph.py:50): at each place of the result stands the least id whose    *)
(* dependencies all stand before it, whatever the order of the listing;    *)
(* nothing is lost or repeated; only a malformed or circular plan is       *)
(* refused, and a plan build_plan made of an accepted recipe never is.     *)
OrderIsTopological ==
    sort.pc = "ended" =>
        /\ sort.error = IF IndexError(sort.listing) # "none" THEN IndexError(sort.listing)
                        ELSE IF Circular THEN "CycleError" ELSE "none"
        /\ sort.planned => sort.error = "none"
        /\ sort.error = "none" =>
              /\ Len(sort.ordered) = Cardinality(Known(sort.listing))
              /\ \A i \in DOMAIN sort.ordered :
                    LET before == {sort.ordered[j] : j \in 1 .. i - 1}
                        free == {id \in Known(sort.listing) \ before : Deps(id) \subseteq before}
                    IN sort.ordered[i] \in free /\ \A id \in free : sort.ordered[i] <= id
=============================================================================
