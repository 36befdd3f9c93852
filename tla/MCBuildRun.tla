---------------------------- MODULE MCBuildRun -----------------------------
(* Small instances of BuildRun for TLC.                                    *)
EXTENDS BuildRun, TLC

CONSTANTS b1, b2, d1, d2, root, left, right, top, t1, t2, v1, v2

(* Builds, directories, tools and values are interchangeable.              *)
Symmetry == Permutations(Builds) \union Permutations(Dirs)
            \union Permutations(Tools) \union Permutations(Values)

(* A source and what is made of it.                                        *)
Chain == (root :> {}) @@ (left :> {root})
ChainOrder == <<root, left>>

(* Two branches; the first has no adapter and a node that depends on it.   *)
Branches == (root :> {}) @@ (left :> {root}) @@ (top :> {left}) @@ (right :> {root})
BranchesOrder == <<root, left, top, right>>

(* Bound: of a fault, a change of the tools and damage at most two.        *)
AtMostTwo == faults + changes + damage <= 2
=============================================================================
