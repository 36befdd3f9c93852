-------------------------- MODULE MCBaselineLedger --------------------------
(* Small instances of BaselineLedger for TLC.                              *)
EXTENDS BaselineLedger, TLC

CONSTANTS p1, p2, m1, m2, m3, w1, w2, w3, r1, r2, c1, c2, alpha, beta

(* The processes and the channels are interchangeable, and the manifests   *)
(* together with their paths.                                              *)
Swap(a, b) == a :> b @@ b :> a
Symmetry ==
    {f @@ g @@ h : f \in {p1 :> p1, Swap(p1, p2)},
                   g \in {m1 :> m1, Swap(m1, m2) @@ Swap(w1, w2)},
                   h \in {c1 :> c1, Swap(c1, c2)}}

(* m1 and m2 are runs of one project, m3 of another.                       *)
OneProject == [m \in Manifests |-> alpha]
TwoProjects == [m \in Manifests |-> IF m = m3 THEN beta ELSE alpha]

FirstAt == [w \in Paths |-> IF w = w1 THEN m1 ELSE IF w = w2 THEN m2 ELSE m3]
=============================================================================
