-------------------------- MODULE MCArtifactCache --------------------------
(* A small instance of ArtifactCache for TLC.                              *)
EXTENDS ArtifactCache

CONSTANTS b1, b2, b3, k1, k2, v1, v2
=============================================================================
