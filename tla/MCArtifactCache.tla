-------------------------- MODULE MCArtifactCache --------------------------
(* ArtifactCache for TLC. *)
EXTENDS ArtifactCache, TLC

CONSTANTS p1, p2

MCSymmetry == Permutations({p1, p2})

=============================================================================
