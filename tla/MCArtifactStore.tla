-------------------------- MODULE MCArtifactStore --------------------------
(* ArtifactStore for TLC. *)
EXTENDS ArtifactStore, TLC

CONSTANTS onnx, report, c1, c2

MCSymmetry == Permutations({c1, c2}) \cup Permutations({onnx, report})

=============================================================================
