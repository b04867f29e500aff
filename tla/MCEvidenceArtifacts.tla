------------------------ MODULE MCEvidenceArtifacts ------------------------
(* Four requests, which are alike. *)
EXTENDS EvidenceArtifacts, TLC

CONSTANTS r1, r2, r3, r4

Symmetry == Permutations({r1, r2, r3, r4})

=============================================================================
