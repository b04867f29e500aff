-------------------------- MODULE MCEvidenceWorker --------------------------
(* Finite instances of EvidenceWorker for TLC. *)
EXTENDS EvidenceWorker, TLC

CONSTANTS a, b

(* Every pair of kinds whose projections meet. *)
MCKinds ==
  {(a :> "relation") @@ (b :> other) :
     other \in {"relation", "observation", "assessment", "import"}}

Symmetry == Permutations(Run)
=============================================================================
