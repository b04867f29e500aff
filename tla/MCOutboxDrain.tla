--------------------------- MODULE MCOutboxDrain ---------------------------
(* Small instances of OutboxDrain for TLC. *)
EXTENDS OutboxDrain, TLC

KeyOrder == [e \in Key |-> e]

DrainSymmetry == Permutations(Drain)
=============================================================================
