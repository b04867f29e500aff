------------------------ MODULE MCPostgresRepository ------------------------
(* Finite instances of PostgresRepository for TLC. *)
EXTENDS PostgresRepository, TLC

CONSTANTS k1, k2, e1

(* Two executions that expect the same revision of one entity. *)
Rivals == (k1 :> [entity |-> e1, expectedRevision |-> 0])
            @@ (k2 :> [entity |-> e1, expectedRevision |-> 0])

Symmetry == Permutations(Client) \cup Permutations(Key)
=============================================================================
