------------------------- MODULE MCExecutionEngine -------------------------
(* Small instances of ExecutionEngine for TLC. *)
EXTENDS ExecutionEngine, TLC

CONSTANT e1

CallerSymmetry == Permutations(Caller)

CallerKeySymmetry == Permutations(Caller) \cup Permutations(Key)

(* One entity; requests that expect revision 0, or revision 0 and 1. *)
FirstRevision == {[entity |-> e1, expectedRevision |-> 0]}

TwoRevisions == {[entity |-> e1, expectedRevision |-> n] : n \in {0, 1}}

Lenient == [maxRepairCalls |-> 0, budgeted |-> FALSE, readable |-> TRUE]

(* No repair and no budget, the response kept. *)
PlainPolicy == {Lenient}

(* Callers that disagree on budget, repair and retention. *)
MixedPolicies ==
  {[Lenient EXCEPT !.maxRepairCalls = 1],
   [Lenient EXCEPT !.budgeted = TRUE, !.readable = FALSE]}

=============================================================================
