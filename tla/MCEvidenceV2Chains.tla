------------------------ MODULE MCEvidenceV2Chains ------------------------
(* Small instances of EvidenceV2Chains for TLC. *)
EXTENDS EvidenceV2Chains, TLC

Interview(subject, time) == [front |-> FALSE, subject |-> subject, time |-> time]

Continued == [front |-> FALSE, subject |-> None, time |-> Unknown]

FrontMatter == [front |-> TRUE, subject |-> None, time |-> Unknown]

(* A document of two parts; a part before any document, documents of one   *)
(* chain out of order, and one that front matter ends.                     *)
SmallArtifacts ==
  {<<Interview("A", 1), Continued>>,
   <<Continued, Interview("A", Unknown), Interview("A", 2),
     Interview("A", 1), FrontMatter, Continued>>}

D(id, action, chain, supersedes) ==
  [id |-> id, action |-> action, part |-> 1, chain |-> chain,
   supersedes |-> supersedes]

CONSTANTS r1, r2, r3

(* Decisions about the first part: they agree, they conflict, and they     *)
(* supersede one another, in any order; the third request may be the first *)
(* one again, sent by a client that got no answer.                         *)
SmallBodies ==
  r1 :> {D("d1", "assign", "B", None), D("d1", "set-primary", "B", None)}
  @@
  r2 :> {D("d2", "assign", "A", None), D("d2", "set-primary", "A", "d1"),
         D("d2", "unassign", "B", None)}
  @@
  r3 :> {D("d1", "assign", "B", None), D("d3", "assign", "B", "d1"),
         D("d3", "set-primary", "B", "d2"), D("d3", "unassign", "A", None)}
=============================================================================
