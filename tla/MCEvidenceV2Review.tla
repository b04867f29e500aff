------------------------ MODULE MCEvidenceV2Review ------------------------
(* Small instances of EvidenceV2Review for TLC. *)
EXTENDS EvidenceV2Review, TLC

CONSTANTS r1, r2, r3, r4

(* Two instances: a reviewer writes the only occurrence of the first and   *)
(* one of the second, extraction finds another.                            *)
SmallInstanceOf == 1 :> 1 @@ 2 :> 2 @@ 3 :> 2

Review(principal, o, action) ==
  [kind |-> "review", instance |-> SmallInstanceOf[o], occurrence |-> o,
   action |-> action, principal |-> principal]

Author(principal, o) ==
  [kind |-> "author", occurrence |-> o, principal |-> principal]

Page2 == [kind |-> "page", instance |-> 2]

Compare2 == [kind |-> "compare", instance |-> 2]

Claim == [kind |-> "claim", label |-> "claim"]

Group(principal, o, action) ==
  [kind |-> "group", occurrence |-> o, action |-> action, principal |-> principal]

Relate == [kind |-> "relate", from |-> 3, to |-> 1, principal |-> "ann"]

ReviewRelation(action) ==
  [kind |-> "review-relation", action |-> action, principal |-> "bob"]

SmallOperation ==
  r1 :> {Author("ann", 1), Claim}
  @@ r2 :> {Author("ann", 3), Group("bob", 1, "include")}
  @@ r3 :> {Compare2, Page2, Review("bob", 3, "reject"), Relate}
  @@ r4 :> {Compare2, Review("bob", 3, "reject"), ReviewRelation("reject")}
=============================================================================
