----------------------- MODULE EvidenceV2ChainsProofs -----------------------
(***************************************************************************)
(* Proofs about EvidenceV2Chains for every set of subjects, artifacts,     *)
(* requests and decisions, any number of requests under way together, and  *)
(* any number of them rolled back at any point.                            *)
(*                                                                         *)
(* The opening of a part and the fold of the decisions are recursive       *)
(* functions.  Each is shown to unfold part by part, decision by decision, *)
(* and what it preserves is proved by induction over sets of numbers.      *)
(***************************************************************************)
EXTENDS EvidenceV2Chains, FiniteSetTheorems, WellFoundedInduction, TLAPS

-----------------------------------------------------------------------------
(* Induction and recursion, for sets and functions, as in                  *)
(* EvidenceV2ExtractionProofs.                                             *)

(* A set of numbers that is not empty has a least one.                      *)
LEMMA LeastNat ==
  ASSUME NEW T \in SUBSET Nat, T # {}
  PROVE  \E n \in T : \A m \in T : n <= m
<1> DEFINE below == {ss \in Nat \X Nat : ss[1] < ss[2]}
<1>1. IsWellFoundedOn(below, Nat)
  BY NatLessThanWellFounded, Zenon DEF OpToRel
<1>2. PICK n \in T : \A m \in T : <<m, n>> \notin below
  BY <1>1, WFMin
<1>3. ASSUME NEW m \in T PROVE n <= m
  <2>1. <<m, n>> \in Nat \X Nat /\ <<m, n>>[1] = m /\ <<m, n>>[2] = n
    OBVIOUS
  <2>2. ~(m < n)
    BY <1>2, <2>1
  <2> QED
    BY <2>2
<1> QED
  BY <1>3

(* Induction, for the set of the numbers of which something holds.          *)
LEMMA SetInduction ==
  ASSUME NEW T \in SUBSET Nat, 0 \in T, \A n \in T : n + 1 \in T
  PROVE  T = Nat
<1> SUFFICES ASSUME T # Nat PROVE FALSE
  OBVIOUS
<1>1. Nat \ T # {}
  OBVIOUS
<1>2. PICK n \in Nat \ T : \A m \in Nat \ T : n <= m
  BY <1>1, LeastNat
<1>3. n # 0 /\ n - 1 \in Nat /\ n - 1 \in T
  BY <1>2
<1>4. n - 1 + 1 = n
  BY <1>3
<1> QED
  BY <1>2, <1>3, <1>4

(* A function on 0 .. n that is defined by recursion, one number at a time, *)
(* exists.                                                                  *)
Unfolds(g, S, base, F, n) ==
  /\ g \in [0 .. n -> S]
  /\ g[0] = base
  /\ \A i \in 1 .. n : g[i] = F[i][g[i - 1]]

LEMMA RecursionExists ==
  ASSUME NEW S, NEW base \in S, NEW n \in Nat, NEW F \in [1 .. n -> [S -> S]]
  PROVE  \E g : Unfolds(g, S, base, F, n)
<1> DEFINE T == {k \in Nat : k <= n => \E g : Unfolds(g, S, base, F, k)}
<1>1. 0 \in T
  <2> DEFINE g == [i \in 0 .. 0 |-> base]
  <2>1. Unfolds(g, S, base, F, 0)
    BY DEF Unfolds
  <2> HIDE DEF g
  <2> QED
    BY <2>1
<1>2. ASSUME NEW k \in T PROVE k + 1 \in T
  <2> SUFFICES ASSUME k + 1 <= n PROVE \E g : Unfolds(g, S, base, F, k + 1)
    OBVIOUS
  <2>1. PICK h : Unfolds(h, S, base, F, k)
    OBVIOUS
  <2> DEFINE g == [i \in 0 .. k + 1 |-> IF i <= k THEN h[i] ELSE F[i][h[k]]]
  <2>2. F[k + 1][h[k]] \in S
    <3>1. k + 1 \in 1 .. n /\ h[k] \in S
      BY <2>1 DEF Unfolds
    <3> QED
      BY <3>1
  <2>3. g \in [0 .. k + 1 -> S]
    BY <2>1, <2>2 DEF Unfolds
  <2>4. ASSUME NEW i \in 1 .. k + 1 PROVE g[i] = F[i][g[i - 1]]
    <3>1. CASE i <= k
      <4>1. i \in 1 .. k /\ i - 1 \in 0 .. k /\ i - 1 <= k
        BY <3>1
      <4> QED
        BY <2>1, <4>1 DEF Unfolds
    <3>2. CASE i = k + 1
      <4>1. i - 1 = k /\ ~(i <= k) /\ k <= k /\ k \in 0 .. k + 1
        BY <3>2
      <4>2. g[i] = F[i][h[k]] /\ g[k] = h[k]
        BY <4>1
      <4> QED
        BY <4>1, <4>2
    <3> QED
      BY <3>1, <3>2
  <2>5. g[0] = base
    BY <2>1 DEF Unfolds
  <2> HIDE DEF g
  <2>6. Unfolds(g, S, base, F, k + 1)
    BY <2>3, <2>4, <2>5 DEF Unfolds
  <2> QED
    BY <2>6
<1> HIDE DEF T
<1>3. n \in T
  BY <1>1, <1>2, SetInduction DEF T
<1> QED
  BY <1>3 DEF T

-----------------------------------------------------------------------------
(* proposeEvidenceV2Chains()                                                *)

(* The opening of each part, part by part.                                  *)
Opens(open) ==
  /\ open \in [0 .. Len(parts) -> 0 .. Len(parts)]
  /\ open[0] = 0
  /\ \A i \in 1 .. Len(parts) :
       open[i] = IF parts[i].front THEN 0
                 ELSE IF parts[i].subject # None THEN i ELSE open[i - 1]

LEMMA OpeningByPart ==
  ASSUME parts \in Seq(Identity)
  PROVE  Opens(Opening)
<1> DEFINE n == Len(parts)
           S == 0 .. n
           By(i, x) == IF parts[i].front THEN 0
                       ELSE IF parts[i].subject # None THEN i ELSE x
           F == [i \in 1 .. n |-> [x \in S |-> By(i, x)]]
           Recursive(f) == f = [i \in 0 .. n |->
             CASE i = 0 -> 0
               [] i > 0 /\ parts[i].front -> 0
               [] i > 0 /\ ~parts[i].front /\ parts[i].subject # None -> i
               [] OTHER -> f[i - 1]]
           open == CHOOSE f : Recursive(f)
<1>1. Opening = open
  BY Zenon DEF Opening
<1>2. n \in Nat /\ 0 \in S
  OBVIOUS
<1>3. F \in [1 .. n -> [S -> S]]
  BY <1>2
<1>4. \A x \in S, i \in 1 .. n : F[i][x] = By(i, x)
  OBVIOUS
<1> HIDE DEF F
<1>5. PICK g : Unfolds(g, S, 0, F, n)
  BY <1>2, <1>3, RecursionExists
<1>6. Opens(g)
  <2>1. ASSUME NEW i \in 1 .. n PROVE g[i] = By(i, g[i - 1])
    <3>1. i - 1 \in 0 .. n
      BY <1>2
    <3>2. g[i - 1] \in S /\ g[i] = F[i][g[i - 1]]
      BY <1>5, <3>1 DEF Unfolds
    <3> QED
      BY <1>4, <3>2
  <2> QED
    BY <1>5, <2>1 DEF Unfolds, Opens
<1>7. Recursive(g)
  <2>1. ASSUME NEW i \in 0 .. n
        PROVE  g[i] = CASE i = 0 -> 0
                        [] i > 0 /\ parts[i].front -> 0
                        [] i > 0 /\ ~parts[i].front /\ parts[i].subject # None -> i
                        [] OTHER -> g[i - 1]
    <3>1. i = 0 \/ (i \in 1 .. n /\ i > 0)
      BY <1>2
    <3> QED
      BY <1>6, <3>1 DEF Opens
  <2>2. g = [i \in 0 .. n |-> g[i]]
    BY <1>6 DEF Opens
  <2> QED
    BY <2>1, <2>2
<1>8. Recursive(open)
  BY <1>7
<1> HIDE DEF open
<1>9. ASSUME NEW i \in 0 .. n
      PROVE  open[i] = CASE i = 0 -> 0
                         [] i > 0 /\ parts[i].front -> 0
                         [] i > 0 /\ ~parts[i].front /\ parts[i].subject # None -> i
                         [] OTHER -> open[i - 1]
  BY <1>8
<1>10. open = [i \in 0 .. n |-> open[i]]
  BY <1>8
<1> HIDE DEF Recursive
<1>11. open[0] = 0
  BY <1>2, <1>9
<1>12. ASSUME NEW i \in 1 .. n PROVE open[i] = By(i, open[i - 1])
  <2>1. i \in 0 .. n /\ i # 0 /\ i > 0
    BY <1>2
  <2> QED
    BY <1>9, <2>1
<1>13. open \in [0 .. n -> 0 .. n]
  <2> DEFINE T == {i \in Nat : i <= n => open[i] \in 0 .. n}
  <2>1. 0 \in T
    BY <1>2, <1>11
  <2>2. ASSUME NEW i \in T PROVE i + 1 \in T
    <3> SUFFICES ASSUME i + 1 <= n PROVE open[i + 1] \in 0 .. n
      OBVIOUS
    <3>1. i + 1 \in 1 .. n /\ i + 1 - 1 = i /\ open[i] \in 0 .. n
      BY <1>2
    <3>2. open[i + 1] = By(i + 1, open[i])
      BY <1>12, <3>1
    <3> QED
      BY <1>2, <3>1, <3>2
  <2> HIDE DEF T
  <2>3. T = Nat
    BY <2>1, <2>2, SetInduction DEF T
  <2>4. \A i \in 0 .. n : open[i] \in 0 .. n
    BY <2>3, <1>2 DEF T
  <2> QED
    BY <2>4, <1>10
<1> QED
  BY <1>1, <1>11, <1>12, <1>13 DEF Opens

(* A part belongs to the document that opens it, and so does every part     *)
(* between.                                                                 *)
LEMMA OpeningIs ==
  ASSUME parts \in Seq(Identity), NEW i \in DOMAIN parts, Opening[i] # 0
  PROVE  /\ Opening[i] \in Documents /\ Opening[i] <= i
         /\ \A j \in Opening[i] .. i : Opening[j] = Opening[i]
<1> DEFINE n == Len(parts)
           Placed(k) ==
             Opening[k] # 0 =>
               /\ Opening[k] \in Documents /\ Opening[k] <= k
               /\ \A j \in Opening[k] .. k : Opening[j] = Opening[k]
           T == {k \in Nat : k <= n => Placed(k)}
<1>1. n \in Nat /\ DOMAIN parts = 1 .. n
  OBVIOUS
<1>2. Opens(Opening)
  BY OpeningByPart
<1> HIDE DEF Placed
<1>3. 0 \in T
  BY <1>1, <1>2 DEF Opens, Placed
<1>4. ASSUME NEW k \in T PROVE k + 1 \in T
  <2> SUFFICES ASSUME k + 1 <= n PROVE Placed(k + 1)
    OBVIOUS
  <2>1. k + 1 \in 1 .. n /\ k + 1 - 1 = k /\ Placed(k) /\ Opening[k] \in 0 .. n
    BY <1>1, <1>2 DEF Opens
  <2>2. Opening[k + 1] = IF parts[k + 1].front THEN 0
                         ELSE IF parts[k + 1].subject # None THEN k + 1
                         ELSE Opening[k]
    BY <1>2, <2>1 DEF Opens
  <2>3. CASE parts[k + 1].front
    BY <2>2, <2>3 DEF Placed
  <2>4. CASE ~parts[k + 1].front /\ parts[k + 1].subject # None
    <3>1. Opening[k + 1] = k + 1 /\ k + 1 \in Documents
      BY <1>1, <2>1, <2>2, <2>4 DEF Documents
    <3>2. \A j \in k + 1 .. k + 1 : j = k + 1
      OBVIOUS
    <3> QED
      BY <3>1, <3>2 DEF Placed
  <2>5. CASE ~parts[k + 1].front /\ parts[k + 1].subject = None
    <3>1. Opening[k + 1] = Opening[k]
      BY <2>2, <2>5
    <3>2. CASE Opening[k] = 0
      BY <3>1, <3>2 DEF Placed
    <3>3. CASE Opening[k] # 0
      <4>1. /\ Opening[k] \in Documents /\ Opening[k] <= k
            /\ \A j \in Opening[k] .. k : Opening[j] = Opening[k]
        BY <2>1, <3>3 DEF Placed
      <4>2. ASSUME NEW j \in Opening[k + 1] .. k + 1
            PROVE  Opening[j] = Opening[k + 1]
        <5>1. j = k + 1 \/ j \in Opening[k] .. k
          BY <2>1, <3>1
        <5> QED
          BY <3>1, <4>1, <5>1
      <4>3. Opening[k + 1] \in Documents /\ Opening[k + 1] <= k + 1
        BY <2>1, <3>1, <4>1
      <4> QED
        BY <4>2, <4>3 DEF Placed
    <3> QED
      BY <3>2, <3>3
  <2>6. parts[k + 1].front \in BOOLEAN
    <3>1. parts[k + 1] \in Identity
      BY <1>1, <2>1
    <3> QED
      BY <3>1 DEF Identity
  <2> QED
    BY <2>3, <2>4, <2>5, <2>6
<1> HIDE DEF T
<1>5. T = Nat
  BY <1>3, <1>4, SetInduction DEF T
<1>6. i \in T /\ i <= n
  BY <1>1, <1>5
<1> QED
  BY <1>6 DEF T, Placed

(* One proposal for each part that a document opens.                        *)
LEMMA ProposalIs ==
  ASSUME parts \in Seq(Identity), parts \in Artifact
  PROVE  /\ Proposal \in SUBSET Membership
         /\ \A m \in Proposal : m.origin = "proposed" /\ m.decision = None
         /\ \A m, p \in Proposal : m.part = p.part => m = p
<1>1. ASSUME NEW i \in DOMAIN parts, Opening[i] # 0
      PROVE  [chain |-> parts[Opening[i]].subject, part |-> i, primary |-> TRUE,
              origin |-> "proposed", decision |-> None] \in Membership
  <2>1. Opening[i] \in Documents
    BY <1>1, OpeningIs
  <2>2. parts[Opening[i]].subject \in Subject
    <3>1. /\ Opening[i] \in DOMAIN parts /\ parts[Opening[i]].subject # None
          /\ parts[Opening[i]] \in Identity
      BY <2>1 DEF Documents
    <3> QED
      BY <3>1 DEF Identity
  <2>3. i \in Part
    BY DEF Part
  <2> QED
    BY <2>2, <2>3 DEF Membership
<1>2. Proposal \in SUBSET Membership
  BY <1>1 DEF Proposal
<1>3. ASSUME NEW m \in Proposal
      PROVE  /\ m.origin = "proposed" /\ m.decision = None
             /\ m = [chain |-> parts[Opening[m.part]].subject, part |-> m.part,
                     primary |-> TRUE, origin |-> "proposed", decision |-> None]
  BY DEF Proposal
<1>4. ASSUME NEW m \in Proposal, NEW p \in Proposal, m.part = p.part PROVE m = p
  BY <1>3, <1>4, Zenon
<1> QED
  BY <1>2, <1>3, <1>4

(* Time, the unknown last, and then position order the documents.           *)
LEMMA BeforeOrders ==
  ASSUME parts \in Seq(Identity), NEW c \in Documents, NEW d \in Documents,
         NEW e \in Documents
  PROVE  /\ ~Before(c, c)
         /\ c # d => Before(c, d) \/ Before(d, c)
         /\ Before(c, d) /\ Before(d, e) => Before(c, e)
         /\ Before(c, d) => ~Before(d, c)
<1>1. c \in Nat /\ d \in Nat /\ e \in Nat
  BY DEF Documents
<1>2. ASSUME NEW i \in Documents PROVE parts[i].time \in Nat \cup {Unknown}
  <2>1. parts[i] \in Identity
    BY DEF Documents
  <2> QED
    BY <2>1 DEF Identity
<1> DEFINE tc == parts[c].time
           td == parts[d].time
           te == parts[e].time
<1>3. /\ tc \in Nat \cup {Unknown} /\ td \in Nat \cup {Unknown}
      /\ te \in Nat \cup {Unknown} /\ Unknown \notin Nat
  BY <1>2, ChainsAssumption
<1>4. ~Before(c, c)
  BY <1>1, <1>3 DEF Before
<1>5. c # d => Before(c, d) \/ Before(d, c)
  BY <1>1, <1>3 DEF Before
<1>6. Before(c, d) /\ Before(d, e) => Before(c, e)
  BY <1>1, <1>3 DEF Before
<1>7. Before(c, d) => ~Before(d, c)
  BY <1>1, <1>3 DEF Before
<1> QED
  BY <1>4, <1>5, <1>6, <1>7

(* The earlier of two documents of a chain has the smaller ordinal.         *)
LEMMA OrdinalsFollow ==
  ASSUME parts \in Seq(Identity), NEW d \in Documents, NEW e \in Documents,
         parts[d].subject = parts[e].subject, Before(d, e)
  PROVE  Ordinal(d) < Ordinal(e)
<1> DEFINE UpTo(x) == {c \in Documents : parts[c].subject = parts[x].subject
                                         /\ ~Before(x, c)}
<1>1. IsFiniteSet(Documents)
  <2>1. IsFiniteSet(1 .. Len(parts))
    BY FS_Interval
  <2>2. Documents \subseteq 1 .. Len(parts)
    BY DEF Documents
  <2> QED
    BY <2>1, <2>2, FS_Subset
<1>2. IsFiniteSet(UpTo(e))
  BY <1>1, FS_Subset
<1>3. UpTo(d) \subseteq UpTo(e)
  <2> SUFFICES ASSUME NEW c \in UpTo(d), Before(e, c) PROVE FALSE
    OBVIOUS
  <2>1. Before(d, c)
    BY BeforeOrders
  <2> QED
    BY <2>1
<1>4. e \in UpTo(e) /\ e \notin UpTo(d)
  BY BeforeOrders
<1>5. UpTo(d) # UpTo(e)
  BY <1>4
<1> HIDE DEF UpTo
<1>6. Cardinality(UpTo(d)) < Cardinality(UpTo(e))
  <2>1. IsFiniteSet(UpTo(d))
    BY <1>2, <1>3, FS_Subset
  <2>2. Cardinality(UpTo(d)) \in Nat /\ Cardinality(UpTo(e)) \in Nat
    BY <1>2, <2>1, FS_CardinalityType
  <2>3. Cardinality(UpTo(d)) <= Cardinality(UpTo(e))
    BY <1>2, <1>3, FS_Subset
  <2>4. Cardinality(UpTo(e)) # Cardinality(UpTo(d))
    BY <1>2, <1>3, <1>5, FS_Subset
  <2> QED
    BY <2>2, <2>3, <2>4
<1> QED
  BY <1>6 DEF Ordinal, UpTo

LEMMA ProposalIsWhole == parts \in Artifact => ProposalPlacesOnce
<1> SUFFICES ASSUME parts \in Artifact PROVE ProposalPlacesOnce
  OBVIOUS
<1>1. parts \in Seq(Identity)
  BY ChainsAssumption
<1>2. ASSUME NEW i \in DOMAIN parts
      PROVE  /\ Cardinality({m \in Proposal : m.part = i}) <= 1
             /\ parts[i].front => Opening[i] = 0
  <2> DEFINE there == {m \in Proposal : m.part = i}
  <2>1. \A m, p \in there : m = p
    BY <1>1, ProposalIs
  <2> HIDE DEF there
  <2>2. CASE there = {}
    <3>1. Cardinality(there) = 0
      BY <2>2, FS_EmptySet
    <3> QED
      BY <3>1, <1>1, OpeningByPart DEF Opens, there
  <2>3. CASE there # {}
    <3>1. PICK m : m \in there
      BY <2>3
    <3>2. there = {m}
      BY <2>1, <3>1
    <3>3. Cardinality(there) = 1
      BY <3>2, FS_Singleton
    <3> QED
      BY <3>3, <1>1, OpeningByPart DEF Opens, there
  <2> QED
    BY <2>2, <2>3
<1>3. ASSUME NEW d \in Documents, NEW i \in PartsOf(d)
      PROVE  d .. i \subseteq PartsOf(d)
  <2>1. i \in DOMAIN parts /\ Opening[i] = d /\ d \in 1 .. Len(parts) /\ d # 0
    BY DEF PartsOf, Documents
  <2>2. d .. i \subseteq 1 .. Len(parts)
    BY <2>1
  <2>3. \A j \in d .. i : Opening[j] = d
    BY <1>1, <2>1, OpeningIs
  <2> QED
    BY <2>2, <2>3 DEF PartsOf
<1>4. ASSUME NEW d \in Documents, NEW e \in Documents,
             parts[d].subject = parts[e].subject, d # e
      PROVE  /\ Ordinal(d) # Ordinal(e)
             /\ Ordinal(d) < Ordinal(e) =>
                  \/ parts[e].time = Unknown
                  \/ parts[d].time # Unknown /\ parts[d].time <= parts[e].time
  <2>1. Ordinal(d) \in Nat /\ Ordinal(e) \in Nat
    <3>1. ASSUME NEW x \in Documents PROVE Ordinal(x) \in Nat
      <4>1. IsFiniteSet(1 .. Len(parts))
        BY <1>1, FS_Interval
      <4>2. {c \in Documents : parts[c].subject = parts[x].subject /\ ~Before(x, c)}
              \subseteq 1 .. Len(parts)
        BY DEF Documents
      <4> QED
        BY <4>1, <4>2, FS_Subset, FS_CardinalityType DEF Ordinal
    <3> QED
      BY <3>1
  <2>2. CASE Before(d, e)
    <3>1. Ordinal(d) < Ordinal(e)
      BY <1>1, <1>4, <2>2, OrdinalsFollow
    <3>2. parts[d] \in Identity /\ parts[e] \in Identity
      BY <1>1 DEF Documents
    <3>3. parts[d].time \in Nat \cup {Unknown} /\ parts[e].time \in Nat \cup {Unknown}
      BY <3>2 DEF Identity
    <3>4. \/ parts[e].time = Unknown
          \/ parts[d].time # Unknown /\ parts[d].time <= parts[e].time
      BY <2>2, <3>3 DEF Before
    <3> QED
      BY <2>1, <3>1, <3>4
  <2>3. CASE Before(e, d)
    <3>1. Ordinal(e) < Ordinal(d)
      BY <1>1, <1>4, <2>3, OrdinalsFollow
    <3> QED
      BY <2>1, <3>1
  <2> QED
    BY <1>1, <1>4, <2>2, <2>3, BeforeOrders
<1> QED
  BY <1>2, <1>3, <1>4 DEF ProposalPlacesOnce

-----------------------------------------------------------------------------
(* deriveEvidenceV2ChainState()                                             *)

(* No part has two primary memberships, nor is it shown under a proposed    *)
(* one when a decision put it in a chain.                                   *)
WellFormed(memberships) ==
  \A m, n \in memberships :
    m.part = n.part /\ m.primary /\ m # n =>
      /\ ~n.primary
      /\ m.origin = "decided" \/ n.origin = "proposed"

Good == {memberships \in SUBSET Membership : WellFormed(memberships)}

Entry == [decision : Decision, by : Request]

LEMMA PlaceKeepsGood ==
  ASSUME NEW memberships \in Good, NEW d \in Decision
  PROVE  Place(memberships, d) \in Good
<1> DEFINE own == Own(memberships, d)
           others == Others(memberships, d)
           conflicting == Conflicting(memberships, d)
           discarded == Discarded(memberships, d)
           placed == Place(memberships, d)
<1> SUFFICES placed \in Good
  OBVIOUS
<1>1. /\ d.action \in {"assign", "unassign", "set-primary"}
      /\ d.part \in Part /\ d.chain \in Subject
      /\ d.id \in {x.id : x \in Decision}
  BY ChainsAssumption
<1>2. memberships \subseteq Membership /\ WellFormed(memberships)
  BY DEF Good
<1>3. \A primary \in BOOLEAN :
        /\ Decided(d, primary) \in Membership
        /\ Decided(d, primary).part = d.part /\ Decided(d, primary).chain = d.chain
        /\ Decided(d, primary).primary = primary
        /\ Decided(d, primary).origin = "decided"
  BY <1>1 DEF Decided, Membership
<1>4. ASSUME NEW S \in SUBSET Membership, NEW m \in Demoted(S)
      PROVE  /\ m \in Membership /\ ~m.primary
             /\ \E n \in S : m.part = n.part /\ m.chain = n.chain /\ m.origin = n.origin
  <2>1. PICK n \in S : m = [n EXCEPT !.primary = FALSE]
    BY <1>4 DEF Demoted
  <2>2. n \in Membership
    OBVIOUS
  <2> QED
    BY <2>1, <2>2 DEF Membership
<1>5. /\ others \subseteq memberships /\ conflicting \subseteq others
      /\ \A m \in memberships : m.part = d.part => m \in own \cup others
      /\ \A m \in others : m.part = d.part
      /\ \A m \in own : m.part = d.part
  BY DEF Own, Others, Conflicting
<1>6. CASE d.action = "unassign"
  <2>1. placed = memberships \ own
    BY <1>6 DEF Place
  <2> HIDE DEF placed
  <2> QED
    BY <1>2, <2>1 DEF Good, WellFormed
<1>7. CASE d.action # "unassign" /\ conflicting # {}
  <2>1. placed = (memberships \ (own \cup conflicting))
                 \cup Demoted(conflicting) \cup {Decided(d, FALSE)}
    BY <1>7 DEF Place
  <2>2. PICK c \in conflicting : c.primary /\ c.origin = "decided" /\ c.part = d.part
    BY <1>7 DEF Conflicting, Others
  <2> HIDE DEF own, others, conflicting, discarded, placed
  <2>3. placed \in SUBSET Membership
    BY <1>2, <1>3, <1>4, <1>5, <2>1
  <2>4. ASSUME NEW m \in placed, m.part = d.part PROVE ~m.primary
    <3>1. CASE m \in memberships \ (own \cup conflicting)
      <4>1. m # c /\ m \in memberships /\ c \in memberships
        BY <1>5, <3>1
      <4> QED
        BY <1>2, <2>2, <2>4, <4>1 DEF WellFormed
    <3>2. CASE m \in Demoted(conflicting)
      BY <1>2, <1>4, <1>5, <3>2
    <3>3. CASE m = Decided(d, FALSE)
      BY <1>3, <3>3
    <3> QED
      BY <2>1, <3>1, <3>2, <3>3
  <2>5. ASSUME NEW m \in placed, m.part # d.part PROVE m \in memberships
    <3>1. ASSUME m \in Demoted(conflicting) PROVE m.part = d.part
      <4>1. conflicting \in SUBSET Membership
        BY <1>2, <1>5
      <4> QED
        BY <1>4, <1>5, <3>1, <4>1
    <3> QED
      BY <1>3, <2>1, <2>5, <3>1
  <2>6. WellFormed(placed)
    BY <1>2, <2>4, <2>5 DEF WellFormed
  <2> QED
    BY <2>3, <2>6 DEF Good
<1>8. CASE d.action # "unassign" /\ conflicting = {}
  <2>1. placed = (memberships \ (own \cup others))
                 \cup Demoted(others \ discarded) \cup {Decided(d, TRUE)}
    BY <1>8 DEF Place
  <2> HIDE DEF own, others, conflicting, discarded, placed
  <2>2. others \ discarded \in SUBSET Membership
    BY <1>2, <1>5
  <2>3. placed \in SUBSET Membership
    BY <1>2, <1>3, <1>4, <2>1, <2>2
  <2>4. ASSUME NEW m \in placed, m.part = d.part, m # Decided(d, TRUE)
        PROVE  ~m.primary
    <3>1. m \in Demoted(others \ discarded)
      BY <1>5, <2>1, <2>4
    <3> QED
      BY <1>4, <2>2, <3>1
  <2>5. ASSUME NEW m \in placed, m.part # d.part PROVE m \in memberships
    <3>1. ASSUME m \in Demoted(others \ discarded) PROVE m.part = d.part
      BY <1>4, <1>5, <2>2, <3>1
    <3> QED
      BY <1>3, <2>1, <2>5, <3>1
  <2>6. Decided(d, TRUE).origin = "decided" /\ Decided(d, TRUE).part = d.part
    BY <1>3
  <2>7. ASSUME NEW m \in placed, NEW n \in placed, m.part = n.part, m.primary, m # n
        PROVE  ~n.primary /\ (m.origin = "decided" \/ n.origin = "proposed")
    <3>1. CASE m.part = d.part
      <4>1. m = Decided(d, TRUE)
        BY <2>4, <2>7, <3>1
      <4> QED
        BY <2>4, <2>6, <2>7, <3>1, <4>1
    <3>2. CASE m.part # d.part
      <4>1. m \in memberships /\ n \in memberships
        BY <2>5, <2>7, <3>2
      <4> QED
        BY <1>2, <2>7, <4>1 DEF WellFormed
    <3> QED
      BY <3>1, <3>2
  <2>8. WellFormed(placed)
    BY <2>7 DEF WellFormed
  <2> QED
    BY <2>3, <2>8 DEF Good
<1> QED
  BY <1>6, <1>7, <1>8

(* The fold, decision by decision.                                          *)
FoldsUp(fold, proposal, decisions, seen) ==
  /\ fold \in [0 .. Len(decisions) -> Good]
  /\ fold[0] = proposal
  /\ \A i \in 1 .. Len(decisions) :
       fold[i] = IF i \in seen THEN Place(fold[i - 1], decisions[i].decision)
                 ELSE fold[i - 1]

LEMMA FoldByDecision ==
  ASSUME NEW proposal \in Good, NEW decisions \in Seq(Entry), NEW seen
  PROVE  \E fold : /\ FoldsUp(fold, proposal, decisions, seen)
                   /\ FoldOver(proposal, decisions, seen) = fold[Len(decisions)]
<1> DEFINE n == Len(decisions)
           By(i, x) == IF i \in seen THEN Place(x, decisions[i].decision) ELSE x
           F == [i \in 1 .. n |-> [x \in Good |-> By(i, x)]]
           Recursive(f) == f = [i \in 0 .. n |->
             IF i = 0 THEN proposal
             ELSE IF i \in seen THEN Place(f[i - 1], decisions[i].decision)
             ELSE f[i - 1]]
           fold == CHOOSE f : Recursive(f)
<1>1. FoldOver(proposal, decisions, seen) = fold[n]
  BY Zenon DEF FoldOver
<1>2. n \in Nat /\ n = Len(decisions)
  OBVIOUS
<1>3. ASSUME NEW i \in 1 .. n, NEW x \in Good PROVE By(i, x) \in Good
  <2>1. decisions[i] \in Entry
    OBVIOUS
  <2>2. decisions[i].decision \in Decision
    BY <2>1 DEF Entry
  <2> QED
    BY <2>2, PlaceKeepsGood
<1> HIDE DEF n, By
<1>4. F \in [1 .. n -> [Good -> Good]]
  BY <1>3
<1>5. \A x \in Good, i \in 1 .. n : F[i][x] = By(i, x)
  OBVIOUS
<1> HIDE DEF F
<1>6. PICK g : Unfolds(g, Good, proposal, F, n)
  BY <1>2, <1>4, RecursionExists
<1>7. ASSUME NEW i \in 1 .. n PROVE g[i] = By(i, g[i - 1])
  <2>1. i - 1 \in 0 .. n
    BY <1>2
  <2>2. g[i - 1] \in Good /\ g[i] = F[i][g[i - 1]]
    BY <1>6, <2>1 DEF Unfolds
  <2> QED
    BY <1>5, <2>2
<1>8. g \in [0 .. n -> Good] /\ g[0] = proposal
  BY <1>6 DEF Unfolds
<1>9. Recursive(g)
  <2>1. ASSUME NEW i \in 0 .. n
        PROVE  g[i] = IF i = 0 THEN proposal
                      ELSE IF i \in seen THEN Place(g[i - 1], decisions[i].decision)
                      ELSE g[i - 1]
    <3>1. CASE i = 0
      BY <1>8, <3>1
    <3>2. CASE i # 0
      <4>1. i \in 1 .. n /\ i > 0
        BY <1>2, <3>2
      <4>2. g[i] = By(i, g[i - 1])
        BY <1>7, <4>1
      <4> QED
        BY <3>2, <4>1, <4>2 DEF By
    <3> QED
      BY <3>1, <3>2
  <2>2. g = [i \in 0 .. n |-> g[i]]
    BY <1>8
  <2> QED
    BY <2>1, <2>2
<1>10. Recursive(fold)
  BY <1>9
<1> HIDE DEF fold
<1>11. ASSUME NEW i \in 0 .. n
       PROVE  fold[i] =
                IF i = 0 THEN proposal
                ELSE IF i \in seen THEN Place(fold[i - 1], decisions[i].decision)
                ELSE fold[i - 1]
  BY <1>10
<1>12. fold = [i \in 0 .. n |-> fold[i]]
  BY <1>10
<1> HIDE DEF Recursive
<1>13. fold[0] = proposal
  BY <1>2, <1>11
<1>14. ASSUME NEW i \in 1 .. n PROVE fold[i] = By(i, fold[i - 1])
  <2>1. i \in 0 .. n /\ i # 0 /\ i > 0
    BY <1>2
  <2> QED
    BY <1>11, <2>1 DEF By
<1>15. fold \in [0 .. n -> Good]
  <2> DEFINE T == {i \in Nat : i <= n => fold[i] \in Good}
  <2>1. 0 \in T
    BY <1>13
  <2>2. ASSUME NEW i \in T PROVE i + 1 \in T
    <3> SUFFICES ASSUME i + 1 <= n PROVE fold[i + 1] \in Good
      OBVIOUS
    <3>1. i + 1 \in 1 .. n /\ i + 1 - 1 = i /\ fold[i] \in Good
      BY <1>2
    <3>2. fold[i + 1] = By(i + 1, fold[i])
      BY <1>14, <3>1
    <3> QED
      BY <1>3, <3>1, <3>2
  <2> HIDE DEF T
  <2>3. T = Nat
    BY <2>1, <2>2, SetInduction DEF T
  <2>4. \A i \in 0 .. n : fold[i] \in Good
    BY <2>3, <1>2 DEF T
  <2> QED
    BY <2>4, <1>12
<1>16. FoldsUp(fold, proposal, decisions, seen)
  BY <1>2, <1>13, <1>14, <1>15 DEF FoldsUp, By
<1> QED
  BY <1>1, <1>2, <1>16

LEMMA FoldIsGood ==
  ASSUME NEW proposal \in Good, NEW decisions \in Seq(Entry), NEW seen
  PROVE  FoldOver(proposal, decisions, seen) \in Good
<1>1. PICK fold : /\ FoldsUp(fold, proposal, decisions, seen)
                  /\ FoldOver(proposal, decisions, seen) = fold[Len(decisions)]
  BY FoldByDecision
<1>2. Len(decisions) \in 0 .. Len(decisions)
  OBVIOUS
<1> QED
  BY <1>1, <1>2 DEF FoldsUp

(* A decision that is not seen is not placed.                               *)
LEMMA FoldPassesOver ==
  ASSUME NEW proposal \in Good, NEW decisions \in Seq(Entry), NEW e \in Entry,
         NEW seen, seen \subseteq DOMAIN decisions
  PROVE  FoldOver(proposal, Append(decisions, e), seen)
           = FoldOver(proposal, decisions, seen)
<1> DEFINE n == Len(decisions)
           longer == Append(decisions, e)
<1>1. /\ n \in Nat /\ longer \in Seq(Entry) /\ Len(longer) = n + 1
      /\ DOMAIN decisions = 1 .. n
      /\ \A i \in 1 .. n : longer[i] = decisions[i]
  OBVIOUS
<1>2. PICK f : /\ FoldsUp(f, proposal, decisions, seen)
               /\ FoldOver(proposal, decisions, seen) = f[n]
  BY FoldByDecision
<1> HIDE DEF longer
<1>3. PICK g : /\ FoldsUp(g, proposal, longer, seen)
               /\ FoldOver(proposal, longer, seen) = g[n + 1]
  BY <1>1, FoldByDecision
<1> DEFINE T == {i \in Nat : i <= n => f[i] = g[i]}
<1> HIDE DEF n
<1>4. 0 \in T
  BY <1>2, <1>3 DEF FoldsUp
<1>5. ASSUME NEW i \in T PROVE i + 1 \in T
  <2> SUFFICES ASSUME i + 1 <= n PROVE f[i + 1] = g[i + 1]
    OBVIOUS
  <2>1. i + 1 \in 1 .. n /\ i + 1 \in 1 .. n + 1 /\ i + 1 - 1 = i /\ f[i] = g[i]
    BY <1>1
  <2>2. f[i + 1] = IF i + 1 \in seen THEN Place(f[i], decisions[i + 1].decision)
                   ELSE f[i]
    BY <1>2, <2>1 DEF FoldsUp, n
  <2>3. g[i + 1] = IF i + 1 \in seen THEN Place(g[i], longer[i + 1].decision)
                   ELSE g[i]
    BY <1>1, <1>3, <2>1 DEF FoldsUp
  <2> QED
    BY <1>1, <2>1, <2>2, <2>3
<1> HIDE DEF T
<1>6. T = Nat
  BY <1>4, <1>5, SetInduction DEF T
<1>7. f[n] = g[n]
  BY <1>1, <1>6 DEF T
<1>8. g[n + 1] = g[n]
  <2>1. n + 1 \in 1 .. n + 1 /\ n + 1 \notin seen /\ n + 1 - 1 = n
    BY <1>1
  <2> QED
    BY <1>1, <1>3, <2>1 DEF FoldsUp
<1> QED
  BY <1>2, <1>3, <1>7, <1>8 DEF longer

-----------------------------------------------------------------------------
(* appendChainDecision()                                                    *)

RequestState ==
  [pc : {"idle", "appended", "folded", "deleting", "deleted", "inserted",
         "committed", "refused"},
   fold : SUBSET Membership,
   target : SUBSET Row]

Typed ==
  /\ parts \in Artifact
  /\ log \in Seq(Entry)
  /\ rows \subseteq Row
  /\ request \in [Request -> RequestState]
  /\ last \in Request \cup {None}
  /\ alone \subseteq Request
  /\ \A r \in Request :
       /\ request[r].pc = "idle" => r \notin alone /\ \A i \in DOMAIN log : log[i].by # r
       /\ InProgress(r) => \E i \in DOMAIN log : log[i].by = r

(* What a transaction that is over wrote is published or undone.            *)
RowsOK ==
  \A row \in rows :
    /\ \/ Committed(row.by)
       \/ row.by \in Request /\ request[row.by].pc = "inserted"
    /\ \/ row.deleted = None
       \/ row.deleted \in Request /\ request[row.deleted].pc \in {"deleted", "inserted"}

(* An append that nobody overlaps folds the whole log, deletes every row it *)
(* can see and inserts what it folded.                                      *)
AloneOK(r) ==
  r \in alone /\ InProgress(r) =>
    /\ \A q \in Request : InProgress(q) => q = r
    /\ request[r].pc # "appended" => request[r].fold = Fold(r)
    /\ request[r].pc = "deleting" => request[r].target = Visible(r)
    /\ request[r].pc = "deleted" => Visible(r) = {}
    /\ request[r].pc = "inserted" =>
         {row.membership : row \in Visible(r)} = Fold(r)

IInv ==
  /\ Typed
  /\ RowsOK
  /\ \A r \in Request : AloneOK(r)
  /\ last # None => Committed(last)
  /\ AloneHeals

(* What a step of request q leaves alone.                                   *)
StepOf(q) ==
  /\ parts' = parts
  /\ request' \in [Request -> RequestState]
  /\ \A r \in Request \ {q} : request'[r] = request[r]

LEMMA OthersStay ==
  ASSUME Typed, NEW q \in Request, StepOf(q), NEW r \in Request, r # q
  PROVE  /\ InProgress(r)' <=> InProgress(r)
         /\ Committed(r)' <=> Committed(r)
BY DEF StepOf, InProgress, Committed

(* A step that commits nothing changes nobody's sight.                      *)
LEMMA SightStays ==
  ASSUME Typed, NEW q \in Request, StepOf(q), Committed(q)' <=> Committed(q),
         NEW x, NEW t
  PROVE  Sees(x, t)' <=> Sees(x, t)
<1>1. CASE t \in Request
  <2>1. CASE t = q
    BY <2>1 DEF Sees
  <2>2. CASE t # q
    BY <1>1, <2>2, OthersStay DEF Sees
  <2> QED
    BY <2>1, <2>2
<1>2. CASE t \notin Request
  BY <1>2 DEF Sees, Committed
<1> QED
  BY <1>1, <1>2

LEMMA ProposalStays ==
  ASSUME parts' = parts
  PROVE  Proposal' = Proposal
<1>1. Opening' = Opening
  BY Zenon DEF Opening
<1> QED
  BY <1>1 DEF Proposal

LEMMA ProposalIsGood == parts \in Artifact => Proposal \in Good
<1> SUFFICES ASSUME parts \in Artifact PROVE Proposal \in Good
  OBVIOUS
<1>1. parts \in Seq(Identity)
  BY ChainsAssumption
<1> QED
  BY <1>1, ProposalIs DEF Good, WellFormed

LEMMA FoldIsTyped ==
  ASSUME Typed, NEW x
  PROVE  Fold(x) \in Good /\ Fold(x) \subseteq Membership
<1>1. Proposal \in Good /\ log \in Seq(Entry)
  BY ProposalIsGood DEF Typed
<1>2. Fold(x) \in Good
  BY <1>1, FoldIsGood DEF Fold
<1> QED
  BY <1>2 DEF Good

(* Who sees the same decisions folds the same.                              *)
LEMMA FoldStays ==
  ASSUME Typed, NEW q \in Request, StepOf(q), log' = log,
         Committed(q)' <=> Committed(q), NEW x
  PROVE  Fold(x)' = Fold(x)
<1>1. Proposal' = Proposal
  BY ProposalStays DEF StepOf
<1>2. \A t : Sees(x, t)' <=> Sees(x, t)
  BY SightStays
<1>3. DecisionsSeenBy(x)' = DecisionsSeenBy(x)
  BY <1>2 DEF DecisionsSeenBy
<1> QED
  BY <1>1, <1>3 DEF Fold

LEMMA VisibleStays ==
  ASSUME Typed, NEW q \in Request, StepOf(q), rows' = rows,
         Committed(q)' <=> Committed(q), NEW x
  PROVE  Visible(x)' = Visible(x)
<1>1. \A t : Sees(x, t)' <=> Sees(x, t)
  BY SightStays
<1> QED
  BY <1>1 DEF Visible

(* Another request under way keeps nobody else alone.                       *)
LEMMA OthersAreNotAlone ==
  ASSUME IInv, NEW q \in Request, StepOf(q), InProgress(q), alone' = alone,
         NEW r \in Request, r # q
  PROVE  AloneOK(r)'
<1>1. ~(r \in alone /\ InProgress(r))
  BY DEF IInv, AloneOK
<1>2. InProgress(r)' <=> InProgress(r)
  BY OthersStay DEF IInv
<1> QED
  BY <1>1, <1>2 DEF AloneOK

(* Everything else goes on as long as it commits nothing and shows nothing. *)
LEMMA HealsStays ==
  ASSUME IInv, NEW q \in Request, StepOf(q), ~Committed(q), ~Committed(q)',
         last' = last, last \in alone' => last \in alone,
         Effective' = Effective, CommittedFold' = CommittedFold
  PROVE  (last # None => Committed(last))' /\ AloneHeals'
<1>1. (last # None => Committed(last))'
  <2> SUFFICES ASSUME last # None PROVE Committed(last)'
    OBVIOUS
  <2>1. Committed(last) /\ last \in Request
    BY DEF IInv, Typed
  <2>2. last # q
    BY <2>1
  <2>3. \A r \in Request \ {q} : Committed(r)' <=> Committed(r)
    BY OthersStay DEF IInv
  <2> QED
    BY <2>1, <2>2, <2>3 DEF Committed
<1>2. AloneHeals'
  BY DEF IInv, AloneHeals
<1> QED
  BY <1>1, <1>2

LEMMA InitOK == Init => IInv
<1> SUFFICES ASSUME Init PROVE IInv
  OBVIOUS
<1>1. parts \in Artifact /\ Proposal \in SUBSET Membership
  BY ChainsAssumption, ProposalIs DEF Init
<1>2. log = << >> /\ log \in Seq(Entry) /\ DOMAIN log = {}
  BY DEF Init
<1>3. rows \subseteq Row
  BY <1>1 DEF Init, Row
<1>4. request \in [Request -> RequestState] /\ \A r \in Request : request[r].pc = "idle"
  BY DEF Init, Idle, RequestState
<1>5. \A r \in Request : ~InProgress(r)
  BY <1>4 DEF InProgress
<1>6. last = None /\ alone = {}
  BY DEF Init
<1>7. Typed
  BY <1>1, <1>2, <1>3, <1>4, <1>5, <1>6 DEF Typed
<1>8. RowsOK
  <2>1. \A row \in rows : row.by = "import" /\ row.deleted = None
    BY DEF Init
  <2> QED
    BY <2>1 DEF RowsOK, Committed
<1> QED
  BY <1>5, <1>6, <1>7, <1>8 DEF IInv, AloneOK, AloneHeals

(* Typing of a step that changes the place of a request.                    *)
LEMMA GoesOn ==
  ASSUME Typed, NEW q \in Request, NEW state \in RequestState,
         request' = [request EXCEPT ![q] = state], parts' = parts
  PROVE  StepOf(q) /\ request'[q] = state
BY DEF Typed, StepOf

(* What a step of a request under way that does not commit has to show.     *)
LEMMA Proceeds ==
  ASSUME IInv, NEW q \in Request, StepOf(q), UNCHANGED <<log, last, alone>>,
         InProgress(q), ~Committed(q)', request'[q].pc # "idle",
         rows' \subseteq Row, RowsOK', AloneOK(q)', Effective' = Effective
  PROVE  IInv'
<1>1. Typed
  BY DEF IInv
<1>2. ~Committed(q)
  BY ChainsAssumption DEF InProgress, Committed
<1>3. CommittedFold' = CommittedFold
  BY <1>1, <1>2, FoldStays DEF CommittedFold
<1>4. Typed'
  <2>1. ASSUME NEW r \in Request
        PROVE  /\ request'[r].pc = "idle" =>
                    r \notin alone' /\ \A i \in DOMAIN log' : log'[i].by # r
               /\ InProgress(r)' => \E i \in DOMAIN log' : log'[i].by = r
    BY <1>1, OthersStay DEF Typed, StepOf
  <2> QED
    BY <1>1, <2>1 DEF Typed, StepOf, Row
<1>5. \A r \in Request : AloneOK(r)'
  BY OthersAreNotAlone
<1>6. (last # None => Committed(last))' /\ AloneHeals'
  BY <1>2, <1>3, HealsStays
<1> QED
  BY <1>4, <1>5, <1>6 DEF IInv

LEMMA FoldLogOK ==
  ASSUME IInv, NEW q \in Request, FoldLog(q)
  PROVE  IInv'
<1> DEFINE state == [request[q] EXCEPT !.pc = "folded", !.fold = Fold(q)]
<1>1. Typed
  BY DEF IInv
<1>2. state \in RequestState /\ state.pc = "folded" /\ state.fold = Fold(q)
  BY <1>1, FoldIsTyped DEF Typed, RequestState
<1>3. request' = [request EXCEPT ![q] = state] /\ request[q].pc = "appended"
  BY DEF FoldLog
<1>4. UNCHANGED <<parts, log, rows, last, alone>>
  BY DEF FoldLog
<1> HIDE DEF state
<1>5. StepOf(q) /\ request'[q] = state
  BY <1>1, <1>2, <1>3, <1>4, GoesOn
<1>6. InProgress(q) /\ InProgress(q)' /\ ~Committed(q) /\ ~Committed(q)'
  BY <1>2, <1>3, <1>5, ChainsAssumption DEF InProgress, Committed
<1>7. \A x : Fold(x)' = Fold(x) /\ Visible(x)' = Visible(x)
  BY <1>1, <1>4, <1>5, <1>6, FoldStays, VisibleStays
<1>8. RowsOK'
  <2>1. \A t : Committed(t)' <=> Committed(t)
    BY <1>1, <1>5, <1>6, OthersStay DEF Committed
  <2> QED
    BY <1>2, <1>3, <1>4, <1>5, <2>1 DEF IInv, RowsOK, StepOf
<1>9. AloneOK(q)'
  <2>1. \A r \in Request : InProgress(r)' => InProgress(r)
    BY <1>1, <1>5, <1>6, OthersStay
  <2> QED
    BY <1>2, <1>4, <1>5, <1>6, <1>7, <2>1 DEF IInv, AloneOK
<1>10. Effective' = Effective
  BY <1>7 DEF Effective
<1> QED
  BY <1>1, <1>2, <1>4, <1>5, <1>6, <1>8, <1>9, <1>10, Proceeds DEF Typed

LEMMA DeleteBeginsOK ==
  ASSUME IInv, NEW q \in Request, DeleteBegins(q)
  PROVE  IInv'
<1> DEFINE state == [request[q] EXCEPT !.pc = "deleting", !.target = Visible(q)]
<1>1. Typed
  BY DEF IInv
<1>2. /\ state \in RequestState /\ state.pc = "deleting"
      /\ state.fold = request[q].fold /\ state.target = Visible(q)
  BY <1>1 DEF Typed, RequestState, Visible
<1>3. request' = [request EXCEPT ![q] = state] /\ request[q].pc = "folded"
  BY DEF DeleteBegins
<1>4. UNCHANGED <<parts, log, rows, last, alone>>
  BY DEF DeleteBegins
<1> HIDE DEF state
<1>5. StepOf(q) /\ request'[q] = state
  BY <1>1, <1>2, <1>3, <1>4, GoesOn
<1>6. InProgress(q) /\ InProgress(q)' /\ ~Committed(q) /\ ~Committed(q)'
  BY <1>2, <1>3, <1>5, ChainsAssumption DEF InProgress, Committed
<1>7. \A x : Fold(x)' = Fold(x) /\ Visible(x)' = Visible(x)
  BY <1>1, <1>4, <1>5, <1>6, FoldStays, VisibleStays
<1>8. RowsOK'
  <2>1. \A t : Committed(t)' <=> Committed(t)
    BY <1>1, <1>5, <1>6, OthersStay DEF Committed
  <2> QED
    BY <1>2, <1>3, <1>4, <1>5, <2>1 DEF IInv, RowsOK, StepOf
<1>9. AloneOK(q)'
  <2>1. \A r \in Request : InProgress(r)' => InProgress(r)
    BY <1>1, <1>5, <1>6, OthersStay
  <2> QED
    BY <1>2, <1>3, <1>4, <1>5, <1>6, <1>7, <2>1 DEF IInv, AloneOK
<1>10. Effective' = Effective
  BY <1>7 DEF Effective
<1> QED
  BY <1>1, <1>2, <1>4, <1>5, <1>6, <1>8, <1>9, <1>10, Proceeds DEF Typed

LEMMA DeleteEndsOK ==
  ASSUME IInv, NEW q \in Request, DeleteEnds(q)
  PROVE  IInv'
<1> DEFINE state == [request[q] EXCEPT !.pc = "deleted", !.target = {}]
           found == {row \in rows : \E old \in request[q].target :
                       old.by = row.by /\ old.membership = row.membership}
           Left(row) == IF row \in found /\ row.deleted = None
                        THEN [row EXCEPT !.deleted = q] ELSE row
<1>1. Typed
  BY DEF IInv
<1>2. /\ state \in RequestState /\ state.pc = "deleted"
      /\ state.fold = request[q].fold
  BY <1>1 DEF Typed, RequestState
<1>3. request' = [request EXCEPT ![q] = state] /\ request[q].pc = "deleting"
  BY DEF DeleteEnds
<1>4. UNCHANGED <<parts, log, last, alone>>
  BY DEF DeleteEnds
<1>5. rows' = {Left(row) : row \in rows} /\ \A row \in found : ~InProgress(row.deleted)
  BY DEF DeleteEnds
<1> HIDE DEF state
<1>6. StepOf(q) /\ request'[q] = state
  BY <1>1, <1>2, <1>3, <1>4, GoesOn
<1>7. InProgress(q) /\ InProgress(q)' /\ ~Committed(q) /\ ~Committed(q)'
  BY <1>2, <1>3, <1>6, ChainsAssumption DEF InProgress, Committed
<1>8. ASSUME NEW row \in rows
      PROVE  /\ Left(row) \in Row /\ Left(row).by = row.by
             /\ Left(row).membership = row.membership
             /\ row.deleted # None \/ row \notin found => Left(row) = row
             /\ row.deleted = None /\ row \in found => Left(row).deleted = q
  <2>1. row \in Row
    BY <1>1 DEF Typed
  <2> QED
    BY <2>1 DEF Row
<1> HIDE DEF Left, found
<1>9. \A x : Fold(x)' = Fold(x)
  BY <1>1, <1>4, <1>6, <1>7, FoldStays
<1>10. \A x, t : Sees(x, t)' <=> Sees(x, t)
  BY <1>1, <1>6, <1>7, SightStays
<1>11. ~Sees("import", q) /\ \A x \in Request \cup {"import"} : ~Sees(x, None)
  BY <1>7, ChainsAssumption DEF Sees, Committed
<1>12. RowsOK'
  <2>1. \A t : Committed(t)' <=> Committed(t)
    BY <1>1, <1>6, <1>7, OthersStay DEF Committed
  <2>2. \A r \in Request \ {q} : request'[r] = request[r]
    BY <1>6 DEF StepOf
  <2>3. ASSUME NEW after \in rows'
        PROVE  /\ \/ Committed(after.by)'
                  \/ after.by \in Request /\ request'[after.by].pc = "inserted"
               /\ \/ after.deleted = None
                  \/ /\ after.deleted \in Request
                     /\ request'[after.deleted].pc \in {"deleted", "inserted"}
    <3> PICK row \in rows : after = Left(row)
      BY <1>5
    <3>1. /\ Committed(row.by) \/ (row.by \in Request /\ request[row.by].pc = "inserted")
          /\ \/ row.deleted = None
             \/ row.deleted \in Request /\ request[row.deleted].pc \in {"deleted", "inserted"}
      BY DEF IInv, RowsOK
    <3>2. after.by = row.by
      BY <1>8
    <3>3. Committed(after.by)' \/ (after.by \in Request /\ request'[after.by].pc = "inserted")
      BY <1>3, <2>1, <2>2, <3>1, <3>2
    <3>4. CASE row.deleted = None /\ row \in found
      <4>1. after.deleted = q
        BY <1>8, <3>4
      <4> QED
        BY <1>2, <1>6, <3>3, <4>1
    <3>5. CASE row.deleted = None /\ row \notin found
      <4>1. after.deleted = None
        BY <1>8, <3>5
      <4> QED
        BY <3>3, <4>1
    <3>6. CASE row.deleted # None
      <4>1. after.deleted = row.deleted
        BY <1>8, <3>6
      <4> QED
        BY <1>3, <2>2, <3>1, <3>3, <3>6, <4>1
    <3> QED
      BY <3>4, <3>5, <3>6
  <2> QED
    BY <2>3 DEF RowsOK
<1>13. Effective' = Effective
  <2>1. ASSUME NEW row \in rows
        PROVE  (Sees("import", Left(row).by) /\ ~Sees("import", Left(row).deleted))
                 <=> (Sees("import", row.by) /\ ~Sees("import", row.deleted))
    BY <1>8, <1>11
  <2>2. \A row \in rows : Left(row) \in Visible("import")' <=> row \in Visible("import")
    BY <1>5, <1>10, <2>1 DEF Visible
  <2>3. Visible("import")' \subseteq {Left(row) : row \in rows}
    BY <1>5 DEF Visible
  <2>4. Visible("import") \subseteq rows
    BY DEF Visible
  <2>5. \A m : (\E row \in Visible("import")' : m = row.membership)
               <=> (\E row \in Visible("import") : m = row.membership)
    BY <1>8, <2>2, <2>3, <2>4
  <2> QED
    BY <2>5 DEF Effective
<1>14. AloneOK(q)'
  <2> SUFFICES ASSUME q \in alone
               PROVE  /\ \A r \in Request : InProgress(r)' => r = q
                      /\ request'[q].fold = Fold(q)'
                      /\ Visible(q)' = {}
    BY <1>2, <1>4, <1>6 DEF AloneOK
  <2>1. /\ \A r \in Request : InProgress(r) => r = q
        /\ request[q].fold = Fold(q) /\ request[q].target = Visible(q)
    BY <1>3, <1>7 DEF IInv, AloneOK
  <2>2. \A r \in Request : InProgress(r)' => r = q
    BY <1>1, <1>6, <2>1, OthersStay
  <2>3. ASSUME NEW row \in rows, Sees(q, row.by), ~Sees(q, Left(row).deleted)
        PROVE  FALSE
    <3>1. row.deleted = None
      <4>1. ASSUME row.deleted # None PROVE FALSE
        <5>1. row.deleted \in Request /\ request[row.deleted].pc \in {"deleted", "inserted"}
          BY <4>1 DEF IInv, RowsOK
        <5>2. InProgress(row.deleted)
          BY <5>1 DEF InProgress
        <5>3. row.deleted = q
          BY <2>1, <5>1, <5>2
        <5> QED
          BY <1>3, <5>1, <5>3
      <4> QED
        BY <4>1
    <3>2. row \in Visible(q)
      BY <1>11, <2>3, <3>1 DEF Visible
    <3>3. row \in found
      BY <2>1, <3>2 DEF found
    <3> QED
      BY <1>8, <2>3, <3>1, <3>3 DEF Sees
  <2>4. Visible(q)' = {}
    BY <1>5, <1>8, <1>10, <2>3 DEF Visible
  <2> QED
    BY <1>2, <1>6, <1>9, <2>1, <2>2, <2>4
<1>15. rows' \subseteq Row
  BY <1>5, <1>8
<1> QED
  BY <1>2, <1>4, <1>6, <1>7, <1>12, <1>13, <1>14, <1>15, Proceeds

(* A rollback shows nobody anything else.                                   *)
LEMMA UndoOK ==
  ASSUME IInv, NEW q \in Request, InProgress(q), Undo(q),
         UNCHANGED <<parts, log, last, alone>>
  PROVE  IInv'
<1> DEFINE state == [Idle EXCEPT !.pc = "refused"]
           Kept(row) == [row EXCEPT !.deleted = IF @ = q THEN None ELSE @]
           others == {row \in rows : row.by # q}
<1>1. Typed
  BY DEF IInv
<1>2. state \in RequestState /\ state.pc = "refused"
  BY DEF RequestState, Idle
<1>3. request' = [request EXCEPT ![q] = state]
  BY DEF Undo
<1>4. rows' = {Kept(row) : row \in others}
  BY DEF Undo
<1> HIDE DEF state
<1>5. StepOf(q) /\ request'[q] = state
  BY <1>1, <1>2, <1>3, GoesOn
<1>6. ~Committed(q) /\ ~Committed(q)' /\ ~InProgress(q)'
  BY <1>2, <1>5, ChainsAssumption DEF InProgress, Committed
<1>7. ASSUME NEW row \in others
      PROVE  /\ Kept(row) \in Row /\ Kept(row).by = row.by /\ row.by # q
             /\ Kept(row).membership = row.membership
             /\ Kept(row).deleted = IF row.deleted = q THEN None ELSE row.deleted
  <2>1. row \in Row
    BY <1>1 DEF Typed
  <2> QED
    BY <2>1 DEF Row
<1>8. others \subseteq rows /\ \A row \in rows : row \notin others => row.by = q
  OBVIOUS
<1> HIDE DEF Kept, others
<1>9. \A x, t : Sees(x, t)' <=> Sees(x, t)
  BY <1>1, <1>5, <1>6, SightStays
<1>10. ~Sees("import", q) /\ ~Sees("import", None)
  BY <1>6, ChainsAssumption DEF Sees, Committed
<1>11. RowsOK'
  <2>1. \A t : Committed(t)' <=> Committed(t)
    BY <1>1, <1>5, <1>6, OthersStay DEF Committed
  <2>2. \A r \in Request \ {q} : request'[r] = request[r]
    BY <1>5 DEF StepOf
  <2>3. ASSUME NEW row \in others
        PROVE  /\ \/ Committed(Kept(row).by)'
                  \/ /\ Kept(row).by \in Request
                     /\ request'[Kept(row).by].pc = "inserted"
               /\ \/ Kept(row).deleted = None
                  \/ /\ Kept(row).deleted \in Request
                     /\ request'[Kept(row).deleted].pc \in {"deleted", "inserted"}
    <3>1. /\ Committed(row.by) \/ (row.by \in Request /\ request[row.by].pc = "inserted")
          /\ \/ row.deleted = None
             \/ row.deleted \in Request /\ request[row.deleted].pc \in {"deleted", "inserted"}
      BY <1>8 DEF IInv, RowsOK
    <3> QED
      BY <1>7, <2>1, <2>2, <3>1
  <2> QED
    BY <1>4, <2>3 DEF RowsOK
<1>12. Effective' = Effective
  <2>1. \A row \in others : Kept(row) \in Visible("import")' <=> row \in Visible("import")
    <3>1. ASSUME NEW row \in others
          PROVE  Sees("import", Kept(row).deleted) <=> Sees("import", row.deleted)
      BY <1>7, <1>10
    <3> QED
      BY <1>4, <1>7, <1>8, <1>9, <3>1 DEF Visible
  <2>2. Visible("import")' \subseteq {Kept(row) : row \in others}
    BY <1>4 DEF Visible
  <2>3. Visible("import") \subseteq others
    BY <1>8, <1>10 DEF Visible
  <2>4. \A m : (\E row \in Visible("import")' : m = row.membership)
               <=> (\E row \in Visible("import") : m = row.membership)
    BY <1>7, <2>1, <2>2, <2>3
  <2> QED
    BY <2>4 DEF Effective
<1>13. rows' \subseteq Row
  BY <1>4, <1>7
<1>14. AloneOK(q)'
  BY <1>6 DEF AloneOK
<1> QED
  BY <1>2, <1>5, <1>6, <1>11, <1>12, <1>13, <1>14, Proceeds

LEMMA InsertOK ==
  ASSUME IInv, NEW q \in Request, Insert(q)
  PROVE  IInv'
<1>1. Typed
  BY DEF IInv
<1>2. request[q].pc = "deleted" /\ UNCHANGED <<parts, log, last, alone>>
  BY DEF Insert
<1>3. InProgress(q) /\ ~Committed(q)
  BY <1>2, ChainsAssumption DEF InProgress, Committed
<1>4. CASE \E row \in Rivals(q) : row.deleted = None
  <2>1. Undo(q)
    BY <1>4 DEF Insert
  <2> QED
    BY <1>2, <1>3, <2>1, UndoOK
<1>5. CASE ~(\E row \in Rivals(q) : row.deleted = None)
  <2> DEFINE state == [request[q] EXCEPT !.pc = "inserted"]
             new == {[membership |-> m, by |-> q, deleted |-> None] : m \in request[q].fold}
  <2>1. /\ state \in RequestState /\ state.pc = "inserted"
        /\ state.fold = request[q].fold
    BY <1>1 DEF Typed, RequestState
  <2>2. request' = [request EXCEPT ![q] = state]
    BY <1>5 DEF Insert, Goto
  <2>3. rows' = rows \cup new
    BY <1>5 DEF Insert
  <2> HIDE DEF state
  <2>4. StepOf(q) /\ request'[q] = state
    BY <1>1, <1>2, <2>1, <2>2, GoesOn
  <2>5. InProgress(q)' /\ ~Committed(q)'
    BY <2>1, <2>4, ChainsAssumption DEF InProgress, Committed
  <2>6. ASSUME NEW row \in new
        PROVE  row \in Row /\ row.by = q /\ row.deleted = None
    <3>1. request[q].fold \subseteq Membership
      BY <1>1 DEF Typed, RequestState
    <3> QED
      BY <3>1 DEF Row
  <2>7. {row.membership : row \in new} = request[q].fold
    <3>1. \A m \in request[q].fold :
            /\ [membership |-> m, by |-> q, deleted |-> None] \in new
            /\ [membership |-> m, by |-> q, deleted |-> None].membership = m
      OBVIOUS
    <3>2. \A row \in new : row.membership \in request[q].fold
      OBVIOUS
    <3> HIDE DEF new
    <3>3. \A m \in request[q].fold : \E row \in new : m = row.membership
      BY <3>1
    <3> QED
      BY <3>2, <3>3
  <2>8. \A x : Fold(x)' = Fold(x)
    BY <1>1, <1>2, <1>3, <2>4, <2>5, FoldStays
  <2>9. \A x, t : Sees(x, t)' <=> Sees(x, t)
    BY <1>1, <1>3, <2>4, <2>5, SightStays
  <2>10. ~Sees("import", q) /\ ~Sees("import", None) /\ ~Sees(q, None) /\ Sees(q, q)
    BY <1>3, ChainsAssumption DEF Sees, Committed
  <2>11. RowsOK'
    <3>1. \A t : Committed(t)' <=> Committed(t)
      BY <1>1, <1>3, <2>4, <2>5, OthersStay DEF Committed
    <3>2. \A r \in Request \ {q} : request'[r] = request[r]
      BY <2>4 DEF StepOf
    <3>3. ASSUME NEW row \in rows'
          PROVE  /\ \/ Committed(row.by)'
                    \/ row.by \in Request /\ request'[row.by].pc = "inserted"
                 /\ \/ row.deleted = None
                    \/ /\ row.deleted \in Request
                       /\ request'[row.deleted].pc \in {"deleted", "inserted"}
      <4>1. CASE row \in new
        BY <2>1, <2>4, <2>6, <4>1
      <4>2. CASE row \in rows
        <5>1. /\ Committed(row.by) \/ (row.by \in Request /\ request[row.by].pc = "inserted")
              /\ \/ row.deleted = None
                 \/ row.deleted \in Request /\ request[row.deleted].pc \in {"deleted", "inserted"}
          BY <4>2 DEF IInv, RowsOK
        <5> QED
          BY <2>1, <2>4, <3>1, <3>2, <5>1
      <4> QED
        BY <2>3, <4>1, <4>2
    <3> QED
      BY <3>3 DEF RowsOK
  <2>12. Effective' = Effective
    <3>1. Visible("import")' = Visible("import")
      BY <2>3, <2>6, <2>9, <2>10 DEF Visible
    <3> QED
      BY <3>1 DEF Effective
  <2>13. AloneOK(q)'
    <3> SUFFICES ASSUME q \in alone
                 PROVE  /\ \A r \in Request : InProgress(r)' => r = q
                        /\ request'[q].fold = Fold(q)'
                        /\ {row.membership : row \in Visible(q)'} = Fold(q)'
      BY <1>2, <2>1, <2>4 DEF AloneOK
    <3>1. /\ \A r \in Request : InProgress(r) => r = q
          /\ request[q].fold = Fold(q) /\ Visible(q) = {}
      BY <1>2, <1>3 DEF IInv, AloneOK
    <3>2. \A r \in Request : InProgress(r)' => r = q
      BY <1>1, <2>4, <3>1, OthersStay
    <3>3. Visible(q)' = new
      BY <2>3, <2>6, <2>9, <2>10, <3>1 DEF Visible
    <3>4. {row.membership : row \in Visible(q)'} = request[q].fold
      BY <2>7, <3>3
    <3> QED
      BY <2>1, <2>4, <2>8, <3>1, <3>2, <3>4
  <2>14. rows' \subseteq Row
    BY <1>1, <2>3, <2>6 DEF Typed
  <2> QED
    BY <1>2, <1>3, <2>1, <2>4, <2>5, <2>11, <2>12, <2>13, <2>14, Proceeds
<1> QED
  BY <1>4, <1>5

(* Who was alone and commits leaves what it folded, which is the fold of    *)
(* the whole log.                                                           *)
LEMMA CommitOK ==
  ASSUME IInv, NEW q \in Request, Commit(q)
  PROVE  IInv'
<1> DEFINE state == [Idle EXCEPT !.pc = "committed"]
<1>1. Typed
  BY DEF IInv
<1>2. state \in RequestState /\ state.pc = "committed"
  BY DEF RequestState, Idle
<1>3. /\ request' = [request EXCEPT ![q] = state] /\ request[q].pc = "inserted"
      /\ rows' = {row \in rows : row.deleted # q} /\ last' = q
      /\ UNCHANGED <<parts, log, alone>>
  BY DEF Commit
<1> HIDE DEF state
<1>4. StepOf(q) /\ request'[q] = state
  BY <1>1, <1>2, <1>3, GoesOn
<1>5. InProgress(q) /\ ~InProgress(q)' /\ ~Committed(q) /\ Committed(q)'
  BY <1>2, <1>3, <1>4, ChainsAssumption DEF InProgress, Committed
<1>6. \A t : Committed(t)' <=> (t = q \/ Committed(t))
  BY <1>1, <1>4, <1>5, OthersStay DEF Committed
<1>7. Typed'
  <2>1. ASSUME NEW r \in Request
        PROVE  /\ request'[r].pc = "idle" =>
                    r \notin alone' /\ \A i \in DOMAIN log' : log'[i].by # r
               /\ InProgress(r)' => \E i \in DOMAIN log' : log'[i].by = r
    BY <1>1, <1>2, <1>3, <1>4, <1>5, OthersStay DEF Typed, StepOf
  <2> QED
    BY <1>1, <1>3, <1>4, <2>1 DEF Typed, StepOf, Row
<1>8. RowsOK'
  <2>1. \A r \in Request \ {q} : request'[r] = request[r]
    BY <1>4 DEF StepOf
  <2>2. ASSUME NEW row \in rows'
        PROVE  /\ \/ Committed(row.by)'
                  \/ row.by \in Request /\ request'[row.by].pc = "inserted"
               /\ \/ row.deleted = None
                  \/ /\ row.deleted \in Request
                     /\ request'[row.deleted].pc \in {"deleted", "inserted"}
    <3>1. /\ Committed(row.by) \/ (row.by \in Request /\ request[row.by].pc = "inserted")
          /\ \/ row.deleted = None
             \/ row.deleted \in Request /\ request[row.deleted].pc \in {"deleted", "inserted"}
          /\ row.deleted # q
      BY <1>3 DEF IInv, RowsOK
    <3> QED
      BY <1>6, <2>1, <3>1
  <2> QED
    BY <2>2 DEF RowsOK
<1>9. \A r \in Request : AloneOK(r)'
  <2>1. ASSUME NEW r \in Request, r # q PROVE AloneOK(r)'
    <3>1. ~(r \in alone /\ InProgress(r))
      BY <1>5, <2>1 DEF IInv, AloneOK
    <3> QED
      BY <1>1, <1>3, <1>4, <2>1, <3>1, OthersStay DEF AloneOK
  <2> QED
    BY <1>5, <2>1 DEF AloneOK
<1>10. AloneHeals'
  <2> SUFFICES ASSUME q \in alone PROVE Effective' = CommittedFold'
    BY <1>3 DEF AloneHeals
  <2>1. /\ \A r \in Request : InProgress(r) => r = q
        /\ {row.membership : row \in Visible(q)} = Fold(q)
    BY <1>3, <1>5 DEF IInv, AloneOK
  <2>2. \A t : Sees("import", t)' <=> Sees(q, t)
    BY <1>6 DEF Sees, Committed
  <2>3. Visible("import")' = Visible(q)
    <3>1. Visible("import")' = {row \in rows' : Sees(q, row.by) /\ ~Sees(q, row.deleted)}
      BY <2>2 DEF Visible
    <3>2. Sees(q, q)
      BY DEF Sees
    <3> QED
      BY <1>3, <3>1, <3>2 DEF Visible
  <2>4. DecisionsSeenBy("import")' = DecisionsSeenBy(q)
    BY <1>3, <2>2 DEF DecisionsSeenBy
  <2>5. Fold("import")' = Fold(q)
    BY <1>3, <2>4, ProposalStays DEF Fold
  <2> QED
    BY <2>1, <2>3, <2>5 DEF Effective, CommittedFold
<1>11. (last # None => Committed(last))'
  BY <1>3, <1>5
<1> QED
  BY <1>7, <1>8, <1>9, <1>10, <1>11 DEF IInv

(* An append begins: what it inserts nobody else sees.                      *)
LEMMA AppendDecisionOK ==
  ASSUME IInv, NEW q \in Request, NEW d \in Decision, AppendDecision(q, d)
  PROVE  IInv'
<1> DEFINE open == {r \in Request : InProgress(r)}
           next == IF log' = log THEN "refused" ELSE "appended"
           entry == [decision |-> d, by |-> q]
           state == [request[q] EXCEPT !.pc = request'[q].pc]
<1>1. Typed
  BY DEF IInv
<1>2. /\ request[q].pc = "idle" /\ UNCHANGED <<parts, rows, last>>
      /\ alone' = IF open = {} THEN alone \cup {q} ELSE alone \ open
  BY DEF AppendDecision
<1>3. \/ /\ log' = Append(log, entry)
         /\ request' = [request EXCEPT ![q].pc = "appended"]
      \/ /\ log' = log
         /\ request' = [request EXCEPT ![q].pc = "refused"]
  BY DEF AppendDecision, Goto
<1>4. /\ StepOf(q) /\ request'[q].pc \in {"appended", "refused"}
      /\ request'[q].pc = "appended" => log' = Append(log, entry)
      /\ request'[q].pc = "refused" => log' = log
  <2>1. ASSUME NEW pc \in {"appended", "refused"},
               request' = [request EXCEPT ![q].pc = pc]
        PROVE  StepOf(q) /\ request'[q].pc = pc
    <3> DEFINE after == [request[q] EXCEPT !.pc = pc]
    <3>1. after \in RequestState /\ after.pc = pc
      BY <1>1 DEF Typed, RequestState
    <3>2. request' = [request EXCEPT ![q] = after]
      BY <2>1
    <3> HIDE DEF after
    <3>3. StepOf(q) /\ request'[q] = after
      BY <1>1, <1>2, <3>1, <3>2, GoesOn
    <3> QED
      BY <3>1, <3>3
  <2>2. CASE log' = Append(log, entry) /\ request' = [request EXCEPT ![q].pc = "appended"]
    BY <2>1, <2>2
  <2>3. CASE log' = log /\ request' = [request EXCEPT ![q].pc = "refused"]
    BY <2>1, <2>3
  <2> QED
    BY <1>3, <2>2, <2>3
<1>5. entry \in Entry /\ entry.by = q
  BY DEF Entry
<1> HIDE DEF entry
<1>6. ~InProgress(q) /\ ~Committed(q) /\ ~Committed(q)'
  BY <1>2, <1>4, ChainsAssumption DEF InProgress, Committed
<1>7. InProgress(q)' => request'[q].pc = "appended"
  BY <1>4 DEF InProgress
<1>8. /\ log' \in Seq(Entry)
      /\ \A i \in DOMAIN log : i \in DOMAIN log' /\ log'[i] = log[i]
      /\ \A i \in DOMAIN log' : i \in DOMAIN log \/ log'[i].by = q
      /\ request'[q].pc = "appended" => \E i \in DOMAIN log' : log'[i].by = q
  <2>1. log \in Seq(Entry)
    BY <1>1 DEF Typed
  <2>2. CASE log' = log
    BY <1>4, <2>1, <2>2
  <2>3. CASE log' = Append(log, entry)
    <3>1. /\ log' \in Seq(Entry) /\ DOMAIN log' = 1 .. Len(log) + 1
          /\ DOMAIN log = 1 .. Len(log) /\ Len(log) \in Nat
          /\ log'[Len(log) + 1] = entry
          /\ \A i \in 1 .. Len(log) : log'[i] = log[i]
      BY <1>5, <2>1, <2>3
    <3> QED
      BY <1>5, <3>1
  <2> QED
    BY <1>3, <2>2, <2>3
<1>9. \A x, t : Sees(x, t)' <=> Sees(x, t)
  BY <1>1, <1>4, <1>6, SightStays
<1>10. Visible("import")' = Visible("import")
  BY <1>2, <1>9 DEF Visible
<1>11. CommittedFold' = CommittedFold
  <2>1. DecisionsSeenBy("import")' = DecisionsSeenBy("import")
    <3>1. ~Sees("import", q)
      BY <1>6, ChainsAssumption DEF Sees
    <3>2. \A i \in DOMAIN log' : i \notin DOMAIN log => ~Sees("import", log'[i].by)
      BY <1>8, <3>1
    <3>3. DecisionsSeenBy("import")' = {i \in DOMAIN log' : Sees("import", log'[i].by)}
      BY <1>9 DEF DecisionsSeenBy
    <3> QED
      BY <1>8, <3>2, <3>3 DEF DecisionsSeenBy
  <2>2. Fold("import")' = FoldOver(Proposal, log', DecisionsSeenBy("import"))
    BY <1>2, <2>1, ProposalStays DEF Fold
  <2>3. FoldOver(Proposal, log', DecisionsSeenBy("import"))
          = FoldOver(Proposal, log, DecisionsSeenBy("import"))
    <3>1. Proposal \in Good /\ log \in Seq(Entry)
      BY <1>1, ProposalIsGood DEF Typed
    <3>2. DecisionsSeenBy("import") \subseteq DOMAIN log
      BY DEF DecisionsSeenBy
    <3>3. CASE log' = log
      BY <3>3
    <3>4. CASE log' = Append(log, entry)
      BY <1>5, <3>1, <3>2, <3>4, FoldPassesOver
    <3> QED
      BY <1>3, <3>3, <3>4
  <2> QED
    BY <2>2, <2>3 DEF Fold, CommittedFold
<1>12. Typed'
  <2>1. ASSUME NEW r \in Request
        PROVE  /\ request'[r].pc = "idle" =>
                    r \notin alone' /\ \A i \in DOMAIN log' : log'[i].by # r
               /\ InProgress(r)' => \E i \in DOMAIN log' : log'[i].by = r
    <3>1. CASE r = q
      BY <1>4, <1>7, <1>8, <3>1
    <3>2. CASE r # q
      <4>1. request'[r] = request[r] /\ (InProgress(r)' <=> InProgress(r))
        BY <1>1, <1>4, <3>2, OthersStay DEF StepOf
      <4>2. /\ request[r].pc = "idle" => r \notin alone /\ \A i \in DOMAIN log : log[i].by # r
            /\ InProgress(r) => \E i \in DOMAIN log : log[i].by = r
        BY <1>1 DEF Typed
      <4> QED
        BY <1>2, <1>8, <3>2, <4>1, <4>2
    <3> QED
      BY <3>1, <3>2
  <2>2. alone' \subseteq Request
    BY <1>1, <1>2 DEF Typed
  <2> QED
    BY <1>1, <1>2, <1>4, <1>8, <2>1, <2>2 DEF Typed, StepOf, Row
<1>13. RowsOK'
  <2>1. \A t : Committed(t)' <=> Committed(t)
    BY <1>1, <1>4, <1>6, OthersStay DEF Committed
  <2>2. \A r \in Request \ {q} : request'[r] = request[r]
    BY <1>4 DEF StepOf
  <2> QED
    BY <1>2, <2>1, <2>2 DEF IInv, RowsOK
<1>14. ASSUME NEW r \in Request PROVE AloneOK(r)'
  <2> SUFFICES ASSUME r \in alone', InProgress(r)' PROVE AloneOK(r)'
    BY DEF AloneOK
  <2>1. CASE r = q
    <3>1. request'[q].pc = "appended"
      BY <1>7, <2>1
    <3>2. open = {}
      <4>1. q \notin alone
        BY <1>1, <1>2 DEF Typed
      <4> QED
        BY <1>2, <2>1, <4>1
    <3>3. \A p \in Request : InProgress(p)' => p = q
      BY <1>1, <1>4, <3>2, OthersStay
    <3> QED
      BY <2>1, <3>1, <3>3 DEF AloneOK
  <2>2. CASE r # q
    <3>1. InProgress(r)
      BY <1>1, <1>4, <2>2, OthersStay
    <3>2. r \in open /\ open # {}
      BY <3>1
    <3> QED
      BY <1>2, <3>2
  <2> QED
    BY <2>1, <2>2
<1>15. (last # None => Committed(last))' /\ AloneHeals'
  <2>1. last \in alone' => last \in alone
    <3>1. last # q
      BY <1>6, ChainsAssumption DEF IInv
    <3> QED
      BY <1>2, <3>1
  <2>2. Effective' = Effective
    BY <1>10 DEF Effective
  <2> QED
    BY <1>2, <1>4, <1>6, <1>11, <2>1, <2>2, HealsStays
<1> QED
  BY <1>12, <1>13, <1>14, <1>15 DEF IInv

LEMMA NextOK == IInv /\ [Next]_vars => IInv'
<1> SUFFICES ASSUME IInv, [Next]_vars PROVE IInv'
  OBVIOUS
<1>1. ASSUME NEW q \in Request, Rollback(q) PROVE IInv'
  BY <1>1, UndoOK DEF Rollback
<1>2. ASSUME NEW q \in Request, NEW d \in Body[q], AppendDecision(q, d) PROVE IInv'
  <2>1. d \in Decision
    BY DEF Decision
  <2> QED
    BY <1>2, <2>1, AppendDecisionOK
<1>3. CASE UNCHANGED vars
  <2>1. UNCHANGED <<parts, log, rows, request, last, alone>>
    BY <1>3 DEF vars
  <2>2. \A t : (Committed(t)' <=> Committed(t)) /\ (InProgress(t)' <=> InProgress(t))
    BY <2>1 DEF Committed, InProgress
  <2>3. \A x : Visible(x)' = Visible(x) /\ DecisionsSeenBy(x)' = DecisionsSeenBy(x)
    BY <2>1, <2>2 DEF Visible, DecisionsSeenBy, Sees
  <2>4. \A x : Fold(x)' = Fold(x)
    BY <2>1, <2>3, ProposalStays DEF Fold
  <2>5. Typed'
    BY <2>1, <2>2 DEF IInv, Typed, Row
  <2>6. RowsOK'
    BY <2>1, <2>2 DEF IInv, RowsOK
  <2>7. \A r \in Request : AloneOK(r)'
    BY <2>1, <2>2, <2>3, <2>4 DEF IInv, AloneOK
  <2>8. AloneHeals' /\ (last # None => Committed(last))'
    BY <2>1, <2>2, <2>3, <2>4 DEF IInv, AloneHeals, Effective, CommittedFold
  <2> QED
    BY <2>5, <2>6, <2>7, <2>8 DEF IInv
<1> QED
  BY <1>1, <1>2, <1>3, FoldLogOK, DeleteBeginsOK, DeleteEndsOK, InsertOK, CommitOK
     DEF Next, Step

LEMMA AlwaysIInv == Spec => []IInv
BY InitOK, NextOK, PTL DEF Spec

(* For artifacts of any length, the proposal places every part at most      *)
(* once, with the document it belongs to, and the ordinals of a chain       *)
(* number its documents by time (proposeEvidenceV2Chains).                  *)
THEOREM ProposalsPlaceOnce == Spec => []ProposalPlacesOnce
<1>1. IInv => ProposalPlacesOnce
  BY ProposalIsWhole DEF IInv, Typed
<1> QED
  BY <1>1, AlwaysIInv, PTL

(* For logs of any length, in which decisions supersede what they please,   *)
(* no part has two primary memberships and none that a decision put in a    *)
(* chain is shown under the proposed one (deriveEvidenceV2ChainState).      *)
THEOREM MembershipsStayWellFormed == Spec => []MembershipsOK
<1>1. IInv => MembershipsOK
  <2> SUFFICES ASSUME IInv PROVE MembershipsOK
    OBVIOUS
  <2>1. CommittedFold \in Good
    BY FoldIsTyped DEF IInv, CommittedFold
  <2>2. OnePrimary
    BY <2>1 DEF OnePrimary, Good, WellFormed
  <2>3. \A i \in DOMAIN log : log[i] \in Entry
    BY DEF IInv, Typed
  <2>4. TypeOK
    BY <2>3 DEF IInv, Typed, TypeOK, RequestState, Entry
  <2> QED
    BY <2>2, <2>4 DEF MembershipsOK
<1> QED
  BY <1>1, AlwaysIInv, PTL

(* However many appends lost memberships of one another before, one that    *)
(* no other overlapped leaves the fold of the whole log, until the next one *)
(* commits (appendChainDecision).                                           *)
THEOREM AloneAppendsHeal == Spec => []AloneHeals
<1>1. IInv => AloneHeals
  BY DEF IInv
<1> QED
  BY <1>1, AlwaysIInv, PTL

=============================================================================
