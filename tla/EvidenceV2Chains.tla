------------------------- MODULE EvidenceV2Chains -------------------------
(***************************************************************************)
(* The chains of an imported artifact in the Evidence Workbench V2: the    *)
(* proposal (proposeEvidenceV2Chains), the fold of the reviewers'          *)
(* decisions over it (deriveEvidenceV2ChainState), and the transaction     *)
(* that appends a decision and rewrites the effective memberships          *)
(* (appendChainDecision), statement by statement under READ COMMITTED, as  *)
(* concurrent POST requests run it.                                        *)
(*                                                                         *)
(* A chain is named by its subject.  A part is its position.               *)
(***************************************************************************)
EXTENDS Naturals, Sequences, FiniteSets

CONSTANTS
  Subject,   \* what the body of a document names: the key of its chain
  Artifact,  \* bound: the artifacts to consider, each a sequence of Identity
  Request,   \* POST requests, each appending one decision
  Body,      \* bound: the decisions each request may carry
  MaxOpen,   \* bound: how many requests are under way together
  Unknown,   \* the time of a document that names none
  None

Identity ==
  [front : BOOLEAN, subject : Subject \cup {None}, time : Nat \cup {Unknown}]

Part == UNION {1 .. Len(artifact) : artifact \in Artifact}

Decision == UNION {Body[r] : r \in Request}

ASSUME ChainsAssumption ==
  /\ Artifact \subseteq Seq(Identity) /\ IsFiniteSet(Artifact)
  /\ DOMAIN Body = Request
  /\ \A d \in Decision :
       /\ d.action \in {"assign", "unassign", "set-primary"}
       /\ d.part \in Part /\ d.chain \in Subject
       /\ DOMAIN d = {"id", "action", "part", "chain", "supersedes"}
  /\ MaxOpen \in Nat \ {0}
  /\ None \notin Subject \cup Request \cup {"import"} /\ "import" \notin Request
  /\ Unknown \notin Nat

VARIABLES
  parts,    \* the artifact's parts: immutable after the import
  log,      \* chain_decisions in the order of appended_seq; what a transaction
            \* that rolled back had inserted stays and is seen by nobody
  rows,     \* the row versions of effective_memberships
  request,  \* the state of each request
  last,     \* history: the request that committed last
  alone     \* history: the requests no other one overlapped

vars == <<parts, log, rows, request, last, alone>>

Membership ==
  [chain : Subject, part : Part, primary : BOOLEAN,
   origin : {"proposed", "decided"},
   decision : {d.id : d \in Decision} \cup {None}]

-----------------------------------------------------------------------------
(* proposeEvidenceV2Chains() *)

(* The part that opens the document each part belongs to; 0 for a part     *)
(* that is placed nowhere.                                                 *)
Opening ==
  LET open[i \in 0 .. Len(parts)] ==
        CASE i = 0 -> 0
          [] i > 0 /\ parts[i].front -> 0
          [] i > 0 /\ ~parts[i].front /\ parts[i].subject # None -> i
          [] OTHER -> open[i - 1]
  IN open

Documents == {i \in DOMAIN parts : ~parts[i].front /\ parts[i].subject # None}

PartsOf(document) == {i \in DOMAIN parts : Opening[i] = document}

(* Mutant of Before: a document of unknown time comes first. *)
BeforeUnknownFirst(d, e) ==
  \/ parts[d].time = Unknown /\ parts[e].time # Unknown
  \/ parts[d].time # Unknown /\ parts[e].time # Unknown
     /\ parts[d].time < parts[e].time
  \/ parts[d].time = parts[e].time /\ d < e

(* buildChains() sorts the documents of a chain by time, the unknown last, *)
(* and then by the part that opens them.                                   *)
Before(d, e) ==
  \/ parts[d].time # Unknown /\ parts[e].time = Unknown
  \/ parts[d].time # Unknown /\ parts[e].time # Unknown
     /\ parts[d].time < parts[e].time
  \/ parts[d].time = parts[e].time /\ d < e

Ordinal(document) ==
  Cardinality({d \in Documents : parts[d].subject = parts[document].subject
                                 /\ ~Before(document, d)})

Proposal ==
  {[chain |-> parts[Opening[i]].subject, part |-> i, primary |-> TRUE,
    origin |-> "proposed", decision |-> None]
     : i \in {j \in DOMAIN parts : Opening[j] # 0}}

-----------------------------------------------------------------------------
(* deriveEvidenceV2ChainState() *)

Decided(d, primary) ==
  [chain |-> d.chain, part |-> d.part, primary |-> primary,
   origin |-> "decided", decision |-> d.id]

Demoted(memberships) == {[m EXCEPT !.primary = FALSE] : m \in memberships}

Own(memberships, d) ==
  {m \in memberships : m.part = d.part /\ m.chain = d.chain}

Others(memberships, d) ==
  {m \in memberships : m.part = d.part /\ m.chain # d.chain}

Conflicting(memberships, d) ==
  {m \in Others(memberships, d) :
     m.primary /\ m.origin = "decided" /\ m.decision # d.supersedes}

(* Only an assignment discards, and only what was proposed. *)
Discarded(memberships, d) ==
  {m \in Others(memberships, d) : d.action = "assign" /\ m.origin = "proposed"}

(* Mutant of Place: the latest claim wins a conflict. *)
PlaceLatest(memberships, d) ==
  LET conflicting == Conflicting(memberships, d) IN
  CASE d.action = "unassign" -> memberships \ Own(memberships, d)
    [] d.action # "unassign" /\ conflicting # {} ->
       (memberships \ Own(memberships, d)) \cup {Decided(d, TRUE)}
    [] OTHER ->
       (memberships \ (Own(memberships, d) \cup Others(memberships, d)))
       \cup Demoted(Others(memberships, d) \ Discarded(memberships, d))
       \cup {Decided(d, TRUE)}

Place(memberships, d) ==
  LET conflicting == Conflicting(memberships, d)
      others == Others(memberships, d)
  IN
  CASE d.action = "unassign" -> memberships \ Own(memberships, d)
    [] d.action # "unassign" /\ conflicting # {} ->
       (memberships \ (Own(memberships, d) \cup conflicting))
       \cup Demoted(conflicting) \cup {Decided(d, FALSE)}
    [] OTHER ->
       (memberships \ (Own(memberships, d) \cup others))
       \cup Demoted(others \ Discarded(memberships, d))
       \cup {Decided(d, TRUE)}

(* The decisions at the positions in seen are placed one after the other.  *)
FoldOver(proposal, decisions, seen) ==
  LET fold[i \in 0 .. Len(decisions)] ==
        IF i = 0 THEN proposal
        ELSE IF i \in seen THEN Place(fold[i - 1], decisions[i].decision)
        ELSE fold[i - 1]
  IN fold[Len(decisions)]

-----------------------------------------------------------------------------
(* The store *)

InProgress(t) ==
  t \in Request
  /\ request[t].pc \in {"appended", "folded", "deleting", "deleted", "inserted"}

Committed(t) ==
  \/ t = "import"
  \/ t \in Request /\ request[t].pc = "committed"

Sees(r, t) == t = r \/ Committed(t)

(* The row versions a statement of r starts from. *)
Visible(r) == {row \in rows : Sees(r, row.by) /\ ~Sees(r, row.deleted)}

DecisionsSeenBy(r) == {i \in DOMAIN log : Sees(r, log[i].by)}

Fold(r) == FoldOver(Proposal, log, DecisionsSeenBy(r))

(* What any later request reads, and what it would fold. *)
CommittedFold == Fold("import")

Effective == {row.membership : row \in Visible("import")}

Key(m) == <<m.chain, m.part>>

Idle == [pc |-> "idle", fold |-> {}, target |-> {}]

Row == [membership : Membership, by : Request \cup {"import"},
        deleted : Request \cup {None}]

TypeOK ==
  /\ parts \in Artifact
  /\ \A i \in DOMAIN log : log[i].decision \in Decision /\ log[i].by \in Request
  /\ rows \subseteq Row
  /\ \A r \in Request :
       /\ request[r].pc \in {"idle", "appended", "folded", "deleting", "deleted",
                             "inserted", "committed", "refused"}
       /\ request[r].fold \subseteq Membership
       /\ request[r].target \subseteq Row
       /\ request[r].pc = "idle" => \A i \in DOMAIN log : log[i].by # r
       /\ InProgress(r) => \E i \in DOMAIN log : log[i].by = r
  /\ last \in Request \cup {None}
  /\ alone \subseteq Request

(* writeImport() stores the proposal twice. *)
Init ==
  /\ parts \in Artifact
  /\ log = << >>
  /\ rows = {[membership |-> m, by |-> "import", deleted |-> None]
               : m \in Proposal}
  /\ request = [r \in Request |-> Idle]
  /\ last = None
  /\ alone = {}

Goto(r, next) == request' = [request EXCEPT ![r].pc = next]

(* ROLLBACK leaves nothing that anybody sees. *)
Undo(r) ==
  /\ rows' = {[row EXCEPT !.deleted = IF @ = r THEN None ELSE @]
                : row \in {x \in rows : x.by # r}}
  /\ request' = [request EXCEPT ![r] = [Idle EXCEPT !.pc = "refused"]]

(* INSERT of the decision: it waits for another insert of the same id, and *)
(* fails when that one has committed.                                      *)
AppendDecision(r, d) ==
  LET open == {q \in Request : InProgress(q)}
      same == {q \in Request :
                 /\ q \in open \/ Committed(q)
                 /\ \E i \in DOMAIN log :
                      log[i].by = q /\ log[i].decision.id = d.id}
  IN
  /\ request[r].pc = "idle"
  /\ Cardinality(open) < MaxOpen
  /\ same \cap open = {}
  /\ IF same = {}
     THEN /\ log' = Append(log, [decision |-> d, by |-> r])
          /\ Goto(r, "appended")
     ELSE /\ Goto(r, "refused")
          /\ UNCHANGED log
  /\ alone' = IF open = {} THEN alone \cup {r} ELSE alone \ open
  /\ UNCHANGED <<parts, rows, last>>

(* Mutant of FoldLog: the decision is folded over the memberships as they  *)
(* are, not the log over the proposal.                                     *)
FoldLogOnTop(r) ==
  /\ request[r].pc = "appended"
  /\ request' = [request EXCEPT
                  ![r].pc = "folded",
                  ![r].fold =
                    LET own == CHOOSE i \in DOMAIN log : log[i].by = r
                    IN Place({row.membership : row \in Visible(r)}, log[own].decision)]
  /\ UNCHANGED <<parts, log, rows, last, alone>>

(* The decisions and the proposal are read and folded. *)
FoldLog(r) ==
  /\ request[r].pc = "appended"
  /\ request' = [request EXCEPT ![r].pc = "folded",
                                ![r].fold = Fold(r)]
  /\ UNCHANGED <<parts, log, rows, last, alone>>

(* DELETE takes its snapshot, waits for every transaction that is deleting *)
(* a row of it, and passes over the rows such a transaction did delete:    *)
(* what that transaction inserted is not in the snapshot.                  *)
DeleteBegins(r) ==
  /\ request[r].pc = "folded"
  /\ request' = [request EXCEPT ![r].pc = "deleting", ![r].target = Visible(r)]
  /\ UNCHANGED <<parts, log, rows, last, alone>>

DeleteEnds(r) ==
  LET found == {row \in rows : \E old \in request[r].target :
                  old.by = row.by /\ old.membership = row.membership}
  IN
  /\ request[r].pc = "deleting"
  /\ \A row \in found : ~InProgress(row.deleted)
  /\ rows' = {IF row \in found /\ row.deleted = None
              THEN [row EXCEPT !.deleted = r] ELSE row : row \in rows}
  /\ request' = [request EXCEPT ![r].pc = "deleted", ![r].target = {}]
  /\ UNCHANGED <<parts, log, last, alone>>

(* The rows of others whose key is that of a row to insert. *)
Rivals(r) ==
  {row \in rows : row.by # r /\ \E m \in request[r].fold :
                                  Key(m) = Key(row.membership)}

(* Mutant of Insert: it waits for a row of the same key to go away. *)
InsertWaits(r) ==
  /\ request[r].pc = "deleted"
  /\ \A row \in Rivals(r) : row.deleted = r \/ Committed(row.deleted)
  /\ rows' = rows \cup {[membership |-> m, by |-> r, deleted |-> None]
                          : m \in request[r].fold}
  /\ Goto(r, "inserted")
  /\ UNCHANGED <<parts, log, last, alone>>

(* The primary key is checked against every transaction, and the check     *)
(* waits for those under way.                                              *)
Insert(r) ==
  /\ request[r].pc = "deleted"
  /\ \A row \in Rivals(r) : ~InProgress(row.by)
                            /\ (row.deleted = r \/ ~InProgress(row.deleted))
  /\ IF \E row \in Rivals(r) : row.deleted = None
     THEN Undo(r)
     ELSE /\ rows' = rows \cup {[membership |-> m, by |-> r, deleted |-> None]
                                  : m \in request[r].fold}
          /\ Goto(r, "inserted")
  /\ UNCHANGED <<parts, log, last, alone>>

Commit(r) ==
  /\ request[r].pc = "inserted"
  /\ request' = [request EXCEPT ![r] = [Idle EXCEPT !.pc = "committed"]]
  /\ rows' = {row \in rows : row.deleted # r}
  /\ last' = r
  /\ UNCHANGED <<parts, log, alone>>

(* A timeout, a lost connection, a crash of the service. *)
Rollback(r) ==
  /\ InProgress(r)
  /\ Undo(r)
  /\ UNCHANGED <<parts, log, last, alone>>

Step(r) ==
  FoldLog(r) \/ DeleteBegins(r) \/ DeleteEnds(r) \/ Insert(r) \/ Commit(r)

Next ==
  \E r \in Request :
    Step(r) \/ Rollback(r) \/ \E d \in Body[r] : AppendDecision(r, d)

Spec == Init /\ [][Next]_vars

FairSpec == Spec /\ \A r \in Request : WF_vars(Step(r))

-----------------------------------------------------------------------------
(***************************************************************************)
(* Properties.                                                             *)
(***************************************************************************)

(* The proposal places every part at most once: with the document it       *)
(* belongs to, whose parts follow one another from the one that names a    *)
(* subject; and the ordinals of a chain number its documents by time.      *)
ProposalPlacesOnce ==
  /\ \A i \in DOMAIN parts :
       /\ Cardinality({m \in Proposal : m.part = i}) <= 1
       /\ parts[i].front => Opening[i] = 0
  /\ \A d \in Documents : \A i \in PartsOf(d) : d .. i \subseteq PartsOf(d)
  /\ \A d, e \in Documents :
       parts[d].subject = parts[e].subject /\ d # e =>
         /\ Ordinal(d) # Ordinal(e)
         /\ Ordinal(d) < Ordinal(e) =>
              \/ parts[e].time = Unknown
              \/ parts[d].time # Unknown /\ parts[d].time <= parts[e].time

(* However decisions follow one another, superseding what they please, no  *)
(* part has two primary memberships ("exactly one membership is marked     *)
(* primary"), and a part that a decision put in a chain is not shown under *)
(* the proposed one ("a decision always beats a proposal").                *)
OnePrimary ==
  \A m, n \in CommittedFold :
    m.part = n.part /\ m.primary /\ m # n =>
      /\ ~n.primary
      /\ m.origin = "decided" \/ n.origin = "proposed"

(* The folded memberships are well formed, whatever the log.               *)
MembershipsOK == TypeOK /\ OnePrimary

(* An append that no other one overlapped leaves the fold of the whole     *)
(* log, whatever the appends before it lost.                               *)
AloneHeals ==
  last # None /\ last \in alone => Effective = CommittedFold

(* No append waits for ever for the locks of another. *)
EveryAppendEnds == []<>(\A r \in Request : ~InProgress(r))

(* "readEffectiveMemberships returns the fold of the stored proposal and   *)
(* the appended decisions" (EvidenceV2Repository, evidence-v2-contracts).  *)
EffectiveIsFold ==
  (\A r \in Request : ~InProgress(r)) => Effective = CommittedFold
=============================================================================
