------------------------- MODULE EvidenceV2Review -------------------------
(***************************************************************************)
(* Review in the Evidence Workbench V2: the append-only logs of decisions  *)
(* on occurrences, claims and relations, the standing and the completion   *)
(* folded from them, and the comparison of a reviewed instance with the    *)
(* earlier ones of its chain (app.ts, compare.ts, repository.ts, review.ts *)
(* of apps/evidence-workbench-v2-api and its packages).                    *)
(*                                                                         *)
(* Every await of a handler is a point where other requests, or a run of   *)
(* extraction, may write.  The three decision tables are one log here: a   *)
(* decision names its subject, and no two tables share one.                *)
(***************************************************************************)
EXTENDS Naturals, Sequences, FiniteSets, FiniteSetsExt

CONSTANTS
  Occurrence,  \* in the order in which an instance lists them
  Authored,    \* those that only a reviewer writes
  Instance,    \* by ordinal within their chain
  InstanceOf,  \* the instance an occurrence belongs to
  Request,
  Operation,   \* bound: what each request may ask for
  PageLimit,   \* the occurrences a review looks at (100 in the code)
  MaxClock,    \* bound: how far the clock goes on
  MaxCrashes,  \* bound: how many requests die
  None

ASSUME ReviewAssumption ==
  /\ Occurrence \subseteq Nat /\ Instance \subseteq Nat
  /\ Authored \subseteq Occurrence
  /\ InstanceOf \in [Occurrence -> Instance]
  /\ DOMAIN Operation = Request
  /\ PageLimit \in Nat /\ MaxClock \in Nat /\ MaxCrashes \in Nat
  /\ None \notin Nat \cup {"reviewed"}

ReviewAction == {"accept", "reject", "revise"}

(* What the requests name exists, and the actions are those of the schemas. *)
ASSUME OperationAssumption ==
  \A r \in Request : \A op \in Operation[r] :
    /\ op # None
    /\ op.kind \in {"page", "compare"} => op.instance \in Instance
    /\ op.kind = "author" => op.occurrence \in Authored
    /\ op.kind \in {"review", "review-relation"} => op.action \in ReviewAction
    /\ op.kind = "group" => op.action \in {"include", "exclude"}

VARIABLES
  occurrences,  \* occurrences
  extracted,    \* the instances with a committed row in extraction_windows
  log,          \* review_decisions, claim_groupings and relation_reviews
  claims,
  relations,
  compared,     \* the comparison_windows rows
  executed,     \* the engine: what each comparison it settled came to
  clock,
  request,
  crashes,
  overlapped    \* history: a request began while another one was under way

store == <<occurrences, extracted, log, claims, relations, compared, executed>>

vars == <<store, clock, request, crashes, overlapped>>

-----------------------------------------------------------------------------
(* The folds *)

On(subject) == {n \in DOMAIN log : log[n].subject = subject}

(* deriveEvidenceV2Standings(), deriveEvidenceV2RelationStandings() and    *)
(* deriveEvidenceV2ClaimMemberships(): the latest decision on the subject. *)
Standing(subject) ==
  IF On(subject) = {} THEN "pending" ELSE log[Max(On(subject))].action

Of(o) == <<"occurrence", o>>
Member(claim, o) == <<"member", claim, o>>
Relation(id) == <<"relation", id>>

Pending(set) == {o \in set : Standing(Of(o)) = "pending"}

Accepted(set) == {o \in set : Standing(Of(o)) = "accept"}

Held(i) == {o \in occurrences : InstanceOf[o] = i}

(* What the decisions of each table are about. *)
Subjects(table) ==
  CASE table = "occurrence" -> {Of(o) : o \in occurrences}
    [] table = "member" -> {Member(c, o) : c \in claims, o \in occurrences}
    [] table = "relation" -> {Relation(rel.id) : rel \in relations}

(* Mutant of Latest: the first decision on each subject. *)
First(table) ==
  {[subject |-> log[n].subject, action |-> log[n].action] :
     n \in {m \in DOMAIN log :
             /\ log[m].subject[1] = table
             /\ \A k \in DOMAIN log : k < m => log[k].subject # log[m].subject}}

(* SELECT DISTINCT ON ... ORDER BY ... appended_seq DESC *)
Latest(table) ==
  {[subject |-> log[n].subject, action |-> log[n].action] :
     n \in {m \in DOMAIN log :
             /\ log[m].subject[1] = table
             /\ \A k \in DOMAIN log : k > m => log[k].subject # log[m].subject}}

Counted ==
  {<<"occurrence", action>> : action \in ReviewAction}
    \cup {<<"member", "include">>, <<"relation", "accept">>, <<"relation", "reject">>}

(* readCaseOverview(): one statement over the tables. *)
Overview ==
  [total |-> Cardinality(occurrences),
   pending |-> [table \in {"occurrence", "relation"} |->
                  Cardinality({s \in Subjects(table) : On(s) = {}})],
   counts |-> [c \in Counted |->
                 Cardinality({d \in Latest(c[1]) : d.action = c[2]})],
   awaiting |-> Cardinality({i \in extracted : \E o \in Held(i) : On(Of(o)) = {}})]

-----------------------------------------------------------------------------

Pair == {p \in Occurrence \X Occurrence : InstanceOf[p[1]] > InstanceOf[p[2]]}

(* The id of a decision is derived from its content and the clock. *)
Id(subject, action, principal, at) == <<subject, action, principal, at>>

NoWork == [pc |-> "idle", op |-> None, subject |-> None, previous |-> None,
           at |-> 0, listed |-> {}, judged |-> {}, extracted |-> FALSE,
           priors |-> << >>, todo |-> {}, answer |-> None]

Ended == {"done", "not-found", "crashed"}

Underway(r) == request[r].pc \notin Ended \cup {"idle"}

TypeOK ==
  /\ occurrences \subseteq Occurrence /\ extracted \subseteq Instance
  /\ \A n \in DOMAIN log :
       /\ DOMAIN log[n] = {"id", "subject", "action", "supersedes"}
       /\ \A m \in DOMAIN log : log[m].id = log[n].id => m = n
  /\ \A rel \in relations :
       /\ DOMAIN rel = {"id", "from", "to", "provenance"}
       /\ \A other \in relations : other.id = rel.id => other = rel
  /\ \A w \in DOMAIN compared : compared[w] \in {"committed", "failed"}
  /\ clock \in 0 .. MaxClock /\ crashes \in 0 .. MaxCrashes
  /\ \A r \in Request :
       /\ request[r].op \in Operation[r] \cup {None}
       /\ Underway(r) <=> request[r].op # None
  /\ overlapped \in BOOLEAN

Init ==
  /\ occurrences = {}
  /\ extracted = {}
  /\ log = << >>
  /\ claims = {}
  /\ relations = {}
  /\ compared = << >>
  /\ executed = << >>
  /\ clock = 0
  /\ request = [r \in Request |-> NoWork]
  /\ crashes = 0
  /\ overlapped = FALSE

At(r, pc, kind) == request[r].pc = pc /\ request[r].op.kind = kind

Goto(r, next) == request' = [request EXCEPT ![r].pc = next]

End(r, pc, answer) ==
  request' = [request EXCEPT ![r] = [NoWork EXCEPT !.pc = pc, !.answer = answer]]

Answer(r, answer) == End(r, "done", answer)

Begin(r) ==
  /\ request[r].pc = "idle"
  /\ \E op \in Operation[r] :
       request' = [request EXCEPT ![r].pc = "begin", ![r].op = op]
  /\ overlapped' = (overlapped \/ \E q \in Request : Underway(q))
  /\ UNCHANGED <<store, clock, crashes>>

(* The clock is looked at: any time may have passed. *)
TimePasses == clock' \in clock .. MaxClock

-----------------------------------------------------------------------------
(* Decisions *)

(* The occurrences a review of instance i may be about. *)
FirstPage(i) ==
  {o \in Held(i) : Cardinality({p \in Held(i) : p < o}) < PageLimit}

Reading(r, found, subject) ==
  IF found
  THEN request' = [request EXCEPT ![r].pc = "history", ![r].subject = subject]
  ELSE End(r, "not-found", None)

(* POST reviews *)
CheckReview(r) ==
  LET op == request[r].op IN
  /\ At(r, "begin", "review")
  /\ Reading(r, op.occurrence \in FirstPage(op.instance), Of(op.occurrence))
  /\ UNCHANGED <<store, clock, crashes, overlapped>>

(* POST claims/:id *)
CheckGrouping(r) ==
  LET o == request[r].op.occurrence IN
  /\ At(r, "begin", "group")
  /\ \E claim \in claims : Reading(r, o \in occurrences, Member(claim, o))
  /\ UNCHANGED <<store, clock, crashes, overlapped>>

(* POST relations/:id *)
CheckRelationReview(r) ==
  /\ At(r, "begin", "review-relation")
  /\ \E rel \in relations : Reading(r, TRUE, Relation(rel.id))
  /\ UNCHANGED <<store, clock, crashes, overlapped>>

(* Mutant of ReadHistory: the latest decision of the table. *)
ReadHistoryOfTable(r) ==
  LET history == {n \in DOMAIN log : log[n].subject[1] = request[r].subject[1]} IN
  /\ request[r].pc = "history"
  /\ TimePasses
  /\ request' = [request EXCEPT
       ![r].pc = "append",
       ![r].previous = IF history = {} THEN None ELSE log[Max(history)].id,
       ![r].at = clock']
  /\ UNCHANGED <<store, crashes, overlapped>>

(* Mutant of ReadHistory: the first decision, not the latest. *)
ReadHistoryFirst(r) ==
  LET history == On(request[r].subject) IN
  /\ request[r].pc = "history"
  /\ TimePasses
  /\ request' = [request EXCEPT
       ![r].pc = "append",
       ![r].previous = IF history = {} THEN None ELSE log[Min(history)].id,
       ![r].at = clock']
  /\ UNCHANGED <<store, crashes, overlapped>>

(* What the decision supersedes is read from the log; then the clock is.   *)
ReadHistory(r) ==
  LET history == On(request[r].subject) IN
  /\ request[r].pc = "history"
  /\ TimePasses
  /\ request' = [request EXCEPT
       ![r].pc = "append",
       ![r].previous = IF history = {} THEN None ELSE log[Max(history)].id,
       ![r].at = clock']
  /\ UNCHANGED <<store, crashes, overlapped>>

(* A reviewer who writes an occurrence or a relation has accepted it. *)
ActionOf(op) == IF op.kind \in {"author", "relate"} THEN "accept" ELSE op.action

(* An occurrence that a reviewer writes is accepted under the id of a      *)
(* decision on its unit.                                                   *)
IdOf(r) ==
  LET work == request[r] IN
  Id(IF work.op.kind = "author" THEN <<"unit", work.op.occurrence>>
     ELSE work.subject,
     ActionOf(work.op), work.op.principal, work.at)

(* INSERT ... ON CONFLICT DO NOTHING *)
AppendDecision(r) ==
  /\ request[r].pc = "append"
  /\ log' = IF \E n \in DOMAIN log : log[n].id = IdOf(r) THEN log
            ELSE Append(log, [id |-> IdOf(r), subject |-> request[r].subject,
                              action |-> ActionOf(request[r].op),
                              supersedes |-> request[r].previous])
  /\ End(r, "done", None)
  /\ UNCHANGED <<occurrences, extracted, claims, relations, compared, executed,
                 clock, crashes, overlapped>>

(* Mutant of PutOccurrence: the decision comes first. *)
PutOccurrenceAfter(r) ==
  LET o == request[r].op.occurrence
      id == Id(<<"unit", o>>, "accept", request[r].op.principal, clock')
  IN
  /\ At(r, "begin", "author")
  /\ TimePasses
  /\ log' = Append(log, [id |-> id, subject |-> Of(o), action |-> "accept",
                         supersedes |-> None])
  /\ End(r, "done", None)
  /\ UNCHANGED <<occurrences, extracted, claims, relations, compared, executed,
                 crashes, overlapped>>

(* POST occurrences: the occurrence is written, and then accepted.  The    *)
(* acceptance supersedes nothing, whatever was decided before.             *)
PutOccurrence(r) ==
  LET o == request[r].op.occurrence IN
  /\ At(r, "begin", "author")
  /\ TimePasses
  /\ occurrences' = occurrences \cup {o}
  /\ request' = [request EXCEPT ![r].pc = "append", ![r].subject = Of(o),
                                ![r].at = clock']
  /\ UNCHANGED <<extracted, log, claims, relations, compared, executed,
                 crashes, overlapped>>

(* POST claims *)
CreateClaim(r) ==
  /\ At(r, "begin", "claim")
  /\ TimePasses
  /\ claims' = claims \cup {<<request[r].op.label, clock'>>}
  /\ End(r, "done", None)
  /\ UNCHANGED <<occurrences, extracted, log, relations, compared, executed,
                 crashes, overlapped>>

(* createRelation(): ON CONFLICT DO NOTHING *)
WithRelation(rel) ==
  IF \E held \in relations : held.id = rel.id THEN relations
  ELSE relations \cup {rel}

(* POST relations: the relation is written, and then accepted. *)
CreateRelation(r) ==
  LET op == request[r].op
      id == <<op.from, op.to, clock'>>
  IN
  /\ At(r, "begin", "relate")
  /\ TimePasses
  /\ IF {op.from, op.to} \subseteq occurrences
     THEN /\ relations' = WithRelation([id |-> id, from |-> op.from, to |-> op.to,
                                        provenance |-> "reviewer-authored"])
          /\ request' = [request EXCEPT ![r].pc = "append",
                                        ![r].subject = Relation(id),
                                        ![r].at = clock']
     ELSE End(r, "not-found", None) /\ UNCHANGED relations
  /\ UNCHANGED <<occurrences, extracted, log, claims, compared, executed,
                 crashes, overlapped>>

-----------------------------------------------------------------------------
(* The completion of an instance: GET reviews, and the instance page.      *)
(* Its occurrences are listed, then its decisions and its windows are read *)
(* and then its occurrences once more, all of them.                        *)

Judged(set) == {o \in set : Standing(Of(o)) # "pending"}

PageList(r) ==
  /\ At(r, "begin", "page")
  /\ request' = [request EXCEPT ![r].pc = "decisions",
                                ![r].listed = FirstPage(request[r].op.instance)]
  /\ UNCHANGED <<store, clock, crashes, overlapped>>

ReadDecisions(r) ==
  /\ request[r].pc = "decisions"
  /\ request' = [request EXCEPT ![r].pc = "windows",
                                ![r].judged = Judged(Occurrence)]
  /\ UNCHANGED <<store, clock, crashes, overlapped>>

(* deriveEvidenceV2InstanceCompletion() *)
Completion(isExtracted, set, judged) ==
  CASE ~isExtracted -> "not-extracted"
    [] isExtracted /\ ~(set \subseteq judged) -> "pending-review"
    [] OTHER -> "reviewed"

PageWindows(r) ==
  /\ At(r, "windows", "page")
  /\ request' = [request EXCEPT
       ![r].pc = "occurrences",
       ![r].extracted = request[r].op.instance \in extracted]
  /\ UNCHANGED <<store, clock, crashes, overlapped>>

(* Mutant of PageOccurrences: the completion of what the page lists. *)
PageOccurrencesListed(r) ==
  /\ request[r].pc = "occurrences"
  /\ Answer(r, Completion(request[r].extracted, request[r].listed,
                          request[r].judged))
  /\ UNCHANGED <<store, clock, crashes, overlapped>>

PageOccurrences(r) ==
  /\ request[r].pc = "occurrences"
  /\ Answer(r, Completion(request[r].extracted, Held(request[r].op.instance),
                          request[r].judged))
  /\ UNCHANGED <<store, clock, crashes, overlapped>>

-----------------------------------------------------------------------------
(* Comparison: planFor() and run() of compare.ts.  A window compares what  *)
(* is accepted of an instance with what is accepted of an earlier one; its *)
(* id is derived from the two sets.                                        *)

CompareList(r) ==
  /\ At(r, "begin", "compare")
  /\ request' = [request EXCEPT ![r].pc = "decisions",
                                ![r].listed = Held(request[r].op.instance)]
  /\ UNCHANGED <<store, clock, crashes, overlapped>>

CompareWindows(r) ==
  LET answer == Completion(request[r].op.instance \in extracted,
                           request[r].listed, request[r].judged)
  IN
  /\ At(r, "windows", "compare")
  /\ IF answer = "reviewed" THEN Goto(r, "priors") ELSE Answer(r, answer)
  /\ UNCHANGED <<store, clock, crashes, overlapped>>

Earlier(i) == {j \in Instance : j < i}

With(f, w, value) ==
  [x \in DOMAIN f \cup {w} |-> IF x = w THEN value ELSE f[x]]

(* Mutant of AcceptedOf: whatever the instance holds. *)
AcceptedOfHeld(i) == Held(i)

(* acceptedOf(): the occurrences are listed, then the decisions are read;  *)
(* one step, for an occurrence that comes between is only missed.          *)
AcceptedOf(i) == Accepted(Held(i))

ReadPriors(r) ==
  /\ request[r].pc = "priors"
  /\ request' = [request EXCEPT
       ![r].pc = "current",
       ![r].priors = [j \in Earlier(request[r].op.instance) |-> AcceptedOf(j)]]
  /\ UNCHANGED <<store, clock, crashes, overlapped>>

ReadCurrent(r) ==
  LET i == request[r].op.instance
      windows == {<<i, j, AcceptedOf(i), request[r].priors[j]>>
                    : j \in {k \in Earlier(i) : request[r].priors[k] # {}}}
  IN
  /\ request[r].pc = "current"
  /\ IF AcceptedOf(i) = {} \/ windows = {}
     THEN Answer(r, "no-prior-accepted")
     ELSE request' = [request EXCEPT
            ![r].pc = "execute",
            ![r].todo = {w \in windows : ~(w \in DOMAIN compared
                                           /\ compared[w] = "committed")}]
  /\ UNCHANGED <<store, clock, crashes, overlapped>>

(* The windows are taken by the ordinal of the earlier instance. *)
NextWindow(r) ==
  CHOOSE w \in request[r].todo : \A x \in request[r].todo : w[2] <= x[2]

(* The engine settles an execution once and repeats what it came to, or    *)
(* refuses a request that differs from the one it holds under the key.     *)
Execute(r) ==
  LET w == NextWindow(r) IN
  /\ request[r].pc = "execute" /\ request[r].todo # {}
  /\ IF w \in DOMAIN executed THEN UNCHANGED executed
     ELSE \E outcome \in {None} \cup SUBSET (w[3] \X w[4]) :
            executed' = With(executed, w, outcome)
  /\ \/ (w \in DOMAIN executed \/ executed'[w] = None) /\ Goto(r, "failed")
     \/ executed'[w] # None /\ Goto(r, "relations")
  /\ UNCHANGED <<occurrences, extracted, log, claims, relations, compared, clock,
                 crashes, overlapped>>

Proposal(w, pair) ==
  [id |-> <<w, pair>>, from |-> pair[1], to |-> pair[2],
   provenance |-> "model-proposed"]

Proposals(w) == {Proposal(w, pair) : pair \in executed[w]}

(* One createRelation() at a time. *)
Propose(r) ==
  LET w == NextWindow(r) IN
  /\ request[r].pc = "relations"
  /\ \E rel \in Proposals(w) \ relations : relations' = WithRelation(rel)
  /\ UNCHANGED <<occurrences, extracted, log, claims, compared, executed, clock,
                 request, crashes, overlapped>>

(* putComparisonWindow() replaces the row. *)
Row(w, status) == With(compared, w, status)

(* Mutant of RecordComparison: the window is recorded first. *)
RecordComparisonFirst(r) ==
  LET w == NextWindow(r) IN
  /\ request[r].pc = "relations"
  /\ compared' = Row(w, "committed")
  /\ IF Proposals(w) \subseteq relations
     THEN request' = [request EXCEPT ![r].pc = "execute", ![r].todo = @ \ {w}]
     ELSE UNCHANGED request
  /\ UNCHANGED <<occurrences, extracted, log, claims, relations, executed, clock,
                 crashes, overlapped>>

RecordComparison(r) ==
  LET w == NextWindow(r) IN
  /\ request[r].pc = "relations"
  /\ Proposals(w) \subseteq relations
  /\ compared' = Row(w, "committed")
  /\ request' = [request EXCEPT ![r].pc = "execute", ![r].todo = @ \ {w}]
  /\ UNCHANGED <<occurrences, extracted, log, claims, relations, executed, clock,
                 crashes, overlapped>>

RecordFailure(r) ==
  /\ request[r].pc = "failed"
  /\ compared' = Row(NextWindow(r), "failed")
  /\ Answer(r, "failed")
  /\ UNCHANGED <<occurrences, extracted, log, claims, relations, executed, clock,
                 crashes, overlapped>>

Complete(r) ==
  /\ request[r].pc = "execute" /\ request[r].todo = {}
  /\ Answer(r, "complete")
  /\ UNCHANGED <<store, clock, crashes, overlapped>>

-----------------------------------------------------------------------------
(* A run of extraction projects a window, and then records it: see         *)
(* EvidenceV2Extraction.                                                   *)

Extract ==
  /\ \/ /\ \E o \in Occurrence \ (Authored \cup occurrences) :
             occurrences' = occurrences \cup {o}
        /\ UNCHANGED extracted
     \/ /\ \E i \in Instance \ extracted : extracted' = extracted \cup {i}
        /\ UNCHANGED occurrences
  /\ UNCHANGED <<log, claims, relations, compared, executed, clock, request,
                 crashes, overlapped>>

Crash(r) ==
  /\ Underway(r)
  /\ crashes < MaxCrashes
  /\ crashes' = crashes + 1
  /\ End(r, "crashed", None)
  /\ UNCHANGED <<store, clock, overlapped>>

Decide(r) ==
  \/ CheckReview(r) \/ CheckGrouping(r) \/ CheckRelationReview(r)
  \/ ReadHistory(r) \/ AppendDecision(r)
  \/ PutOccurrence(r) \/ CreateClaim(r) \/ CreateRelation(r)

Page(r) ==
  PageList(r) \/ ReadDecisions(r) \/ PageWindows(r) \/ PageOccurrences(r)

Compare(r) ==
  \/ CompareList(r) \/ CompareWindows(r) \/ ReadPriors(r) \/ ReadCurrent(r)
  \/ Execute(r) \/ Propose(r) \/ RecordComparison(r) \/ RecordFailure(r)
  \/ Complete(r)

Next ==
  \/ \E r \in Request : Begin(r) \/ Decide(r) \/ Page(r) \/ Compare(r) \/ Crash(r)
  \/ Extract

Spec == Init /\ [][Next]_vars

-----------------------------------------------------------------------------
(***************************************************************************)
(* Properties.                                                             *)
(***************************************************************************)

(* What the overview counts in the tables is what the folds of the logs    *)
(* say, at every moment: of the occurrences, memberships and relations     *)
(* that stand one way or another and of the instances that wait for a      *)
(* review; and the standings of the occurrences add up.                    *)
OverviewAgrees ==
  /\ \A c \in Counted :
       Overview.counts[c] = Cardinality({s \in Subjects(c[1]) : Standing(s) = c[2]})
  /\ \A table \in {"occurrence", "relation"} :
       Overview.pending[table] =
         Cardinality({s \in Subjects(table) : Standing(s) = "pending"})
  /\ Overview.awaiting =
       Cardinality({i \in Instance : Completion(i \in extracted, Held(i),
                                               Judged(Occurrence)) = "pending-review"})
  /\ Overview.total =
       Overview.pending["occurrence"] + Overview.counts[<<"occurrence", "accept">>]
         + Overview.counts[<<"occurrence", "reject">>]
         + Overview.counts[<<"occurrence", "revise">>]

(* "A client cannot claim to replace a decision that does not exist": what *)
(* a decision supersedes came before it and was about the same subject,    *)
(* whatever the requests overlap.                                          *)
SupersedesEarlier ==
  \A n \in DOMAIN log : log[n].supersedes # None =>
    \E m \in 1 .. n - 1 : /\ log[m].id = log[n].supersedes
                          /\ log[m].subject = log[n].subject

(* The acceptance that comes with an occurrence or a relation that a        *)
(* reviewer wrote.  The id of a relation has the time of its writing.       *)
ByAuthor(d) ==
  /\ d.action = "accept"
  /\ \/ d.id[1] # d.subject
     \/ \E p \in Occurrence \X Occurrence : d.subject = Relation(<<p[1], p[2], d.id[4]>>)

(* While requests follow one another, every review supersedes the decision *)
(* just before it on its subject; who accepts what he wrote supersedes     *)
(* nothing.                                                                *)
ReviewsFormAChain ==
  ~overlapped =>
    \A n \in DOMAIN log :
      LET before == {m \in On(log[n].subject) : m < n} IN
      IF before = {} THEN log[n].supersedes = None
      ELSE \/ log[n].supersedes = log[Max(before)].id
           \/ ByAuthor(log[n]) /\ log[n].supersedes = None

(* The decisions form a log that can be read back: who replaced what.      *)
DecisionsFormALog == TypeOK /\ SupersedesEarlier /\ ReviewsFormAChain

(* An instance that is reported reviewed is reviewed when the answer is    *)
(* given, for all its reads come before the last one.                      *)
ReviewedIsTrue ==
  [][\A r \in Request :
       request[r].pc = "occurrences" /\ request'[r].answer = "reviewed" =>
         /\ Pending(Held(request[r].op.instance)) = {}
         /\ request[r].op.instance \in extracted]_vars

(* The model is shown accepted material only: an occurrence that a         *)
(* proposed relation names has been accepted, although it may no longer    *)
(* be.                                                                     *)
ProposedWereAccepted ==
  \A rel \in relations : rel.provenance = "model-proposed" =>
    \A o \in {rel.from, rel.to} :
      \E n \in DOMAIN log : log[n].subject = Of(o) /\ log[n].action = "accept"

(* A comparison that is recorded as committed has left every relation the  *)
(* engine committed, and no relation comes from elsewhere, however often   *)
(* it is repeated and wherever it died.                                    *)
ComparedMeansProposed ==
  /\ \A w \in DOMAIN compared :
       compared[w] = "committed" => Proposals(w) \subseteq relations
  /\ \A rel \in relations : rel.provenance = "model-proposed" =>
       \E w \in DOMAIN executed : executed[w] # None /\ rel \in Proposals(w)

(* Relations, comparisons, executions and decisions agree.                 *)
ComparisonsAgree == ProposedWereAccepted /\ ComparedMeansProposed
=============================================================================
