----------------------- MODULE EvidenceV2ReviewProofs -----------------------
(***************************************************************************)
(* Proofs about EvidenceV2Review, for any occurrences, instances, requests *)
(* and operations: the counts of the overview agree with the fold of the   *)
(* log, the log reads back as who replaced what, an instance that is       *)
(* reported reviewed is, and comparisons propose what was accepted and     *)
(* what the engine committed.                                              *)
(*                                                                         *)
(* What a request carries from one of its reads to its write is out of     *)
(* date when it writes.  The argument is that all of it is about a log,    *)
(* occurrences and executions that only grow (Grows): a decision that was  *)
(* there, an occurrence that had been accepted and a settled execution     *)
(* stay so.  Only that a review supersedes the latest decision needs that  *)
(* no other request is under way.                                          *)
(***************************************************************************)
EXTENDS EvidenceV2Review, FiniteSetTheorems, WellFoundedInduction, TLAPS

Fields == {"pc", "op", "subject", "previous", "at", "listed", "judged",
           "extracted", "priors", "todo", "answer"}

(* The operations that read what they supersede. *)
Reviewing == {"review", "group", "review-relation"}

Deciding == Reviewing \cup {"author", "relate"}

Comparing == {"execute", "failed", "relations"}

WasAccepted(o) ==
  \E n \in DOMAIN log : log[n].subject = Of(o) /\ log[n].action = "accept"

(* The log is a sequence of decisions, none of which is called pending,    *)
(* about occurrences the store holds.                                      *)
LogOK ==
  /\ log \in Seq({log[n] : n \in DOMAIN log})
  /\ \A n \in DOMAIN log : log[n].action # "pending"
  /\ \A o \in Occurrence : On(Of(o)) # {} => o \in occurrences
  /\ IsFiniteSet(occurrences)

(* A window is ordered by its second component, and shows what was         *)
(* accepted.                                                               *)
WindowOK(w) ==
  /\ w[2] \in Nat
  /\ \A o \in w[3] \cup w[4] : WasAccepted(o)

ExecutedOK ==
  /\ \A w \in DOMAIN executed :
       /\ WindowOK(w)
       /\ executed[w] # None => executed[w] \subseteq w[3] \X w[4]
  /\ \A w \in DOMAIN compared : compared[w] = "committed" => w \in DOMAIN executed

(* What a decision about to be appended is about, and what it supersedes.  *)
DecidingOK(r) ==
  LET pc == request[r].pc
      op == request[r].op
      subject == request[r].subject
      previous == request[r].previous
  IN
  /\ pc \in {"idle", "begin"} => previous = None
  /\ pc = "history" => op.kind \in Reviewing
  /\ pc = "append" => op.kind \in Deciding
  /\ pc \in {"history", "append"} =>
       \A o \in Occurrence : subject = Of(o) => o \in occurrences
  /\ pc = "append" /\ previous # None =>
       \E m \in On(subject) : log[m].id = previous
  /\ pc = "append" /\ op.kind \notin Reviewing => previous = None
  /\ pc = "append" /\ op.kind = "author" => \E o \in Occurrence : subject = Of(o)
  /\ pc = "append" /\ op.kind = "relate" =>
       \E p \in Occurrence \X Occurrence :
         subject = Relation(<<p[1], p[2], request[r].at>>)

(* What a page or a comparison has read so far. *)
ReadingOK(r) ==
  LET pc == request[r].pc IN
  /\ pc \in {"windows", "occurrences"} =>
       \A o \in request[r].judged : On(Of(o)) # {}
  /\ pc = "occurrences" /\ request[r].extracted =>
       request[r].op.instance \in extracted
  /\ pc = "current" =>
       \A j \in Earlier(request[r].op.instance) :
         \A o \in request[r].priors[j] : WasAccepted(o)
  /\ pc \in Comparing => \A w \in request[r].todo : WindowOK(w)
  /\ pc \in {"failed", "relations"} => request[r].todo # {}
  /\ pc = "relations" => /\ NextWindow(r) \in DOMAIN executed
                         /\ executed[NextWindow(r)] # None

WorkOK(r) ==
  /\ DOMAIN request[r] = Fields
  /\ request[r].op \in Operation[r] \cup {None}
  /\ Underway(r) <=> request[r].op # None
  /\ request[r].pc \notin Ended => request[r].answer = None
  /\ DecidingOK(r)
  /\ ReadingOK(r)

(* Until two requests overlap at most one is under way, and what it is to  *)
(* supersede is the latest decision.                                       *)
LatestId(subject) ==
  IF On(subject) = {} THEN None ELSE log[Max(On(subject))].id

AloneOK ==
  ~overlapped =>
    /\ \A r, q \in Request : Underway(r) /\ Underway(q) => r = q
    /\ \A r \in Request :
         request[r].pc = "append" /\ request[r].op.kind \in Reviewing =>
           request[r].previous = LatestId(request[r].subject)

StoreTypeOK ==
  /\ occurrences \subseteq Occurrence /\ extracted \subseteq Instance
  /\ \A n \in DOMAIN log :
       /\ DOMAIN log[n] = {"id", "subject", "action", "supersedes"}
       /\ \A m \in DOMAIN log : log[m].id = log[n].id => m = n
  /\ \A rel \in relations :
       /\ DOMAIN rel = {"id", "from", "to", "provenance"}
       /\ \A other \in relations : other.id = rel.id => other = rel
  /\ \A w \in DOMAIN compared : compared[w] \in {"committed", "failed"}

StoreInv ==
  /\ StoreTypeOK /\ LogOK /\ ExecutedOK
  /\ SupersedesEarlier
  /\ ProposedWereAccepted /\ ComparedMeansProposed

IInv ==
  /\ StoreInv
  /\ clock \in 0 .. MaxClock /\ crashes \in 0 .. MaxCrashes /\ overlapped \in BOOLEAN
  /\ DOMAIN request = Request
  /\ \A r \in Request : WorkOK(r)
  /\ AloneOK /\ ReviewsFormAChain
-----------------------------------------------------------------------------
(* Sets of numbers, functions and the log.                                 *)

(* A set of numbers that is not empty has a least one. *)
LEMMA LeastNat ==
  ASSUME NEW T \in SUBSET Nat, T # {}
  PROVE  \E n \in T : \A m \in T : n <= m
<1> DEFINE below == {ss \in Nat \X Nat : ss[1] < ss[2]}
<1>1. IsWellFoundedOn(below, Nat)
  BY NatLessThanWellFounded, Zenon DEF OpToRel
<1>2. PICK n \in T : \A m \in T : <<m, n>> \notin below
  BY <1>1, WFMin
<1>3. ASSUME NEW m \in T PROVE n <= m
  <2>1. <<m, n>> \in Nat \X Nat /\ <<m, n>>[1] = m /\ <<m, n>>[2] = n
    OBVIOUS
  <2>2. ~(m < n)
    BY <1>2, <2>1
  <2> QED
    BY <2>2
<1> QED
  BY <1>3

(* A bounded one has a greatest, which is what Max() chooses. *)
LEMMA MaxOfBounded ==
  ASSUME NEW S \in SUBSET Nat, S # {}, NEW b \in Nat, \A m \in S : m <= b
  PROVE  /\ Max(S) \in S
         /\ Max(S) \in Nat
         /\ \A m \in S : m <= Max(S)
<1> DEFINE bounds == {n \in Nat : \A m \in S : m <= n}
<1>1. PICK n \in bounds : \A m \in bounds : n <= m
  <2>1. bounds \in SUBSET Nat /\ b \in bounds
    OBVIOUS
  <2> HIDE DEF bounds
  <2> QED BY <2>1, LeastNat
<1>2. n \in S
  <2> SUFFICES ASSUME n \notin S PROVE FALSE
    OBVIOUS
  <2>1. PICK m \in S : m \in Nat /\ m < n
    <3>1. PICK m \in S : TRUE
      OBVIOUS
    <3>2. m \in Nat /\ n \in Nat /\ m <= n /\ m # n
      BY <1>1
    <3> QED BY <3>2
  <2>2. n - 1 \in bounds
    <3>1. n - 1 \in Nat
      BY <2>1, <1>1
    <3>2. ASSUME NEW k \in S PROVE k <= n - 1
      <4>1. k \in Nat /\ n \in Nat /\ k <= n /\ k # n
        BY <1>1
      <4> QED BY <4>1
    <3> QED BY <3>1, <3>2
  <2>3. n <= n - 1
    BY <1>1, <2>2
  <2>4. n \in Nat
    BY <1>1
  <2> QED BY <2>3, <2>4
<1>3. \A m \in S : n >= m
  BY <1>1
<1>4. Max(S) \in S /\ \A m \in S : Max(S) >= m
  BY <1>2, <1>3, Zenon DEF Max
<1> QED BY <1>4

(* The greatest of a set of numbers, when it is known. *)
LEMMA MaxIs ==
  ASSUME NEW S \in SUBSET Nat, NEW n \in S, \A m \in S : m <= n
  PROVE  Max(S) = n
<1>1. \A m \in S : n >= m
  OBVIOUS
<1>2. Max(S) \in S /\ \A m \in S : Max(S) >= m
  BY <1>1, Zenon DEF Max
<1> DEFINE x == Max(S)
<1>3. x \in Nat /\ n \in Nat /\ x >= n /\ n >= x
  BY <1>2
<1> HIDE DEF x
<1>4. x = n
  BY <1>3
<1> QED BY <1>4 DEF x

(* A table after a row was put. *)
LEMMA WithPuts ==
  ASSUME NEW f, NEW w, NEW value
  PROVE  /\ DOMAIN With(f, w, value) = DOMAIN f \cup {w}
         /\ With(f, w, value)[w] = value
         /\ \A x \in DOMAIN f \ {w} : With(f, w, value)[x] = f[x]
BY DEF With

(* What decisions are about. *)
LEMMA SubjectsDiffer ==
  /\ \A o, p : Of(o) = Of(p) => o = p
  /\ \A o, c, p : Of(o) # Member(c, p)
  /\ \A o, id : Of(o) # Relation(id)
  /\ \A o, p : <<"unit", o>> # Of(p)
BY DEF Of, Member, Relation

(* A decision that is appended. *)
LEMMA AppendToLog ==
  ASSUME log \in Seq({log[n] : n \in DOMAIN log}), NEW e, NEW s, s = Append(log, e)
  PROVE  /\ s \in Seq({s[n] : n \in DOMAIN s})
         /\ Len(log) \in Nat /\ DOMAIN log = 1 .. Len(log)
         /\ DOMAIN s = DOMAIN log \cup {Len(log) + 1}
         /\ \A n \in DOMAIN log : s[n] = log[n]
         /\ s[Len(log) + 1] = e
<1> DEFINE S == {log[n] : n \in DOMAIN log}
<1>1. log \in Seq(S \cup {e}) /\ log \in Seq(S)
  OBVIOUS
<1>2. /\ s \in Seq(S \cup {e})
      /\ Len(log) \in Nat /\ DOMAIN log = 1 .. Len(log)
      /\ Len(s) = Len(log) + 1
      /\ \A n \in 1 .. Len(log) : s[n] = log[n]
      /\ s[Len(log) + 1] = e
  <2> HIDE DEF S
  <2> QED BY <1>1
<1>3. DOMAIN s = 1 .. Len(s)
  <2> HIDE DEF S
  <2> QED BY <1>2
<1>4. s \in Seq({s[n] : n \in DOMAIN s})
  BY <1>2, <1>3
<1> QED BY <1>2, <1>3, <1>4

(* The decisions on a subject are among the numbers of the log. *)
LEMMA OnIsBounded ==
  ASSUME LogOK, NEW subject
  PROVE  /\ On(subject) \in SUBSET Nat
         /\ Len(log) \in Nat
         /\ \A m \in On(subject) : m <= Len(log)
         /\ On(subject) # {} => Max(On(subject)) \in On(subject)
<1>1. /\ On(subject) \in SUBSET Nat
      /\ Len(log) \in Nat
      /\ \A m \in On(subject) : m <= Len(log)
  BY DEF LogOK, On
<1> QED BY <1>1, MaxOfBounded

(* Who is not pending has been decided. *)
LEMMA DecidedIsNotPending ==
  ASSUME LogOK, NEW subject
  PROVE  Standing(subject) = "pending" <=> On(subject) = {}
<1>1. ASSUME On(subject) # {} PROVE log[Max(On(subject))].action # "pending"
  BY <1>1, OnIsBounded DEF LogOK, On
<1> QED BY <1>1 DEF Standing

(* What is accepted has been accepted. *)
LEMMA AcceptedWasAccepted ==
  ASSUME LogOK, NEW i, NEW o \in AcceptedOf(i)
  PROVE  WasAccepted(o)
<1>1. Standing(Of(o)) = "accept"
  BY DEF AcceptedOf, Accepted
<1>2. On(Of(o)) # {} /\ log[Max(On(Of(o)))].action = "accept"
  BY <1>1 DEF Standing
<1> QED BY <1>2, OnIsBounded DEF WasAccepted, On

(* The window that is taken is one of those to do. *)
LEMMA NextIsToDo ==
  ASSUME NEW r, request[r].todo # {}, \A w \in request[r].todo : w[2] \in Nat
  PROVE  NextWindow(r) \in request[r].todo
<1> DEFINE todo == request[r].todo
           ordinals == {w[2] : w \in todo}
<1>1. ordinals \in SUBSET Nat /\ ordinals # {}
  OBVIOUS
<1>2. PICK n \in ordinals : \A m \in ordinals : n <= m
  <2> HIDE DEF ordinals
  <2> QED BY <1>1, LeastNat
<1>3. PICK w \in todo : w[2] = n
  OBVIOUS
<1>4. \A x \in todo : w[2] <= x[2]
  BY <1>2, <1>3
<1> QED BY <1>3, <1>4, Zenon DEF NextWindow
-----------------------------------------------------------------------------
(* What grows, and who moves.                                              *)

Grows ==
  /\ \A n \in DOMAIN log : n \in DOMAIN log' /\ log'[n] = log[n]
  /\ occurrences \subseteq occurrences' /\ extracted \subseteq extracted'
  /\ \A w \in DOMAIN executed : w \in DOMAIN executed' /\ executed'[w] = executed[w]

Moves(r) ==
  DOMAIN request' = Request /\ \A q \in Request \ {r} : request'[q] = request[q]

(* What was decided, accepted or shown stays so. *)
LEMMA WhatWasStays ==
  ASSUME Grows
  PROVE  /\ \A s : On(s) \subseteq On(s)'
         /\ \A o : WasAccepted(o) => WasAccepted(o)'
         /\ \A w : WindowOK(w) => WindowOK(w)'
<1>1. \A s : On(s) \subseteq On(s)'
  BY DEF On, Grows
<1>2. \A o : WasAccepted(o) => WasAccepted(o)'
  BY DEF WasAccepted, Grows
<1> QED BY <1>1, <1>2 DEF WindowOK

(* What a request holds is not invalidated by what others write. *)
LEMMA WorkStays ==
  ASSUME Grows, NEW q \in Request, request'[q] = request[q], WorkOK(q)
  PROVE  WorkOK(q)'
<1>1. /\ \A s : On(s) \subseteq On(s)'
      /\ \A o : WasAccepted(o) => WasAccepted(o)'
      /\ \A w : WindowOK(w) => WindowOK(w)'
  BY WhatWasStays
<1>2. NextWindow(q)' = NextWindow(q)
  BY DEF NextWindow
<1>3. Underway(q)' <=> Underway(q)
  BY DEF Underway
<1>4. DecidingOK(q)'
  <2>1. DecidingOK(q)
    BY DEF WorkOK
  <2>2. \A o \in occurrences : o \in occurrences'
    BY DEF Grows
  <2>3. ASSUME request[q].pc = "append", request[q].previous # None
        PROVE  \E m \in On(request[q].subject)' : log'[m].id = request[q].previous
    <3>1. PICK m \in On(request[q].subject) : log[m].id = request[q].previous
      BY <2>1, <2>3 DEF DecidingOK
    <3>2. m \in On(request[q].subject)' /\ log'[m] = log[m]
      BY <1>1, <3>1 DEF On, Grows
    <3> QED BY <3>1, <3>2
  <2> QED BY <2>1, <2>2, <2>3 DEF DecidingOK
<1>5. ReadingOK(q)'
  <2>1. ReadingOK(q)
    BY DEF WorkOK
  <2>2. ASSUME request[q].pc \in {"windows", "occurrences"}, NEW o \in request[q].judged
        PROVE  On(Of(o))' # {}
    BY <1>1, <2>1, <2>2 DEF ReadingOK
  <2>3. ASSUME request[q].pc = "current", NEW j \in Earlier(request[q].op.instance),
               NEW o \in request[q].priors[j]
        PROVE  WasAccepted(o)'
    BY <1>1, <2>1, <2>3 DEF ReadingOK
  <2>4. ASSUME request[q].pc \in Comparing, NEW w \in request[q].todo
        PROVE  WindowOK(w)'
    BY <1>1, <2>1, <2>4 DEF ReadingOK
  <2>5. ASSUME request[q].pc = "relations"
        PROVE  NextWindow(q) \in DOMAIN executed' /\ executed'[NextWindow(q)] # None
    BY <2>1, <2>5 DEF ReadingOK, Grows
  <2>6. ASSUME request[q].pc = "occurrences", request[q].extracted
        PROVE  request[q].op.instance \in extracted'
    BY <2>1, <2>6 DEF ReadingOK, Grows
  <2>7. request[q].pc \in {"failed", "relations"} => request[q].todo # {}
    BY <2>1 DEF ReadingOK
  <2> QED BY <1>2, <2>2, <2>3, <2>4, <2>5, <2>6, <2>7 DEF ReadingOK
<1> QED BY <1>3, <1>4, <1>5 DEF WorkOK

(* A step of a request that is under way. *)
LEMMA StepOfRequest ==
  ASSUME IInv, NEW r \in Request, Underway(r), Moves(r), Grows,
         StoreInv', ReviewsFormAChain', WorkOK(r)',
         clock' \in 0 .. MaxClock, crashes' \in 0 .. MaxCrashes,
         overlapped' = overlapped,
         ~overlapped /\ request'[r].pc = "append" /\ request'[r].op.kind \in Reviewing =>
           request'[r].previous = LatestId(request[r].subject)'
  PROVE  IInv'
<1>1. \A q \in Request : WorkOK(q)'
  <2>1. ASSUME NEW q \in Request, q # r PROVE WorkOK(q)'
    <3>1. WorkOK(q) /\ request'[q] = request[q]
      BY <2>1 DEF IInv, Moves
    <3> QED BY <3>1, WorkStays
  <2> QED BY <2>1
<1>2. AloneOK'
  <2> SUFFICES ASSUME ~overlapped
               PROVE  /\ \A p, q \in Request : Underway(p)' /\ Underway(q)' => p = q
                      /\ \A q \in Request :
                           request'[q].pc = "append" /\ request'[q].op.kind \in Reviewing =>
                             request'[q].previous = LatestId(request[q].subject)'
    BY DEF AloneOK
  <2>1. \A q \in Request \ {r} : ~Underway(q) /\ request'[q] = request[q]
    BY DEF IInv, AloneOK, Moves
  <2>2. \A q \in Request \ {r} : ~Underway(q)' /\ request'[q].pc # "append"
    BY <2>1 DEF Underway, Ended
  <2> QED BY <2>2
<1>3. overlapped' \in BOOLEAN /\ DOMAIN request' = Request
  BY DEF IInv, Moves
<1> QED BY <1>1, <1>2, <1>3 DEF IInv

(* What is written nowhere. *)
LEMMA StoreStays ==
  ASSUME UNCHANGED store
  PROVE  /\ Grows
         /\ StoreInv => StoreInv'
         /\ UNCHANGED overlapped /\ ReviewsFormAChain => ReviewsFormAChain'
         /\ \A r : LatestId(request[r].subject)' = LatestId(request'[r].subject)
<1>1. /\ occurrences' = occurrences /\ extracted' = extracted /\ log' = log
      /\ claims' = claims /\ relations' = relations /\ compared' = compared
      /\ executed' = executed
  BY DEF store
<1>2. \A s : On(s)' = On(s)
  BY <1>1 DEF On
<1>3. \A w : WindowOK(w)' <=> WindowOK(w)
  BY <1>1 DEF WindowOK, WasAccepted
<1>4. \A w : Proposals(w)' = Proposals(w)
  BY <1>1 DEF Proposals
<1>5. StoreTypeOK => StoreTypeOK'
  BY <1>1 DEF StoreTypeOK
<1>6. LogOK => LogOK'
  BY <1>1, <1>2 DEF LogOK
<1>7. ExecutedOK => ExecutedOK'
  BY <1>1, <1>3 DEF ExecutedOK
<1>8. SupersedesEarlier => SupersedesEarlier'
  BY <1>1 DEF SupersedesEarlier
<1>9. ProposedWereAccepted => ProposedWereAccepted'
  BY <1>1 DEF ProposedWereAccepted
<1>10. ComparedMeansProposed => ComparedMeansProposed'
  BY <1>1, <1>4 DEF ComparedMeansProposed
<1>11. UNCHANGED overlapped /\ ReviewsFormAChain => ReviewsFormAChain'
  BY <1>1, <1>2 DEF ReviewsFormAChain, ByAuthor
<1>12. \A r : LatestId(request[r].subject)' = LatestId(request'[r].subject)
  BY <1>1 DEF LatestId, On
<1>13. Grows
  BY <1>1 DEF Grows
<1> QED BY <1>5, <1>6, <1>7, <1>8, <1>9, <1>10, <1>11, <1>12, <1>13 DEF StoreInv

(* A step of a request that reads. *)
LEMMA ReadOfRequest ==
  ASSUME IInv, NEW r \in Request, Underway(r), Moves(r), WorkOK(r)',
         UNCHANGED <<store, overlapped>>,
         clock' \in 0 .. MaxClock, crashes' \in 0 .. MaxCrashes,
         ~overlapped /\ request'[r].pc = "append" /\ request'[r].op.kind \in Reviewing =>
           request'[r].previous = LatestId(request'[r].subject)
  PROVE  IInv'
<1>1. /\ Grows /\ StoreInv' /\ ReviewsFormAChain'
      /\ LatestId(request[r].subject)' = LatestId(request'[r].subject)
  BY StoreStays DEF IInv
<1> QED BY <1>1, StepOfRequest

(* The request that answers, fails or dies. *)
LEMMA EndIsOK ==
  ASSUME DOMAIN request = Request, NEW r \in Request, NEW pc \in Ended, NEW answer,
         End(r, pc, answer)
  PROVE  /\ Moves(r) /\ WorkOK(r)'
         /\ request'[r].pc = pc /\ request'[r].answer = answer
<1>1. request' = [request EXCEPT ![r] = [NoWork EXCEPT !.pc = pc, !.answer = answer]]
  BY DEF End
<1>2. Moves(r)
  BY <1>1 DEF Moves
<1>3. request'[r] = [NoWork EXCEPT !.pc = pc, !.answer = answer]
  BY <1>1
<1>4. /\ DOMAIN request'[r] = Fields
      /\ request'[r].pc = pc /\ request'[r].answer = answer
      /\ request'[r].op = None /\ request'[r].todo = {}
  BY <1>3 DEF NoWork, Fields
<1>5. pc \in {"done", "not-found", "crashed"}
  BY DEF Ended
<1>6. DecidingOK(r)'
  BY <1>4, <1>5 DEF DecidingOK
<1>7. ReadingOK(r)'
  BY <1>4, <1>5 DEF ReadingOK, Comparing
<1>8. ~Underway(r)'
  BY <1>4 DEF Underway
<1>9. WorkOK(r)'
  BY <1>4, <1>6, <1>7, <1>8 DEF WorkOK
<1> QED BY <1>2, <1>4, <1>9
-----------------------------------------------------------------------------
(* The steps that read.                                                    *)

LEMMA GoesOn ==
  ASSUME IInv, NEW r \in Request, Underway(r),
         DOMAIN request'[r] = Fields,
         request'[r].op = request[r].op, request'[r].answer = request[r].answer,
         request'[r].pc \notin Ended \cup {"idle"},
         DecidingOK(r)', ReadingOK(r)'
  PROVE  WorkOK(r)'
<1>1. WorkOK(r) /\ request[r].pc \notin Ended
  BY DEF IInv, Underway
<1>2. Underway(r)'
  BY DEF Underway
<1> QED BY <1>1, <1>2 DEF WorkOK

LEMMA Fetch ==
  ASSUME IInv, NEW r \in Request
  PROVE  /\ DOMAIN request = Request /\ DOMAIN request[r] = Fields
         /\ WorkOK(r) /\ DecidingOK(r) /\ ReadingOK(r) /\ LogOK /\ ExecutedOK
         /\ clock \in 0 .. MaxClock /\ crashes \in 0 .. MaxCrashes
BY DEF IInv, WorkOK, StoreInv

LEMMA BeginOK ==
  ASSUME IInv, NEW r \in Request, Begin(r)
  PROVE  IInv'
<1>1. PICK op \in Operation[r] :
        request' = [request EXCEPT ![r].pc = "begin", ![r].op = op]
  BY DEF Begin
<1>2. /\ request[r].pc = "idle"
      /\ overlapped' = (overlapped \/ \E q \in Request : Underway(q))
      /\ UNCHANGED store /\ clock' = clock /\ crashes' = crashes
  BY DEF Begin
<1>3. DOMAIN request = Request /\ DOMAIN request[r] = Fields /\ WorkOK(r)
  BY Fetch
<1>4. /\ Moves(r)
      /\ DOMAIN request'[r] = Fields
      /\ request'[r].pc = "begin" /\ request'[r].op = op
      /\ request'[r].answer = request[r].answer
      /\ request'[r].previous = request[r].previous
  BY <1>1, <1>3 DEF Moves, Fields
<1>5. op # None
  BY OperationAssumption
<1>6. WorkOK(r)'
  <2>1. DecidingOK(r)'
    BY <1>2, <1>3, <1>4 DEF WorkOK, DecidingOK
  <2>2. ReadingOK(r)'
    BY <1>4 DEF ReadingOK, Comparing
  <2>3. Underway(r)'
    BY <1>4 DEF Underway, Ended
  <2>4. request[r].answer = None
    BY <1>2, <1>3 DEF WorkOK, Ended
  <2> QED BY <1>4, <1>5, <2>1, <2>2, <2>3, <2>4 DEF WorkOK
<1>7. Grows /\ StoreInv'
  BY <1>2, StoreStays DEF IInv
<1>8. \A q \in Request : WorkOK(q)'
  <2>1. ASSUME NEW q \in Request, q # r PROVE WorkOK(q)'
    <3>1. WorkOK(q) /\ request'[q] = request[q]
      BY <1>4, <2>1 DEF IInv, Moves
    <3> QED BY <1>7, <3>1, WorkStays
  <2> QED BY <1>6, <2>1
<1>9. AloneOK'
  <2> SUFFICES ASSUME ~overlapped'
               PROVE  \A q \in Request \ {r} : ~Underway(q)' /\ request'[q].pc # "append"
    BY <1>4 DEF AloneOK
  <2>1. \A q \in Request \ {r} : ~Underway(q) /\ request'[q] = request[q]
    BY <1>2, <1>4 DEF Moves
  <2> QED BY <2>1 DEF Underway, Ended
<1>10. ReviewsFormAChain'
  <2>1. log' = log /\ (overlapped => overlapped')
    BY <1>2 DEF store
  <2>2. \A s : On(s)' = On(s)
    BY <2>1 DEF On
  <2>3. ReviewsFormAChain
    BY DEF IInv
  <2> QED BY <2>1, <2>2, <2>3 DEF ReviewsFormAChain, ByAuthor
<1>11. overlapped' \in BOOLEAN /\ DOMAIN request' = Request
  BY <1>2, <1>4 DEF IInv, Moves
<1>12. clock' \in 0 .. MaxClock /\ crashes' \in 0 .. MaxCrashes
  BY <1>2, Fetch
<1> QED BY <1>7, <1>8, <1>9, <1>10, <1>11, <1>12 DEF IInv

(* A request that ends without writing. *)
LEMMA EndOK ==
  ASSUME IInv, NEW r \in Request, Underway(r), NEW pc \in Ended, NEW answer,
         End(r, pc, answer), UNCHANGED <<store, overlapped>>,
         clock' \in 0 .. MaxClock, crashes' \in 0 .. MaxCrashes
  PROVE  IInv'
<1>1. DOMAIN request = Request
  BY Fetch
<1>2. Moves(r) /\ WorkOK(r)' /\ request'[r].pc = pc
  BY <1>1, EndIsOK
<1>3. request'[r].pc # "append"
  BY <1>2 DEF Ended
<1> QED BY <1>1, <1>2, <1>3, ReadOfRequest

LEMMA ReadingIsOK ==
  ASSUME IInv, NEW r \in Request, At(r, "begin", request[r].op.kind), NEW found \in BOOLEAN,
         NEW subject, Reading(r, found, subject),
         found => /\ request[r].op.kind \in Reviewing
                  /\ \A o \in Occurrence : subject = Of(o) => o \in occurrences,
         UNCHANGED <<store, clock, crashes, overlapped>>
  PROVE  IInv'
<1>1. /\ DOMAIN request = Request /\ DOMAIN request[r] = Fields
      /\ clock \in 0 .. MaxClock /\ crashes \in 0 .. MaxCrashes
  BY Fetch
<1>2. Underway(r)
  BY DEF At, Underway, Ended
<1>3. CASE found
  <2>1. request' = [request EXCEPT ![r].pc = "history", ![r].subject = subject]
    BY <1>3 DEF Reading
  <2>2. /\ Moves(r)
        /\ DOMAIN request'[r] = Fields
        /\ request'[r].pc = "history" /\ request'[r].subject = subject
        /\ request'[r].op = request[r].op /\ request'[r].answer = request[r].answer
    BY <1>1, <2>1 DEF Moves, Fields
  <2>3. occurrences' = occurrences
    BY DEF store
  <2>4. DecidingOK(r)'
    BY <1>3, <2>2, <2>3 DEF DecidingOK
  <2>5. ReadingOK(r)'
    BY <2>2 DEF ReadingOK, Comparing
  <2>6. WorkOK(r)'
    BY <1>2, <2>2, <2>4, <2>5, GoesOn DEF Ended
  <2> QED BY <1>1, <1>2, <2>2, <2>6, ReadOfRequest
<1>4. CASE ~found
  <2>1. End(r, "not-found", None)
    BY <1>4 DEF Reading
  <2>2. "not-found" \in Ended
    BY DEF Ended
  <2> QED BY <1>1, <1>2, <2>1, <2>2, EndOK
<1> QED BY <1>3, <1>4

LEMMA CheckReviewOK ==
  ASSUME IInv, NEW r \in Request, CheckReview(r)
  PROVE  IInv'
<1> DEFINE op == request[r].op
           found == op.occurrence \in FirstPage(op.instance)
           subject == Of(op.occurrence)
<1>1. found => \A o \in Occurrence : subject = Of(o) => o \in occurrences
  <2>1. found => op.occurrence \in occurrences
    BY DEF FirstPage, Held
  <2> QED BY <2>1, SubjectsDiffer
<1>2. /\ At(r, "begin", op.kind) /\ op.kind \in Reviewing
      /\ Reading(r, found, subject)
      /\ UNCHANGED <<store, clock, crashes, overlapped>>
  BY DEF CheckReview, At, Reviewing
<1>3. found \in BOOLEAN
  OBVIOUS
<1> HIDE DEF found, subject
<1> QED BY <1>1, <1>2, <1>3, ReadingIsOK

LEMMA CheckGroupingOK ==
  ASSUME IInv, NEW r \in Request, CheckGrouping(r)
  PROVE  IInv'
<1> DEFINE o == request[r].op.occurrence
           found == o \in occurrences
<1>1. PICK claim \in claims : Reading(r, found, Member(claim, o))
  BY DEF CheckGrouping
<1>2. /\ At(r, "begin", request[r].op.kind) /\ request[r].op.kind \in Reviewing
      /\ UNCHANGED <<store, clock, crashes, overlapped>>
  BY DEF CheckGrouping, At, Reviewing
<1>3. PICK subject : subject = Member(claim, o)
  OBVIOUS
<1>4. \A p \in Occurrence : subject # Of(p)
  BY <1>3, SubjectsDiffer
<1>5. found \in BOOLEAN
  OBVIOUS
<1> HIDE DEF found
<1> QED BY <1>1, <1>2, <1>3, <1>4, <1>5, ReadingIsOK

LEMMA CheckRelationReviewOK ==
  ASSUME IInv, NEW r \in Request, CheckRelationReview(r)
  PROVE  IInv'
<1>1. PICK rel \in relations : Reading(r, TRUE, Relation(rel.id))
  BY DEF CheckRelationReview
<1>2. /\ At(r, "begin", request[r].op.kind) /\ request[r].op.kind \in Reviewing
      /\ UNCHANGED <<store, clock, crashes, overlapped>>
  BY DEF CheckRelationReview, At, Reviewing
<1>3. PICK subject : subject = Relation(rel.id)
  OBVIOUS
<1>4. \A p \in Occurrence : subject # Of(p)
  BY <1>3, SubjectsDiffer
<1> QED BY <1>1, <1>2, <1>3, <1>4, ReadingIsOK

LEMMA ReadHistoryOK ==
  ASSUME IInv, NEW r \in Request, ReadHistory(r)
  PROVE  IInv'
<1> DEFINE history == On(request[r].subject)
           latest == LatestId(request[r].subject)
<1>1. /\ request[r].pc = "history"
      /\ clock' \in clock .. MaxClock
      /\ request' = [request EXCEPT ![r].pc = "append", ![r].previous = latest,
                                    ![r].at = clock']
      /\ UNCHANGED <<store, crashes, overlapped>>
  BY DEF ReadHistory, TimePasses, LatestId
<1>2. /\ DOMAIN request = Request /\ DOMAIN request[r] = Fields
      /\ DecidingOK(r) /\ LogOK
      /\ clock \in 0 .. MaxClock /\ crashes \in 0 .. MaxCrashes
  BY Fetch
<1>3. Underway(r)
  BY <1>1 DEF Underway, Ended
<1>4. PICK previous : previous = latest
  OBVIOUS
<1>5. /\ Moves(r)
      /\ DOMAIN request'[r] = Fields
      /\ request'[r].pc = "append" /\ request'[r].subject = request[r].subject
      /\ request'[r].previous = previous
      /\ request'[r].op = request[r].op /\ request'[r].answer = request[r].answer
  <2> HIDE DEF latest
  <2> QED BY <1>1, <1>2, <1>4 DEF Moves, Fields
<1>6. clock' \in 0 .. MaxClock
  BY <1>1, <1>2, ReviewAssumption
<1>7. previous # None => \E m \in history : log[m].id = previous
  <2>1. history # {} => Max(history) \in history
    BY <1>2, OnIsBounded
  <2> QED BY <1>4, <2>1 DEF LatestId
<1>8. DecidingOK(r)'
  <2>1. occurrences' = occurrences /\ log' = log
    BY <1>1 DEF store
  <2>2. On(request[r].subject)' = history
    BY <1>5, <2>1 DEF On
  <2>3. request[r].op.kind \in Reviewing
    BY <1>1, <1>2 DEF DecidingOK
  <2>4. \A o \in Occurrence : request[r].subject = Of(o) => o \in occurrences
    BY <1>1, <1>2 DEF DecidingOK
  <2> HIDE DEF history
  <2> QED BY <1>5, <1>7, <2>1, <2>2, <2>3, <2>4 DEF DecidingOK, Deciding, Reviewing
<1>9. ReadingOK(r)'
  BY <1>5 DEF ReadingOK, Comparing
<1>10. WorkOK(r)'
  BY <1>3, <1>5, <1>8, <1>9, GoesOn DEF Ended
<1>11. request'[r].previous = LatestId(request'[r].subject)
  BY <1>4, <1>5
<1>12. UNCHANGED <<store, overlapped>> /\ crashes' \in 0 .. MaxCrashes
  BY <1>1, <1>2
<1> QED BY <1>3, <1>5, <1>6, <1>10, <1>11, <1>12, ReadOfRequest
-----------------------------------------------------------------------------
(* The page and the comparison, as far as they read.                       *)

(* A request that has read something and goes on. *)
LEMMA AdvanceOK ==
  ASSUME IInv, NEW r \in Request, Underway(r), Moves(r),
         DOMAIN request'[r] = Fields,
         request'[r].op = request[r].op, request'[r].answer = request[r].answer,
         request'[r].pc \in {"decisions", "windows", "occurrences", "priors",
                             "current", "execute", "failed", "relations"},
         ReadingOK(r)',
         UNCHANGED <<store, clock, crashes, overlapped>>
  PROVE  IInv'
<1>1. DecidingOK(r)'
  BY DEF DecidingOK
<1>2. WorkOK(r)'
  BY <1>1, GoesOn DEF Ended
<1>3. clock \in 0 .. MaxClock /\ crashes \in 0 .. MaxCrashes
  BY Fetch
<1> QED BY <1>2, <1>3, ReadOfRequest

LEMMA PageListOK ==
  ASSUME IInv, NEW r \in Request, PageList(r)
  PROVE  IInv'
<1>1. PICK listed : request' = [request EXCEPT ![r].pc = "decisions", ![r].listed = listed]
  BY DEF PageList
<1>2. request[r].pc = "begin" /\ UNCHANGED <<store, clock, crashes, overlapped>>
  BY DEF PageList, At
<1>3. DOMAIN request = Request /\ DOMAIN request[r] = Fields
  BY Fetch
<1>4. /\ Moves(r)
      /\ DOMAIN request'[r] = Fields
      /\ request'[r].pc = "decisions"
      /\ request'[r].op = request[r].op /\ request'[r].answer = request[r].answer
  BY <1>1, <1>3 DEF Moves, Fields
<1>5. Underway(r)
  BY <1>2 DEF Underway, Ended
<1>6. ReadingOK(r)'
  BY <1>4 DEF ReadingOK, Comparing
<1> QED BY <1>2, <1>4, <1>5, <1>6, AdvanceOK

LEMMA CompareListOK ==
  ASSUME IInv, NEW r \in Request, CompareList(r)
  PROVE  IInv'
<1>1. PICK listed : request' = [request EXCEPT ![r].pc = "decisions", ![r].listed = listed]
  BY DEF CompareList
<1>2. request[r].pc = "begin" /\ UNCHANGED <<store, clock, crashes, overlapped>>
  BY DEF CompareList, At
<1>3. DOMAIN request = Request /\ DOMAIN request[r] = Fields
  BY Fetch
<1>4. /\ Moves(r)
      /\ DOMAIN request'[r] = Fields
      /\ request'[r].pc = "decisions"
      /\ request'[r].op = request[r].op /\ request'[r].answer = request[r].answer
  BY <1>1, <1>3 DEF Moves, Fields
<1>5. Underway(r)
  BY <1>2 DEF Underway, Ended
<1>6. ReadingOK(r)'
  BY <1>4 DEF ReadingOK, Comparing
<1> QED BY <1>2, <1>4, <1>5, <1>6, AdvanceOK

LEMMA ReadDecisionsOK ==
  ASSUME IInv, NEW r \in Request, ReadDecisions(r)
  PROVE  IInv'
<1>1. PICK judged : judged = Judged(Occurrence)
  OBVIOUS
<1>2. /\ request[r].pc = "decisions" /\ UNCHANGED <<store, clock, crashes, overlapped>>
      /\ request' = [request EXCEPT ![r].pc = "windows", ![r].judged = judged]
  BY <1>1 DEF ReadDecisions
<1>3. DOMAIN request = Request /\ DOMAIN request[r] = Fields /\ LogOK
  BY Fetch
<1>4. /\ Moves(r)
      /\ DOMAIN request'[r] = Fields
      /\ request'[r].pc = "windows" /\ request'[r].judged = judged
      /\ request'[r].op = request[r].op /\ request'[r].answer = request[r].answer
  BY <1>2, <1>3 DEF Moves, Fields
<1>5. Underway(r)
  BY <1>2 DEF Underway, Ended
<1>6. \A o \in judged : On(Of(o))' # {}
  <2>1. \A o \in judged : On(Of(o)) # {}
    BY <1>1, <1>3, DecidedIsNotPending DEF Judged
  <2>2. log' = log
    BY <1>2 DEF store
  <2> QED BY <2>1, <2>2 DEF On
<1>7. ReadingOK(r)'
  BY <1>4, <1>6 DEF ReadingOK, Comparing
<1> QED BY <1>2, <1>4, <1>5, <1>7, AdvanceOK

LEMMA PageWindowsOK ==
  ASSUME IInv, NEW r \in Request, PageWindows(r)
  PROVE  IInv'
<1>1. PICK found : found = (request[r].op.instance \in extracted)
  OBVIOUS
<1>2. /\ request[r].pc = "windows" /\ UNCHANGED <<store, clock, crashes, overlapped>>
      /\ request' = [request EXCEPT ![r].pc = "occurrences", ![r].extracted = found]
  BY <1>1 DEF PageWindows, At
<1>3. DOMAIN request = Request /\ DOMAIN request[r] = Fields /\ ReadingOK(r)
  BY Fetch
<1>4. /\ Moves(r)
      /\ DOMAIN request'[r] = Fields
      /\ request'[r].pc = "occurrences" /\ request'[r].judged = request[r].judged
      /\ request'[r].extracted = found
      /\ request'[r].op = request[r].op /\ request'[r].answer = request[r].answer
  BY <1>2, <1>3 DEF Moves, Fields
<1>5. Underway(r)
  BY <1>2 DEF Underway, Ended
<1>6. \A o \in request[r].judged : On(Of(o))' # {}
  <2>1. \A o \in request[r].judged : On(Of(o)) # {}
    BY <1>2, <1>3 DEF ReadingOK
  <2>2. log' = log
    BY <1>2 DEF store
  <2> QED BY <2>1, <2>2 DEF On
<1>7. extracted' = extracted
  BY <1>2 DEF store
<1>8. ReadingOK(r)'
  BY <1>1, <1>4, <1>6, <1>7 DEF ReadingOK, Comparing
<1> QED BY <1>2, <1>4, <1>5, <1>8, AdvanceOK

LEMMA PageOccurrencesOK ==
  ASSUME IInv, NEW r \in Request, PageOccurrences(r)
  PROVE  IInv'
<1>1. PICK answer : End(r, "done", answer)
  BY DEF PageOccurrences, Answer
<1>2. request[r].pc = "occurrences" /\ UNCHANGED <<store, clock, crashes, overlapped>>
  BY DEF PageOccurrences
<1>3. Underway(r) /\ "done" \in Ended
  BY <1>2 DEF Underway, Ended
<1>4. clock \in 0 .. MaxClock /\ crashes \in 0 .. MaxCrashes
  BY Fetch
<1> QED BY <1>1, <1>2, <1>3, <1>4, EndOK

LEMMA CompareWindowsOK ==
  ASSUME IInv, NEW r \in Request, CompareWindows(r)
  PROVE  IInv'
<1>1. request[r].pc = "windows" /\ UNCHANGED <<store, clock, crashes, overlapped>>
  BY DEF CompareWindows, At
<1>2. Underway(r) /\ "done" \in Ended
  BY <1>1 DEF Underway, Ended
<1>3. (request' = [request EXCEPT ![r].pc = "priors"]) \/ \E answer : End(r, "done", answer)
  BY DEF CompareWindows, Answer, Goto
<1>4. /\ DOMAIN request = Request /\ DOMAIN request[r] = Fields
      /\ clock \in 0 .. MaxClock /\ crashes \in 0 .. MaxCrashes
  BY Fetch
<1>5. CASE request' = [request EXCEPT ![r].pc = "priors"]
  <2>1. /\ Moves(r)
        /\ DOMAIN request'[r] = Fields
        /\ request'[r].pc = "priors"
        /\ request'[r].op = request[r].op /\ request'[r].answer = request[r].answer
    BY <1>4, <1>5 DEF Moves, Fields
  <2>2. ReadingOK(r)'
    BY <2>1 DEF ReadingOK, Comparing
  <2> QED BY <1>1, <1>2, <2>1, <2>2, AdvanceOK
<1>6. ASSUME NEW answer, End(r, "done", answer) PROVE IInv'
  BY <1>1, <1>2, <1>4, <1>6, EndOK
<1> QED BY <1>3, <1>5, <1>6

LEMMA ReadPriorsOK ==
  ASSUME IInv, NEW r \in Request, ReadPriors(r)
  PROVE  IInv'
<1>1. PICK priors : priors = [j \in Earlier(request[r].op.instance) |-> AcceptedOf(j)]
  OBVIOUS
<1>2. /\ request[r].pc = "priors" /\ UNCHANGED <<store, clock, crashes, overlapped>>
      /\ request' = [request EXCEPT ![r].pc = "current", ![r].priors = priors]
  BY <1>1 DEF ReadPriors
<1>3. DOMAIN request = Request /\ DOMAIN request[r] = Fields /\ LogOK
  BY Fetch
<1>4. /\ Moves(r)
      /\ DOMAIN request'[r] = Fields
      /\ request'[r].pc = "current" /\ request'[r].priors = priors
      /\ request'[r].op = request[r].op /\ request'[r].answer = request[r].answer
  BY <1>2, <1>3 DEF Moves, Fields
<1>5. Underway(r)
  BY <1>2 DEF Underway, Ended
<1>6. ASSUME NEW j \in Earlier(request[r].op.instance), NEW o \in priors[j]
      PROVE  WasAccepted(o)'
  <2>1. o \in AcceptedOf(j)
    BY <1>1, <1>6
  <2>2. WasAccepted(o)
    BY <1>3, <2>1, AcceptedWasAccepted
  <2>3. log' = log
    BY <1>2 DEF store
  <2> QED BY <2>2, <2>3 DEF WasAccepted
<1>7. ReadingOK(r)'
  BY <1>4, <1>6 DEF ReadingOK, Comparing
<1> QED BY <1>2, <1>4, <1>5, <1>7, AdvanceOK

LEMMA ReadCurrentOK ==
  ASSUME IInv, NEW r \in Request, ReadCurrent(r)
  PROVE  IInv'
<1> DEFINE i == request[r].op.instance
           windows == {<<i, j, AcceptedOf(i), request[r].priors[j]>>
                         : j \in {k \in Earlier(i) : request[r].priors[k] # {}}}
           todo == {w \in windows : ~(w \in DOMAIN compared
                                      /\ compared[w] = "committed")}
<1>1. /\ request[r].pc = "current" /\ UNCHANGED <<store, clock, crashes, overlapped>>
      /\ \/ End(r, "done", "no-prior-accepted")
         \/ request' = [request EXCEPT ![r].pc = "execute", ![r].todo = todo]
  BY DEF ReadCurrent, Answer
<1>2. /\ DOMAIN request = Request /\ DOMAIN request[r] = Fields /\ LogOK
      /\ ReadingOK(r)
      /\ clock \in 0 .. MaxClock /\ crashes \in 0 .. MaxCrashes
  BY Fetch
<1>3. Underway(r) /\ "done" \in Ended
  BY <1>1 DEF Underway, Ended
<1>4. ASSUME NEW w \in windows PROVE WindowOK(w)'
  <2>1. PICK j \in Earlier(i) : w = <<i, j, AcceptedOf(i), request[r].priors[j]>>
    OBVIOUS
  <2>2. w[2] = j /\ w[3] = AcceptedOf(i) /\ w[4] = request[r].priors[j]
    BY <2>1
  <2>3. w[2] \in Nat
    BY <2>2, ReviewAssumption DEF Earlier
  <2>4. \A o \in w[3] : WasAccepted(o)
    BY <1>2, <2>2, AcceptedWasAccepted
  <2>5. \A o \in w[4] : WasAccepted(o)
    BY <1>1, <1>2, <2>1, <2>2 DEF ReadingOK
  <2>6. log' = log
    BY <1>1 DEF store
  <2> QED BY <2>3, <2>4, <2>5, <2>6 DEF WindowOK, WasAccepted
<1>5. CASE End(r, "done", "no-prior-accepted")
  BY <1>1, <1>2, <1>3, <1>5, EndOK
<1>6. CASE request' = [request EXCEPT ![r].pc = "execute", ![r].todo = todo]
  <2>1. PICK t : t = todo
    OBVIOUS
  <2>2. \A w \in t : WindowOK(w)'
    <3> HIDE DEF windows
    <3> QED BY <1>4, <2>1
  <2>3. /\ Moves(r)
        /\ DOMAIN request'[r] = Fields
        /\ request'[r].pc = "execute" /\ request'[r].todo = t
        /\ request'[r].op = request[r].op /\ request'[r].answer = request[r].answer
    <3> HIDE DEF todo
    <3> QED BY <1>2, <1>6, <2>1 DEF Moves, Fields
  <2>4. ReadingOK(r)'
    BY <2>2, <2>3 DEF ReadingOK, Comparing
  <2> HIDE DEF todo, windows
  <2> QED BY <1>1, <1>3, <2>3, <2>4, AdvanceOK
<1> QED BY <1>1, <1>5, <1>6

LEMMA CompleteOK ==
  ASSUME IInv, NEW r \in Request, Complete(r)
  PROVE  IInv'
<1>1. /\ End(r, "done", "complete") /\ request[r].pc = "execute"
      /\ UNCHANGED <<store, clock, crashes, overlapped>>
  BY DEF Complete, Answer
<1>2. Underway(r) /\ "done" \in Ended
  BY <1>1 DEF Underway, Ended
<1>3. clock \in 0 .. MaxClock /\ crashes \in 0 .. MaxCrashes
  BY Fetch
<1> QED BY <1>1, <1>2, <1>3, EndOK

LEMMA CrashOK ==
  ASSUME IInv, NEW r \in Request, Crash(r)
  PROVE  IInv'
<1>1. /\ End(r, "crashed", None) /\ Underway(r)
      /\ crashes < MaxCrashes /\ crashes' = crashes + 1
      /\ UNCHANGED <<store, clock, overlapped>>
  BY DEF Crash
<1>2. "crashed" \in Ended
  BY DEF Ended
<1>3. clock \in 0 .. MaxClock /\ crashes \in 0 .. MaxCrashes
  BY Fetch
<1>4. clock' \in 0 .. MaxClock /\ crashes' \in 0 .. MaxCrashes
  BY <1>1, <1>3, ReviewAssumption
<1> QED BY <1>1, <1>2, <1>4, EndOK
-----------------------------------------------------------------------------
(* The decisions.                                                          *)

(* The log, with one more decision at its end. *)
LEMMA LogGrows ==
  ASSUME LogOK, NEW e, log' = Append(log, e)
  PROVE  /\ log' \in Seq({log'[n] : n \in DOMAIN log'})
         /\ Len(log) \in Nat /\ DOMAIN log = 1 .. Len(log)
         /\ DOMAIN log' = DOMAIN log \cup {Len(log) + 1}
         /\ \A n \in DOMAIN log : log'[n] = log[n]
         /\ log'[Len(log) + 1] = e
<1>1. PICK s : s = Append(log, e)
  OBVIOUS
<1>2. log \in Seq({log[n] : n \in DOMAIN log})
  BY DEF LogOK
<1>3. /\ s \in Seq({s[n] : n \in DOMAIN s})
      /\ Len(log) \in Nat /\ DOMAIN log = 1 .. Len(log)
      /\ DOMAIN s = DOMAIN log \cup {Len(log) + 1}
      /\ \A n \in DOMAIN log : s[n] = log[n]
      /\ s[Len(log) + 1] = e
  BY <1>1, <1>2, AppendToLog
<1>4. log' = s
  BY <1>1
<1> QED BY <1>3, <1>4

(* A decision that is dropped or is appended at the end. *)
LEMMA AppendKeepsTypes ==
  ASSUME IInv, NEW r \in Request, request[r].pc = "append",
         NEW e, e = [id |-> IdOf(r), subject |-> request[r].subject,
                     action |-> ActionOf(request[r].op),
                     supersedes |-> request[r].previous],
         \A n \in DOMAIN log : log[n].id # IdOf(r),
         log' = Append(log, e),
         UNCHANGED <<occurrences, extracted, claims, relations, compared, executed>>
  PROVE  /\ Grows /\ StoreTypeOK' /\ LogOK'
         /\ e.action # "pending"
<1>1. LogOK /\ StoreTypeOK /\ DecidingOK(r) /\ WorkOK(r)
  BY Fetch DEF IInv, StoreInv
<1>2. /\ log' \in Seq({log'[n] : n \in DOMAIN log'})
      /\ Len(log) \in Nat /\ DOMAIN log = 1 .. Len(log)
      /\ DOMAIN log' = DOMAIN log \cup {Len(log) + 1}
      /\ \A n \in DOMAIN log : log'[n] = log[n]
      /\ log'[Len(log) + 1] = e
  BY <1>1, LogGrows
<1>3. Grows
  BY <1>2 DEF Grows
<1>4. /\ e.id = IdOf(r) /\ e.subject = request[r].subject
      /\ e.action = ActionOf(request[r].op)
      /\ DOMAIN e = {"id", "subject", "action", "supersedes"}
  <2> HIDE DEF IdOf, ActionOf
  <2> QED OBVIOUS
<1>5. e.action # "pending"
  <2>1. /\ request[r].op.kind \in Deciding
        /\ request[r].op \in Operation[r]
    BY <1>1 DEF DecidingOK, WorkOK, Underway, Ended
  <2>2. request[r].op.kind \in Reviewing => request[r].op.action # "pending"
    BY <2>1, OperationAssumption DEF Reviewing, ReviewAction
  <2> QED BY <1>4, <2>1, <2>2 DEF ActionOf, Deciding, Reviewing
<1>6. StoreTypeOK'
  <2>1. \A n \in DOMAIN log' : DOMAIN log'[n] = {"id", "subject", "action", "supersedes"}
    BY <1>1, <1>2, <1>4 DEF StoreTypeOK
  <2>2. \A n, m \in DOMAIN log' : log'[m].id = log'[n].id => m = n
    BY <1>1, <1>2, <1>4 DEF StoreTypeOK
  <2>3. occurrences' \subseteq Occurrence /\ extracted' \subseteq Instance
    BY <1>1 DEF StoreTypeOK
  <2>4. relations' = relations /\ compared' = compared
    OBVIOUS
  <2> QED BY <1>1, <2>1, <2>2, <2>3, <2>4 DEF StoreTypeOK
<1>7. LogOK'
  <2>1. ASSUME NEW o \in Occurrence, On(Of(o))' # {} PROVE o \in occurrences'
    <3>1. PICK n \in DOMAIN log' : log'[n].subject = Of(o)
      BY <2>1 DEF On
    <3>2. CASE n \in DOMAIN log
      BY <1>1, <1>2, <3>1, <3>2 DEF LogOK, On
    <3>3. CASE n = Len(log) + 1
      BY <1>1, <1>2, <1>4, <3>1, <3>3 DEF DecidingOK
    <3> QED BY <1>2, <3>2, <3>3
  <2>2. \A n \in DOMAIN log' : log'[n].action # "pending"
    BY <1>1, <1>2, <1>5 DEF LogOK
  <2>3. IsFiniteSet(occurrences')
    BY <1>1 DEF LogOK
  <2> QED BY <1>2, <2>1, <2>2, <2>3 DEF LogOK
<1> QED BY <1>3, <1>5, <1>6, <1>7

(* It supersedes what came before, and the latest if nobody interferes. *)
LEMMA AppendKeepsChain ==
  ASSUME IInv, NEW r \in Request, request[r].pc = "append",
         NEW e, e = [id |-> IdOf(r), subject |-> request[r].subject,
                     action |-> ActionOf(request[r].op),
                     supersedes |-> request[r].previous],
         log' = Append(log, e), overlapped' = overlapped
  PROVE  SupersedesEarlier' /\ ReviewsFormAChain'
<1>1. /\ LogOK /\ DecidingOK(r) /\ SupersedesEarlier /\ ReviewsFormAChain /\ AloneOK
  BY Fetch DEF IInv, StoreInv
<1> DEFINE new == Len(log) + 1
<1>2. /\ Len(log) \in Nat /\ DOMAIN log = 1 .. Len(log)
      /\ DOMAIN log' = DOMAIN log \cup {new}
      /\ \A n \in DOMAIN log : log'[n] = log[n]
      /\ log'[new] = e
  BY <1>1, LogGrows DEF new
<1>3. PICK id : id = IdOf(r)
  OBVIOUS
<1>4. PICK action : action = ActionOf(request[r].op)
  OBVIOUS
<1>5. /\ e.id = id /\ e.subject = request[r].subject /\ e.action = action
      /\ e.supersedes = request[r].previous
  <2> HIDE DEF IdOf, ActionOf
  <2> QED BY <1>3, <1>4
<1>6. new \in Nat /\ new \notin DOMAIN log /\ \A n \in DOMAIN log : n \in Nat /\ n < new
  BY <1>2
<1> HIDE DEF new
<1>7. SupersedesEarlier'
  <2>1. ASSUME NEW n \in DOMAIN log, log[n].supersedes # None
        PROVE  \E m \in 1 .. n - 1 : /\ log'[m].id = log'[n].supersedes
                                     /\ log'[m].subject = log'[n].subject
    <3>1. PICK m \in 1 .. n - 1 : /\ log[m].id = log[n].supersedes
                                  /\ log[m].subject = log[n].subject
      BY <1>1, <2>1 DEF SupersedesEarlier
    <3>2. m \in DOMAIN log
      BY <1>2, <3>1
    <3> QED BY <1>2, <3>1, <3>2
  <2>2. ASSUME e.supersedes # None
        PROVE  \E m \in 1 .. new - 1 : /\ log'[m].id = e.supersedes
                                       /\ log'[m].subject = e.subject
    <3>1. PICK m \in On(request[r].subject) : log[m].id = request[r].previous
      BY <1>1, <1>5, <2>2 DEF DecidingOK
    <3>2. m \in DOMAIN log /\ log[m].subject = request[r].subject
      BY <3>1 DEF On
    <3>3. m \in 1 .. new - 1
      BY <1>2, <3>2 DEF new
    <3> QED BY <1>2, <1>5, <3>1, <3>2, <3>3
  <2> QED BY <1>2, <2>1, <2>2 DEF SupersedesEarlier
<1>8. ReviewsFormAChain'
  <2> SUFFICES ASSUME ~overlapped, NEW n \in DOMAIN log'
               PROVE  LET before == {m \in On(log[n].subject)' : m < n} IN
                      IF before = {} THEN log'[n].supersedes = None
                      ELSE \/ log'[n].supersedes = log'[Max(before)].id
                           \/ ByAuthor(log[n])' /\ log'[n].supersedes = None
    BY DEF ReviewsFormAChain
  <2> DEFINE before == {m \in On(log[n].subject)' : m < n}
  <2>1. CASE n \in DOMAIN log
    <3> DEFINE old == {m \in On(log[n].subject) : m < n}
    <3>1. log'[n] = log[n] /\ n \in Nat
      BY <1>2, <2>1
    <3>2. before = old
      <4>1. ASSUME NEW m, m < n, m \in DOMAIN log', log'[m].subject = log[n].subject
            PROVE  m \in DOMAIN log /\ log[m].subject = log[n].subject
        BY <1>2, <1>6, <3>1, <4>1
      <4> QED BY <1>2, <3>1, <4>1 DEF On
    <3>3. IF old = {} THEN log[n].supersedes = None
          ELSE \/ log[n].supersedes = log[Max(old)].id
               \/ ByAuthor(log[n]) /\ log[n].supersedes = None
      BY <1>1, <2>1 DEF ReviewsFormAChain
    <3>4. old # {} => Max(old) \in DOMAIN log
      <4>1. old \in SUBSET Nat /\ \A m \in old : m <= n
        BY <1>6, <3>1 DEF On
      <4>2. old # {} => Max(old) \in old
        <5> HIDE DEF old
        <5> QED BY <3>1, <4>1, MaxOfBounded
      <4> QED BY <4>2 DEF On
    <3>5. ByAuthor(log[n])' <=> ByAuthor(log[n])
      BY <3>1 DEF ByAuthor
    <3> HIDE DEF old, before
    <3>6. IF before = {} THEN log'[n].supersedes = None
          ELSE \/ log'[n].supersedes = log'[Max(before)].id
               \/ ByAuthor(log[n])' /\ log'[n].supersedes = None
      BY <1>2, <3>1, <3>2, <3>3, <3>4, <3>5
    <3> QED BY <3>6 DEF before
  <2>2. CASE n = new
    <3>1. log'[n] = e /\ n \in Nat
      BY <1>2, <1>6, <2>2
    <3>2. before = On(request[r].subject)
      BY <1>2, <1>5, <1>6, <2>2, <3>1 DEF On
    <3>3. request[r].op.kind \in Deciding
      BY <1>1 DEF DecidingOK
    <3>4. CASE before = {}
      <4>1. request[r].previous = None
        BY <1>1, <3>2, <3>4 DEF DecidingOK
      <4> HIDE DEF before
      <4>2. log'[n].supersedes = None
        BY <1>5, <3>1, <4>1
      <4> QED BY <3>4, <4>2 DEF before
    <3>5. CASE before # {} /\ request[r].op.kind \in Reviewing
      <4>1. request[r].previous = LatestId(request[r].subject)
        BY <1>1, <3>5 DEF AloneOK
      <4>2. On(request[r].subject) # {} => Max(On(request[r].subject)) \in DOMAIN log
        BY <1>1, OnIsBounded DEF On
      <4> HIDE DEF before
      <4>3. request[r].previous = log[Max(before)].id /\ Max(before) \in DOMAIN log
        BY <3>2, <3>5, <4>1, <4>2 DEF LatestId
      <4>4. log'[n].supersedes = log'[Max(before)].id
        BY <1>2, <1>5, <3>1, <4>3
      <4> QED BY <3>5, <4>4 DEF before
    <3>6. CASE before # {} /\ request[r].op.kind \notin Reviewing
      <4>1. request[r].previous = None /\ request[r].op.kind \in {"author", "relate"}
        BY <1>1, <3>3, <3>6 DEF DecidingOK, Deciding
      <4>2. action = "accept"
        BY <1>4, <4>1 DEF ActionOf
      <4>3. \/ id[1] # request[r].subject
            \/ \E p \in Occurrence \X Occurrence :
                 request[r].subject = Relation(<<p[1], p[2], id[4]>>)
        <5>1. CASE request[r].op.kind = "author"
          <6>1. PICK o \in Occurrence : request[r].subject = Of(o)
            BY <1>1, <5>1 DEF DecidingOK
          <6>2. id[1] = <<"unit", request[r].op.occurrence>>
            BY <1>3, <5>1 DEF IdOf, Id
          <6> QED BY <6>1, <6>2, SubjectsDiffer
        <5>2. CASE request[r].op.kind = "relate"
          <6>1. id[4] = request[r].at
            BY <1>3, <5>2 DEF IdOf, Id
          <6>2. \E p \in Occurrence \X Occurrence :
                  request[r].subject = Relation(<<p[1], p[2], request[r].at>>)
            BY <1>1, <5>2 DEF DecidingOK
          <6> QED BY <6>1, <6>2
        <5> QED BY <4>1, <5>1, <5>2
      <4>4. ByAuthor(log[n])'
        BY <1>5, <3>1, <4>2, <4>3 DEF ByAuthor
      <4>5. log'[n].supersedes = None
        BY <1>5, <3>1, <4>1
      <4> QED BY <3>6, <4>4, <4>5
    <3> QED BY <3>4, <3>5, <3>6
  <2> QED BY <1>2, <2>1, <2>2
<1> QED BY <1>7, <1>8

(* What executions and comparisons say, once the log has grown. *)
LEMMA GrowthKeepsComparisons ==
  ASSUME IInv, Grows, UNCHANGED <<relations, compared, executed>>
  PROVE  ExecutedOK' /\ ProposedWereAccepted' /\ ComparedMeansProposed'
<1>1. ExecutedOK /\ ProposedWereAccepted /\ ComparedMeansProposed
  BY DEF IInv, StoreInv
<1>2. /\ \A o : WasAccepted(o) => WasAccepted(o)'
      /\ \A w : WindowOK(w) => WindowOK(w)'
  BY WhatWasStays
<1>3. ExecutedOK'
  BY <1>1, <1>2 DEF ExecutedOK
<1>4. ProposedWereAccepted'
  BY <1>1, <1>2 DEF ProposedWereAccepted, WasAccepted
<1>5. ComparedMeansProposed'
  <2>1. \A w : Proposals(w)' = Proposals(w)
    BY DEF Proposals
  <2> QED BY <1>1, <2>1 DEF ComparedMeansProposed
<1> QED BY <1>3, <1>4, <1>5

LEMMA AppendDecisionOK ==
  ASSUME IInv, NEW r \in Request, AppendDecision(r)
  PROVE  IInv'
<1> DEFINE entry == [id |-> IdOf(r), subject |-> request[r].subject,
                     action |-> ActionOf(request[r].op),
                     supersedes |-> request[r].previous]
<1>1. /\ request[r].pc = "append" /\ End(r, "done", None)
      /\ log' = IF \E n \in DOMAIN log : log[n].id = IdOf(r) THEN log
                ELSE Append(log, entry)
      /\ UNCHANGED <<occurrences, extracted, claims, relations, compared, executed,
                     clock, crashes, overlapped>>
  BY DEF AppendDecision
<1>2. Underway(r) /\ "done" \in Ended
  BY <1>1 DEF Underway, Ended
<1>3. /\ DOMAIN request = Request
      /\ clock \in 0 .. MaxClock /\ crashes \in 0 .. MaxCrashes
  BY Fetch
<1>4. CASE \E n \in DOMAIN log : log[n].id = IdOf(r)
  <2>1. log' = log
    BY <1>1, <1>4
  <2>2. /\ UNCHANGED <<store, overlapped>>
        /\ clock' \in 0 .. MaxClock /\ crashes' \in 0 .. MaxCrashes
    BY <1>1, <1>3, <2>1 DEF store
  <2> QED BY <1>1, <1>2, <2>2, EndOK
<1>5. CASE \A n \in DOMAIN log : log[n].id # IdOf(r)
  <2>1. PICK e : e = entry
    OBVIOUS
  <2>2. log' = Append(log, e)
    BY <1>1, <1>5, <2>1
  <2> HIDE DEF entry
  <2>3. Grows /\ StoreTypeOK' /\ LogOK'
    BY <1>1, <1>5, <2>1, <2>2, AppendKeepsTypes DEF entry
  <2>4. SupersedesEarlier' /\ ReviewsFormAChain'
    BY <1>1, <2>1, <2>2, AppendKeepsChain DEF entry
  <2>5. ExecutedOK' /\ ProposedWereAccepted' /\ ComparedMeansProposed'
    BY <1>1, <2>3, GrowthKeepsComparisons
  <2>6. StoreInv'
    BY <2>3, <2>4, <2>5 DEF StoreInv
  <2>7. Moves(r) /\ WorkOK(r)' /\ request'[r].pc = "done"
    BY <1>1, <1>2, <1>3, EndIsOK
  <2>8. /\ clock' \in 0 .. MaxClock /\ crashes' \in 0 .. MaxCrashes
        /\ overlapped' = overlapped
    BY <1>1, <1>3
  <2> QED BY <1>2, <2>3, <2>4, <2>6, <2>7, <2>8, StepOfRequest
<1> QED BY <1>4, <1>5

(* What an occurrence or an extracted instance more changes. *)
LEMMA MoreOccurrences ==
  ASSUME IInv, occurrences \subseteq occurrences', occurrences' \subseteq Occurrence,
         IsFiniteSet(occurrences'),
         extracted \subseteq extracted', extracted' \subseteq Instance,
         UNCHANGED <<log, claims, relations, compared, executed>>
  PROVE  Grows /\ StoreInv'
<1>1. LogOK /\ StoreTypeOK /\ SupersedesEarlier
  BY DEF IInv, StoreInv
<1>2. Grows
  BY DEF Grows
<1>3. LogOK'
  BY <1>1 DEF LogOK, On
<1>4. StoreTypeOK'
  BY <1>1 DEF StoreTypeOK
<1>5. SupersedesEarlier'
  BY <1>1 DEF SupersedesEarlier
<1>6. ExecutedOK' /\ ProposedWereAccepted' /\ ComparedMeansProposed'
  BY <1>2, GrowthKeepsComparisons
<1> QED BY <1>2, <1>3, <1>4, <1>5, <1>6 DEF StoreInv

(* ReviewsFormAChain is about the log alone. *)
LEMMA ChainStays ==
  ASSUME ReviewsFormAChain, log' = log, overlapped' = overlapped
  PROVE  ReviewsFormAChain'
<1>1. \A s : On(s)' = On(s)
  BY DEF On
<1> QED BY <1>1 DEF ReviewsFormAChain, ByAuthor

LEMMA PutOccurrenceOK ==
  ASSUME IInv, NEW r \in Request, PutOccurrence(r)
  PROVE  IInv'
<1> DEFINE o == request[r].op.occurrence
<1>1. /\ request[r].pc = "begin" /\ request[r].op.kind = "author"
      /\ clock' \in clock .. MaxClock
      /\ occurrences' = occurrences \cup {o}
      /\ request' = [request EXCEPT ![r].pc = "append", ![r].subject = Of(o),
                                    ![r].at = clock']
      /\ UNCHANGED <<extracted, log, claims, relations, compared, executed,
                     crashes, overlapped>>
  BY DEF PutOccurrence, At, TimePasses
<1>2. /\ DOMAIN request = Request /\ DOMAIN request[r] = Fields
      /\ WorkOK(r) /\ DecidingOK(r) /\ LogOK
      /\ clock \in 0 .. MaxClock /\ crashes \in 0 .. MaxCrashes
  BY Fetch
<1>3. Underway(r)
  BY <1>1 DEF Underway, Ended
<1>4. PICK subject : subject = Of(o)
  OBVIOUS
<1>5. /\ Moves(r)
      /\ DOMAIN request'[r] = Fields
      /\ request'[r].pc = "append" /\ request'[r].subject = subject
      /\ request'[r].previous = request[r].previous
      /\ request'[r].op = request[r].op /\ request'[r].answer = request[r].answer
  BY <1>1, <1>2, <1>4 DEF Moves, Fields
<1>6. o \in Occurrence
  <2>1. request[r].op \in Operation[r]
    BY <1>2, <1>3 DEF WorkOK
  <2> QED BY <1>1, <2>1, OperationAssumption, ReviewAssumption
<1>7. Grows /\ StoreInv'
  <2>1. IsFiniteSet(occurrences')
    BY <1>1, <1>2, FS_AddElement DEF LogOK
  <2>2. occurrences \subseteq Occurrence /\ extracted \subseteq Instance
    BY DEF IInv, StoreInv, StoreTypeOK
  <2>3. /\ occurrences \subseteq occurrences' /\ occurrences' \subseteq Occurrence
        /\ extracted \subseteq extracted' /\ extracted' \subseteq Instance
        /\ UNCHANGED <<log, claims, relations, compared, executed>>
    BY <1>1, <1>6, <2>2
  <2> QED BY <2>1, <2>3, MoreOccurrences
<1>8. DecidingOK(r)'
  <2>1. request[r].previous = None
    BY <1>1, <1>2 DEF DecidingOK
  <2>2. \A p \in Occurrence : subject = Of(p) => p \in occurrences'
    BY <1>1, <1>4, SubjectsDiffer
  <2> QED BY <1>1, <1>4, <1>5, <1>6, <2>1, <2>2 DEF DecidingOK, Deciding, Reviewing
<1>9. ReadingOK(r)'
  BY <1>5 DEF ReadingOK, Comparing
<1>10. WorkOK(r)'
  BY <1>3, <1>5, <1>8, <1>9, GoesOn DEF Ended
<1>11. ReviewsFormAChain'
  BY <1>1, ChainStays DEF IInv
<1>12. request'[r].op.kind \notin Reviewing
  BY <1>1, <1>5 DEF Reviewing
<1>13. /\ clock' \in 0 .. MaxClock /\ crashes' \in 0 .. MaxCrashes
       /\ overlapped' = overlapped
  BY <1>1, <1>2, ReviewAssumption
<1> QED BY <1>3, <1>5, <1>7, <1>10, <1>11, <1>12, <1>13, StepOfRequest

LEMMA ExtractOK ==
  ASSUME IInv, Extract
  PROVE  IInv'
<1>1. /\ occurrences' = occurrences \/ \E o \in Occurrence : occurrences' = occurrences \cup {o}
      /\ extracted' = extracted \/ \E i \in Instance : extracted' = extracted \cup {i}
      /\ UNCHANGED <<log, claims, relations, compared, executed, clock, request,
                     crashes, overlapped>>
  BY DEF Extract
<1>2. Grows /\ StoreInv'
  <2>1. occurrences \subseteq Occurrence /\ extracted \subseteq Instance /\ IsFiniteSet(occurrences)
    BY DEF IInv, StoreInv, StoreTypeOK, LogOK
  <2>2. IsFiniteSet(occurrences')
    BY <1>1, <2>1, FS_AddElement
  <2>3. /\ occurrences \subseteq occurrences' /\ occurrences' \subseteq Occurrence
        /\ extracted \subseteq extracted' /\ extracted' \subseteq Instance
    BY <1>1, <2>1
  <2> QED BY <1>1, <2>2, <2>3, MoreOccurrences
<1>3. \A q \in Request : WorkOK(q)'
  <2>1. ASSUME NEW q \in Request PROVE WorkOK(q)'
    <3>1. WorkOK(q) /\ request'[q] = request[q]
      BY <1>1 DEF IInv
    <3> QED BY <1>2, <3>1, WorkStays
  <2> QED BY <2>1
<1>4. AloneOK'
  <2>1. AloneOK
    BY DEF IInv
  <2>2. \A q \in Request : /\ Underway(q)' <=> Underway(q)
                           /\ LatestId(request[q].subject)' = LatestId(request[q].subject)
    BY <1>1 DEF Underway, LatestId, On
  <2> QED BY <1>1, <2>1, <2>2 DEF AloneOK
<1>5. ReviewsFormAChain'
  BY <1>1, ChainStays DEF IInv
<1>6. /\ clock' \in 0 .. MaxClock /\ crashes' \in 0 .. MaxCrashes /\ overlapped' \in BOOLEAN
      /\ DOMAIN request' = Request
  BY <1>1 DEF IInv
<1> QED BY <1>2, <1>3, <1>4, <1>5, <1>6 DEF IInv

LEMMA CreateClaimOK ==
  ASSUME IInv, NEW r \in Request, CreateClaim(r)
  PROVE  IInv'
<1>1. /\ request[r].pc = "begin" /\ clock' \in clock .. MaxClock
      /\ End(r, "done", None)
      /\ UNCHANGED <<occurrences, extracted, log, relations, compared, executed,
                     crashes, overlapped>>
  BY DEF CreateClaim, At, TimePasses
<1>2. Underway(r) /\ "done" \in Ended
  BY <1>1 DEF Underway, Ended
<1>3. /\ DOMAIN request = Request
      /\ clock \in 0 .. MaxClock /\ crashes \in 0 .. MaxCrashes
  BY Fetch
<1>4. Moves(r) /\ WorkOK(r)' /\ request'[r].pc = "done"
  BY <1>1, <1>2, <1>3, EndIsOK
<1>5. Grows
  BY <1>1 DEF Grows
<1>6. StoreInv'
  <2>1. StoreTypeOK /\ LogOK /\ SupersedesEarlier
    BY DEF IInv, StoreInv
  <2>2. StoreTypeOK'
    BY <1>1, <2>1 DEF StoreTypeOK
  <2>3. LogOK'
    BY <1>1, <2>1 DEF LogOK, On
  <2>4. SupersedesEarlier'
    BY <1>1, <2>1 DEF SupersedesEarlier
  <2>5. ExecutedOK' /\ ProposedWereAccepted' /\ ComparedMeansProposed'
    BY <1>1, <1>5, GrowthKeepsComparisons
  <2> QED BY <2>2, <2>3, <2>4, <2>5 DEF StoreInv
<1>7. ReviewsFormAChain'
  BY <1>1, ChainStays DEF IInv
<1>8. /\ clock' \in 0 .. MaxClock /\ crashes' \in 0 .. MaxCrashes
      /\ overlapped' = overlapped
  BY <1>1, <1>3, ReviewAssumption
<1> QED BY <1>2, <1>4, <1>5, <1>6, <1>7, <1>8, StepOfRequest
-----------------------------------------------------------------------------
(* Relations and comparisons.                                              *)

(* createRelation() *)
LEMMA WithRelationPuts ==
  ASSUME StoreTypeOK, NEW rel, DOMAIN rel = {"id", "from", "to", "provenance"},
         relations' = WithRelation(rel),
         UNCHANGED <<occurrences, extracted, log, compared>>
  PROVE  /\ relations \subseteq relations' /\ relations' \subseteq relations \cup {rel}
         /\ StoreTypeOK'
<1>1. relations' = IF \E held \in relations : held.id = rel.id THEN relations
                   ELSE relations \cup {rel}
  BY DEF WithRelation
<1>2. relations \subseteq relations' /\ relations' \subseteq relations \cup {rel}
  BY <1>1
<1>3. \A x, y \in relations' : x.id = y.id => x = y
  BY <1>1 DEF StoreTypeOK
<1>4. \A x \in relations' : DOMAIN x = {"id", "from", "to", "provenance"}
  BY <1>2 DEF StoreTypeOK
<1> QED BY <1>2, <1>3, <1>4 DEF StoreTypeOK

LEMMA CreateRelationOK ==
  ASSUME IInv, NEW r \in Request, CreateRelation(r)
  PROVE  IInv'
<1> DEFINE op == request[r].op
           id == <<op.from, op.to, clock'>>
           relation == [id |-> id, from |-> op.from, to |-> op.to,
                        provenance |-> "reviewer-authored"]
<1>1. /\ request[r].pc = "begin" /\ op.kind = "relate"
      /\ clock' \in clock .. MaxClock
      /\ IF {op.from, op.to} \subseteq occurrences
         THEN /\ relations' = WithRelation(relation)
              /\ request' = [request EXCEPT ![r].pc = "append",
                                            ![r].subject = Relation(id),
                                            ![r].at = clock']
         ELSE End(r, "not-found", None) /\ UNCHANGED relations
      /\ UNCHANGED <<occurrences, extracted, log, claims, compared, executed,
                     crashes, overlapped>>
  BY DEF CreateRelation, At, TimePasses
<1>2. /\ DOMAIN request = Request /\ DOMAIN request[r] = Fields
      /\ WorkOK(r) /\ DecidingOK(r) /\ LogOK
      /\ clock \in 0 .. MaxClock /\ crashes \in 0 .. MaxCrashes
  BY Fetch
<1>3. Underway(r) /\ "not-found" \in Ended
  BY <1>1 DEF Underway, Ended
<1>4. /\ clock' \in 0 .. MaxClock /\ crashes' \in 0 .. MaxCrashes
      /\ overlapped' = overlapped
  BY <1>1, <1>2, ReviewAssumption
<1>5. CASE ~({op.from, op.to} \subseteq occurrences)
  <2>1. End(r, "not-found", None) /\ UNCHANGED <<store, overlapped>>
    BY <1>1, <1>5 DEF store
  <2> QED BY <1>3, <1>4, <2>1, EndOK
<1>6. CASE {op.from, op.to} \subseteq occurrences
  <2>1. PICK rel : rel = relation
    OBVIOUS
  <2>2. /\ DOMAIN rel = {"id", "from", "to", "provenance"}
        /\ rel.provenance = "reviewer-authored"
    BY <2>1
  <2>3. PICK subject : subject = Relation(id)
    OBVIOUS
  <2>4. op.from \in Occurrence /\ op.to \in Occurrence
    BY <1>6 DEF IInv, StoreInv, StoreTypeOK
  <2>5. relations' = WithRelation(rel)
    BY <1>1, <1>6, <2>1
  <2>6. /\ Moves(r)
        /\ DOMAIN request'[r] = Fields
        /\ request'[r].pc = "append" /\ request'[r].subject = subject
        /\ request'[r].at = clock'
        /\ request'[r].previous = request[r].previous
        /\ request'[r].op = request[r].op /\ request'[r].answer = request[r].answer
    <3> HIDE DEF id, relation
    <3> QED BY <1>1, <1>2, <1>6, <2>3 DEF Moves, Fields
  <2>7. /\ StoreTypeOK' /\ relations \subseteq relations'
        /\ relations' \subseteq relations \cup {rel}
    BY <1>1, <2>2, <2>5, WithRelationPuts DEF IInv, StoreInv
  <2> HIDE DEF relation
  <2>8. Grows
    BY <1>1 DEF Grows
  <2>9. StoreInv'
    <3>1. /\ LogOK /\ SupersedesEarlier /\ ExecutedOK
          /\ ProposedWereAccepted /\ ComparedMeansProposed
      BY DEF IInv, StoreInv
    <3>2. LogOK'
      BY <1>1, <3>1 DEF LogOK, On
    <3>3. SupersedesEarlier'
      BY <1>1, <3>1 DEF SupersedesEarlier
    <3>4. ExecutedOK'
      BY <1>1, <3>1 DEF ExecutedOK, WindowOK, WasAccepted
    <3>5. \A x \in relations' : x.provenance = "model-proposed" => x \in relations
      BY <2>2, <2>7
    <3>6. ProposedWereAccepted'
      BY <1>1, <3>1, <3>5 DEF ProposedWereAccepted
    <3>7. ComparedMeansProposed'
      <4>1. \A w : Proposals(w)' = Proposals(w)
        BY <1>1 DEF Proposals
      <4> QED BY <1>1, <2>7, <3>1, <3>5, <4>1 DEF ComparedMeansProposed
    <3> QED BY <2>7, <3>2, <3>3, <3>4, <3>6, <3>7 DEF StoreInv
  <2>10. DecidingOK(r)'
    <3>1. request[r].previous = None
      BY <1>1, <1>2 DEF DecidingOK
    <3>2. \A o \in Occurrence : subject # Of(o)
      BY <2>3, SubjectsDiffer
    <3>3. \E p \in Occurrence \X Occurrence : subject = Relation(<<p[1], p[2], clock'>>)
      <4>1. <<op.from, op.to>> \in Occurrence \X Occurrence
        BY <2>4
      <4> QED BY <2>3, <4>1
    <3> QED BY <1>1, <2>6, <3>1, <3>2, <3>3 DEF DecidingOK, Deciding, Reviewing
  <2>11. ReadingOK(r)'
    BY <2>6 DEF ReadingOK, Comparing
  <2>12. WorkOK(r)'
    BY <1>3, <2>6, <2>10, <2>11, GoesOn DEF Ended
  <2>13. ReviewsFormAChain'
    BY <1>1, ChainStays DEF IInv
  <2>14. request'[r].op.kind \notin Reviewing
    BY <1>1, <2>6 DEF Reviewing
  <2> QED BY <1>3, <1>4, <2>6, <2>8, <2>9, <2>12, <2>13, <2>14, StepOfRequest
<1> QED BY <1>5, <1>6

(* The window a comparison is at. *)
LEMMA NextIsOK ==
  ASSUME IInv, NEW r \in Request, request[r].pc \in Comparing, request[r].todo # {}
  PROVE  NextWindow(r) \in request[r].todo /\ WindowOK(NextWindow(r))
<1>1. \A w \in request[r].todo : WindowOK(w)
  BY Fetch DEF ReadingOK
<1>2. \A w \in request[r].todo : w[2] \in Nat
  BY <1>1 DEF WindowOK
<1> QED BY <1>1, <1>2, NextIsToDo

(* What a settled execution changes. *)
LEMMA MoreExecuted ==
  ASSUME IInv, NEW w, WindowOK(w), w \notin DOMAIN executed,
         NEW outcome \in {None} \cup SUBSET (w[3] \X w[4]),
         executed' = With(executed, w, outcome),
         UNCHANGED <<occurrences, extracted, log, claims, relations, compared>>
  PROVE  Grows /\ StoreInv'
<1>1. /\ DOMAIN executed' = DOMAIN executed \cup {w}
      /\ executed'[w] = outcome
      /\ \A x \in DOMAIN executed : executed'[x] = executed[x]
  BY DEF With
<1>2. /\ LogOK /\ SupersedesEarlier /\ ExecutedOK /\ StoreTypeOK
      /\ ProposedWereAccepted /\ ComparedMeansProposed
  BY DEF IInv, StoreInv
<1>3. Grows
  BY <1>1 DEF Grows
<1>4. LogOK'
  BY <1>2 DEF LogOK, On
<1>5. SupersedesEarlier'
  BY <1>2 DEF SupersedesEarlier
<1>6. StoreTypeOK'
  BY <1>2 DEF StoreTypeOK
<1>7. ExecutedOK'
  <2>1. \A x : WindowOK(x) => WindowOK(x)'
    BY <1>3, WhatWasStays
  <2>2. outcome # None => outcome \subseteq w[3] \X w[4]
    OBVIOUS
  <2>3. ASSUME NEW x \in DOMAIN executed'
        PROVE  WindowOK(x)' /\ (executed'[x] # None => executed'[x] \subseteq x[3] \X x[4])
    <3>1. CASE x = w
      BY <1>1, <2>1, <2>2, <3>1
    <3>2. CASE x \in DOMAIN executed
      BY <1>1, <1>2, <2>1, <3>2 DEF ExecutedOK
    <3> QED BY <1>1, <3>1, <3>2
  <2>4. \A x \in DOMAIN compared' : compared'[x] = "committed" => x \in DOMAIN executed'
    BY <1>1, <1>2 DEF ExecutedOK
  <2> QED BY <2>3, <2>4 DEF ExecutedOK
<1>8. ProposedWereAccepted'
  BY <1>2 DEF ProposedWereAccepted
<1>9. ComparedMeansProposed'
  <2>1. \A x \in DOMAIN executed : Proposals(x)' = Proposals(x)
    BY <1>1 DEF Proposals
  <2>2. \A x \in DOMAIN compared : compared[x] = "committed" => x \in DOMAIN executed
    BY <1>2 DEF ExecutedOK
  <2>3. ASSUME NEW x \in DOMAIN compared', compared'[x] = "committed"
        PROVE  Proposals(x)' \subseteq relations'
    BY <1>2, <2>1, <2>2, <2>3 DEF ComparedMeansProposed
  <2>4. ASSUME NEW rel \in relations', rel.provenance = "model-proposed"
        PROVE  \E x \in DOMAIN executed' : executed'[x] # None /\ rel \in Proposals(x)'
    <3>1. PICK x \in DOMAIN executed : executed[x] # None /\ rel \in Proposals(x)
      BY <1>2, <2>4 DEF ComparedMeansProposed
    <3> QED BY <1>1, <2>1, <3>1
  <2> QED BY <2>3, <2>4 DEF ComparedMeansProposed
<1> QED BY <1>3, <1>4, <1>5, <1>6, <1>7, <1>8, <1>9 DEF StoreInv

LEMMA ExecuteOK ==
  ASSUME IInv, NEW r \in Request, Execute(r)
  PROVE  IInv'
<1>1. PICK w : w = NextWindow(r)
  OBVIOUS
<1>2. /\ request[r].pc = "execute" /\ request[r].todo # {}
      /\ IF w \in DOMAIN executed THEN UNCHANGED executed
         ELSE \E outcome \in {None} \cup SUBSET (w[3] \X w[4]) :
                executed' = With(executed, w, outcome)
      /\ \/ Goto(r, "failed")
         \/ executed'[w] # None /\ Goto(r, "relations")
      /\ UNCHANGED <<occurrences, extracted, log, claims, relations, compared, clock,
                     crashes, overlapped>>
  BY <1>1 DEF Execute
<1>3. w \in request[r].todo /\ WindowOK(w)
  BY <1>1, <1>2, NextIsOK DEF Comparing
<1>4. Underway(r)
  BY <1>2 DEF Underway, Ended
<1>5. Grows /\ StoreInv' /\ w \in DOMAIN executed'
  <2>1. CASE w \in DOMAIN executed
    <3>1. UNCHANGED store /\ w \in DOMAIN executed'
      BY <1>2, <2>1 DEF store
    <3> QED BY <3>1, StoreStays DEF IInv
  <2>2. CASE w \notin DOMAIN executed
    <3>1. PICK outcome \in {None} \cup SUBSET (w[3] \X w[4]) :
            executed' = With(executed, w, outcome)
      BY <1>2, <2>2
    <3>2. w \in DOMAIN executed'
      BY <3>1 DEF With
    <3> QED BY <1>2, <1>3, <2>2, <3>1, <3>2, MoreExecuted
  <2> QED BY <2>1, <2>2
<1>6. /\ DOMAIN request = Request /\ DOMAIN request[r] = Fields
      /\ ReadingOK(r)
      /\ clock \in 0 .. MaxClock /\ crashes \in 0 .. MaxCrashes
  BY Fetch
<1>7. /\ Moves(r)
      /\ DOMAIN request'[r] = Fields
      /\ request'[r].pc \in {"failed", "relations"}
      /\ request'[r].pc = "relations" => executed'[w] # None
      /\ request'[r].todo = request[r].todo
      /\ request'[r].op = request[r].op /\ request'[r].answer = request[r].answer
  BY <1>2, <1>6 DEF Goto, Moves, Fields
<1>8. DecidingOK(r)'
  BY <1>7 DEF DecidingOK
<1>9. ReadingOK(r)'
  <2>1. NextWindow(r)' = w
    BY <1>1, <1>7 DEF NextWindow
  <2>2. \A x \in request[r].todo : WindowOK(x)'
    BY <1>2, <1>5, <1>6, WhatWasStays DEF ReadingOK, Comparing
  <2> QED BY <1>2, <1>5, <1>7, <2>1, <2>2 DEF ReadingOK
<1>10. WorkOK(r)'
  BY <1>4, <1>7, <1>8, <1>9, GoesOn DEF Ended
<1>11. ReviewsFormAChain'
  BY <1>2, ChainStays DEF IInv
<1>12. /\ clock' \in 0 .. MaxClock /\ crashes' \in 0 .. MaxCrashes
       /\ overlapped' = overlapped
  BY <1>2, <1>6
<1>13. request'[r].pc # "append"
  BY <1>7
<1> QED BY <1>4, <1>5, <1>7, <1>10, <1>11, <1>12, <1>13, StepOfRequest

LEMMA ProposeOK ==
  ASSUME IInv, NEW r \in Request, Propose(r)
  PROVE  IInv'
<1>1. PICK w : w = NextWindow(r)
  OBVIOUS
<1>2. PICK rel \in Proposals(w) \ relations : relations' = WithRelation(rel)
  BY <1>1 DEF Propose
<1>3. /\ request[r].pc = "relations"
      /\ UNCHANGED <<occurrences, extracted, log, claims, compared, executed, clock,
                     request, crashes, overlapped>>
  BY DEF Propose
<1>4. /\ StoreTypeOK /\ LogOK /\ SupersedesEarlier /\ ExecutedOK
      /\ ProposedWereAccepted /\ ComparedMeansProposed
  BY DEF IInv, StoreInv
<1>5. w \in DOMAIN executed /\ executed[w] # None
  BY <1>1, <1>3, Fetch DEF ReadingOK
<1>6. PICK pair \in executed[w] : rel = Proposal(w, pair)
  BY <1>2 DEF Proposals
<1>7. /\ DOMAIN rel = {"id", "from", "to", "provenance"}
      /\ rel.from = pair[1] /\ rel.to = pair[2]
  BY <1>6 DEF Proposal
<1>8. /\ relations \subseteq relations' /\ relations' \subseteq relations \cup {rel}
      /\ StoreTypeOK'
  BY <1>2, <1>3, <1>4, <1>7, WithRelationPuts
<1>9. Grows
  BY <1>3 DEF Grows
<1>10. WasAccepted(rel.from) /\ WasAccepted(rel.to)
  <2>1. WindowOK(w) /\ executed[w] \subseteq w[3] \X w[4]
    BY <1>4, <1>5 DEF ExecutedOK
  <2>2. pair[1] \in w[3] /\ pair[2] \in w[4]
    BY <1>6, <2>1
  <2> QED BY <1>7, <2>1, <2>2 DEF WindowOK
<1>11. StoreInv'
  <2>1. LogOK'
    BY <1>3, <1>4 DEF LogOK, On
  <2>2. SupersedesEarlier'
    BY <1>3, <1>4 DEF SupersedesEarlier
  <2>3. ExecutedOK'
    BY <1>3, <1>4 DEF ExecutedOK, WindowOK, WasAccepted
  <2>4. ProposedWereAccepted'
    <3>1. ASSUME NEW x \in relations', x.provenance = "model-proposed"
          PROVE  WasAccepted(x.from)' /\ WasAccepted(x.to)'
      <4>1. WasAccepted(x.from) /\ WasAccepted(x.to)
        BY <1>4, <1>8, <1>10, <3>1 DEF ProposedWereAccepted, WasAccepted
      <4> QED BY <1>3, <4>1 DEF WasAccepted
    <3> QED BY <3>1 DEF ProposedWereAccepted, WasAccepted
  <2>5. ComparedMeansProposed'
    <3>1. \A x : Proposals(x)' = Proposals(x)
      BY <1>3 DEF Proposals
    <3> QED BY <1>2, <1>3, <1>4, <1>5, <1>8, <3>1 DEF ComparedMeansProposed
  <2> QED BY <1>8, <2>1, <2>2, <2>3, <2>4, <2>5 DEF StoreInv
<1>12. Underway(r) /\ Moves(r)
  BY <1>3 DEF Underway, Ended, Moves, IInv
<1>13. WorkOK(r)'
  <2>1. WorkOK(r) /\ request'[r] = request[r]
    BY <1>3, Fetch
  <2> QED BY <1>9, <2>1, WorkStays
<1>14. ReviewsFormAChain'
  BY <1>3, ChainStays DEF IInv
<1>15. request'[r].pc # "append"
  BY <1>3
<1>16. /\ clock' \in 0 .. MaxClock /\ crashes' \in 0 .. MaxCrashes
       /\ overlapped' = overlapped
  BY <1>3, Fetch
<1> QED BY <1>8, <1>9, <1>11, <1>12, <1>13, <1>14, <1>15, <1>16, StepOfRequest

(* A row that says committed comes with its relations. *)
LEMMA RowPuts ==
  ASSUME IInv, NEW w, NEW status \in {"committed", "failed"},
         status = "committed" => w \in DOMAIN executed /\ Proposals(w) \subseteq relations,
         compared' = Row(w, status),
         UNCHANGED <<occurrences, extracted, log, claims, relations, executed>>
  PROVE  Grows /\ StoreInv'
<1>1. /\ DOMAIN compared' = DOMAIN compared \cup {w}
      /\ compared'[w] = status
      /\ \A x \in DOMAIN compared \ {w} : compared'[x] = compared[x]
  BY DEF Row, With
<1>2. /\ StoreTypeOK /\ LogOK /\ SupersedesEarlier /\ ExecutedOK
      /\ ProposedWereAccepted /\ ComparedMeansProposed
  BY DEF IInv, StoreInv
<1>3. Grows
  BY DEF Grows
<1>4. LogOK'
  BY <1>2 DEF LogOK, On
<1>5. SupersedesEarlier'
  BY <1>2 DEF SupersedesEarlier
<1>6. StoreTypeOK'
  BY <1>1, <1>2 DEF StoreTypeOK
<1>7. ExecutedOK'
  BY <1>1, <1>2 DEF ExecutedOK, WindowOK, WasAccepted
<1>8. ProposedWereAccepted'
  BY <1>2 DEF ProposedWereAccepted
<1>9. ComparedMeansProposed'
  <2>1. \A x : Proposals(x)' = Proposals(x)
    BY DEF Proposals
  <2> QED BY <1>1, <1>2, <2>1 DEF ComparedMeansProposed
<1> QED BY <1>3, <1>4, <1>5, <1>6, <1>7, <1>8, <1>9 DEF StoreInv

LEMMA RecordComparisonOK ==
  ASSUME IInv, NEW r \in Request, RecordComparison(r)
  PROVE  IInv'
<1>1. PICK w : w = NextWindow(r)
  OBVIOUS
<1>2. /\ request[r].pc = "relations"
      /\ Proposals(w) \subseteq relations
      /\ compared' = Row(w, "committed")
      /\ request' = [request EXCEPT ![r].pc = "execute", ![r].todo = @ \ {w}]
      /\ UNCHANGED <<occurrences, extracted, log, claims, relations, executed, clock,
                     crashes, overlapped>>
  BY <1>1 DEF RecordComparison
<1>3. /\ DOMAIN request = Request /\ DOMAIN request[r] = Fields
      /\ ReadingOK(r)
      /\ clock \in 0 .. MaxClock /\ crashes \in 0 .. MaxCrashes
  BY Fetch
<1>4. w \in DOMAIN executed
  BY <1>1, <1>2, <1>3 DEF ReadingOK
<1>5. Grows /\ StoreInv'
  <2>1. UNCHANGED <<occurrences, extracted, log, claims, relations, executed>>
    BY <1>2
  <2> QED BY <1>2, <1>4, <2>1, RowPuts
<1>6. Underway(r)
  BY <1>2 DEF Underway, Ended
<1>7. /\ Moves(r)
      /\ DOMAIN request'[r] = Fields
      /\ request'[r].pc = "execute"
      /\ request'[r].todo = request[r].todo \ {w}
      /\ request'[r].op = request[r].op /\ request'[r].answer = request[r].answer
  BY <1>2, <1>3 DEF Moves, Fields
<1>8. DecidingOK(r)'
  BY <1>7 DEF DecidingOK
<1>9. ReadingOK(r)'
  <2>1. \A x \in request[r].todo : WindowOK(x)'
    BY <1>2, <1>3, <1>5, WhatWasStays DEF ReadingOK, Comparing
  <2> QED BY <1>7, <2>1 DEF ReadingOK
<1>10. WorkOK(r)'
  BY <1>6, <1>7, <1>8, <1>9, GoesOn DEF Ended
<1>11. ReviewsFormAChain'
  BY <1>2, ChainStays DEF IInv
<1>12. /\ clock' \in 0 .. MaxClock /\ crashes' \in 0 .. MaxCrashes
       /\ overlapped' = overlapped
  BY <1>2, <1>3
<1>13. request'[r].pc # "append"
  BY <1>7
<1> QED BY <1>5, <1>6, <1>7, <1>10, <1>11, <1>12, <1>13, StepOfRequest

LEMMA RecordFailureOK ==
  ASSUME IInv, NEW r \in Request, RecordFailure(r)
  PROVE  IInv'
<1>1. PICK w : w = NextWindow(r)
  OBVIOUS
<1>2. /\ request[r].pc = "failed"
      /\ compared' = Row(w, "failed")
      /\ End(r, "done", "failed")
      /\ UNCHANGED <<occurrences, extracted, log, claims, relations, executed, clock,
                     crashes, overlapped>>
  BY <1>1 DEF RecordFailure, Answer
<1>3. /\ DOMAIN request = Request
      /\ clock \in 0 .. MaxClock /\ crashes \in 0 .. MaxCrashes
  BY Fetch
<1>4. Grows /\ StoreInv'
  <2>1. UNCHANGED <<occurrences, extracted, log, claims, relations, executed>>
    BY <1>2
  <2> QED BY <1>2, <2>1, RowPuts
<1>5. Underway(r) /\ "done" \in Ended
  BY <1>2 DEF Underway, Ended
<1>6. Moves(r) /\ WorkOK(r)' /\ request'[r].pc = "done"
  BY <1>2, <1>3, <1>5, EndIsOK
<1>7. ReviewsFormAChain'
  BY <1>2, ChainStays DEF IInv
<1>8. /\ clock' \in 0 .. MaxClock /\ crashes' \in 0 .. MaxCrashes
      /\ overlapped' = overlapped
  BY <1>2, <1>3
<1> QED BY <1>4, <1>5, <1>6, <1>7, <1>8, StepOfRequest
-----------------------------------------------------------------------------
(* The invariant.                                                          *)

LEMMA InitOK == Init => IInv
<1> SUFFICES ASSUME Init PROVE IInv
  OBVIOUS
<1>1. /\ occurrences = {} /\ extracted = {} /\ log = << >> /\ claims = {}
      /\ relations = {} /\ compared = << >> /\ executed = << >>
      /\ clock = 0 /\ crashes = 0 /\ overlapped = FALSE
      /\ request = [r \in Request |-> NoWork]
  BY DEF Init
<1>2. DOMAIN log = {} /\ DOMAIN compared = {} /\ DOMAIN executed = {}
  BY <1>1
<1>3. \A s : On(s) = {}
  BY <1>2 DEF On
<1>4. StoreInv
  <2>1. StoreTypeOK
    BY <1>1, <1>2 DEF StoreTypeOK
  <2>2. LogOK
    BY <1>1, <1>2, <1>3, FS_EmptySet DEF LogOK
  <2>3. ExecutedOK /\ SupersedesEarlier
    BY <1>2 DEF ExecutedOK, SupersedesEarlier
  <2>4. ProposedWereAccepted /\ ComparedMeansProposed
    BY <1>1, <1>2 DEF ProposedWereAccepted, ComparedMeansProposed
  <2> QED BY <2>1, <2>2, <2>3, <2>4 DEF StoreInv
<1>5. DOMAIN request = Request
  BY <1>1
<1>6. ASSUME NEW r \in Request PROVE WorkOK(r) /\ ~Underway(r) /\ request[r].pc = "idle"
  <2>1. /\ DOMAIN request[r] = Fields
        /\ request[r].pc = "idle" /\ request[r].op = None
        /\ request[r].previous = None /\ request[r].answer = None
    BY <1>1 DEF NoWork, Fields
  <2>2. DecidingOK(r)
    BY <2>1 DEF DecidingOK
  <2>3. ReadingOK(r)
    BY <2>1 DEF ReadingOK, Comparing
  <2>4. ~Underway(r)
    BY <2>1 DEF Underway
  <2> QED BY <2>1, <2>2, <2>3, <2>4 DEF WorkOK
<1>7. AloneOK
  BY <1>6 DEF AloneOK
<1>8. ReviewsFormAChain
  BY <1>2 DEF ReviewsFormAChain
<1>9. clock \in 0 .. MaxClock /\ crashes \in 0 .. MaxCrashes /\ overlapped \in BOOLEAN
  <2>1. MaxClock \in Nat /\ MaxCrashes \in Nat
    BY ReviewAssumption
  <2>2. clock = 0 /\ crashes = 0
    BY <1>1
  <2>3. clock \in 0 .. MaxClock /\ crashes \in 0 .. MaxCrashes
    BY <2>1, <2>2
  <2>4. overlapped \in BOOLEAN
    BY <1>1
  <2> QED BY <2>3, <2>4
<1> QED BY <1>4, <1>5, <1>6, <1>7, <1>8, <1>9 DEF IInv

LEMMA StutterOK == IInv /\ UNCHANGED vars => IInv'
<1> SUFFICES ASSUME IInv, UNCHANGED vars PROVE IInv'
  OBVIOUS
<1>1. /\ UNCHANGED store /\ clock' = clock /\ request' = request /\ crashes' = crashes
      /\ overlapped' = overlapped
  BY DEF vars
<1>2. /\ Grows /\ StoreInv' /\ ReviewsFormAChain'
      /\ \A r : LatestId(request[r].subject)' = LatestId(request'[r].subject)
  BY <1>1, StoreStays DEF IInv
<1>3. \A q \in Request : WorkOK(q)'
  <2>1. ASSUME NEW q \in Request PROVE WorkOK(q)'
    <3>1. WorkOK(q) /\ request'[q] = request[q]
      BY <1>1 DEF IInv
    <3> QED BY <1>2, <3>1, WorkStays
  <2> QED BY <2>1
<1>4. AloneOK'
  <2>1. AloneOK
    BY DEF IInv
  <2> QED BY <1>1, <1>2, <2>1 DEF AloneOK, Underway
<1> QED BY <1>1, <1>2, <1>3, <1>4 DEF IInv

(* Every step of every request, and of the extraction, keeps it. *)
LEMMA NextOK == IInv /\ [Next]_vars => IInv'
<1> SUFFICES ASSUME IInv, [Next]_vars PROVE IInv'
  OBVIOUS
<1>1. ASSUME NEW r \in Request, Decide(r) PROVE IInv'
  BY <1>1, CheckReviewOK, CheckGroupingOK, CheckRelationReviewOK, ReadHistoryOK,
     AppendDecisionOK, PutOccurrenceOK, CreateClaimOK, CreateRelationOK DEF Decide
<1>2. ASSUME NEW r \in Request, Page(r) PROVE IInv'
  BY <1>2, PageListOK, ReadDecisionsOK, PageWindowsOK, PageOccurrencesOK DEF Page
<1>3. ASSUME NEW r \in Request, Compare(r) PROVE IInv'
  BY <1>3, CompareListOK, CompareWindowsOK, ReadPriorsOK, ReadCurrentOK, ExecuteOK,
     ProposeOK, RecordComparisonOK, RecordFailureOK, CompleteOK DEF Compare
<1>4. ASSUME NEW r \in Request, Begin(r) \/ Crash(r) PROVE IInv'
  BY <1>4, BeginOK, CrashOK
<1> QED BY <1>1, <1>2, <1>3, <1>4, ExtractOK, StutterOK DEF Next

LEMMA AlwaysIInv == Spec => []IInv
BY InitOK, NextOK, PTL DEF Spec

-----------------------------------------------------------------------------
(* What the decisions are about, and what they say.                        *)

Table == {"occurrence", "member", "relation"}

(* What the store holds. *)
Known == UNION {Subjects(table) : table \in Table}

Fits(subject, action) == subject[1] = "occurrence" => action \in ReviewAction

KnownOK ==
  /\ \A n \in DOMAIN log : log[n].subject \in Known /\ Fits(log[n].subject, log[n].action)
  /\ \A r \in Request :
       request[r].pc \in {"history", "append"} =>
         /\ request[r].subject \in Known
         /\ Fits(request[r].subject, ActionOf(request[r].op))

(* A subject has the name of its table. *)
LEMMA TableOfSubject ==
  ASSUME NEW table \in Table, NEW s \in Subjects(table)
  PROVE  s[1] = table
BY DEF Table, Subjects, Of, Member, Relation

(* The store loses nothing that was known. *)
LEMMA KnownStays ==
  ASSUME occurrences \subseteq occurrences', claims \subseteq claims',
         relations \subseteq relations'
  PROVE  Known \subseteq Known'
<1>1. ASSUME NEW table \in Table PROVE Subjects(table) \subseteq Subjects(table)'
  BY <1>1 DEF Table, Subjects
<1> QED BY <1>1 DEF Known

(* What it takes that a step of one request keeps the invariant. *)
LEMMA KnownByRequest ==
  ASSUME IInv, KnownOK, NEW r \in Request,
         occurrences \subseteq occurrences', claims \subseteq claims',
         relations \subseteq relations', log' = log,
         \A q \in Request \ {r} : request'[q] = request[q],
         request'[r].pc \in {"history", "append"} =>
           \/ /\ request[r].pc \in {"history", "append"}
              /\ request'[r].subject = request[r].subject
              /\ request'[r].op = request[r].op
           \/ /\ request'[r].subject \in Known'
              /\ Fits(request'[r].subject, ActionOf(request'[r].op))
  PROVE  KnownOK'
<1>1. Known \subseteq Known'
  BY KnownStays
<1>2. ASSUME NEW n \in DOMAIN log'
      PROVE  log'[n].subject \in Known' /\ Fits(log'[n].subject, log'[n].action)
  BY <1>1 DEF KnownOK
<1>3. ASSUME NEW q \in Request, request'[q].pc \in {"history", "append"}
      PROVE  /\ request'[q].subject \in Known'
             /\ Fits(request'[q].subject, ActionOf(request'[q].op))
  <2>1. CASE q = r
    BY <1>1, <1>3, <2>1 DEF KnownOK
  <2>2. CASE q # r
    BY <1>1, <1>3, <2>2 DEF KnownOK
  <2> QED BY <2>1, <2>2
<1> QED BY <1>2, <1>3 DEF KnownOK, Fits, ActionOf

(* A request that answers, or dies, is about nothing. *)
LEMMA KnownByEnd ==
  ASSUME IInv, KnownOK, NEW r \in Request, NEW pc \in Ended, NEW answer,
         End(r, pc, answer),
         occurrences \subseteq occurrences', claims \subseteq claims',
         relations \subseteq relations', log' = log
  PROVE  KnownOK'
<1>1. DOMAIN request = Request
  BY DEF IInv
<1>2. /\ request'[r].pc = pc
      /\ \A q \in Request \ {r} : request'[q] = request[q]
  BY <1>1 DEF End, NoWork
<1> QED BY <1>2, KnownByRequest DEF Ended

(* Every request is about what the store holds, and so are the decisions.  *)
LEMMA KnownStep == IInv /\ KnownOK /\ [Next]_vars => KnownOK'
<1> SUFFICES ASSUME IInv, KnownOK, [Next]_vars PROVE KnownOK'
  OBVIOUS
<1>1. DOMAIN request = Request /\ (\A r \in Request : DOMAIN request[r] = Fields)
      /\ (\A r \in Request : request[r].op \in Operation[r] \cup {None})
      /\ (\A r \in Request : Underway(r) => request[r].op \in Operation[r])
  BY DEF IInv, WorkOK
<1> USE DEF store
<1>2. ASSUME NEW r \in Request, NEW found \in BOOLEAN, NEW subject,
             Reading(r, found, subject), UNCHANGED store,
             found => subject \in Known /\ Fits(subject, ActionOf(request[r].op))
      PROVE  KnownOK'
  <2>1. CASE found
    <3>1. request' = [request EXCEPT ![r].pc = "history", ![r].subject = subject]
      BY <1>2, <2>1 DEF Reading
    <3>2. /\ request'[r].subject = subject /\ request'[r].op = request[r].op
          /\ \A q \in Request \ {r} : request'[q] = request[q]
      BY <1>1, <3>1 DEF Fields
    <3>3. subject \in Known'
      BY <1>2, <2>1, KnownStays
    <3>4. request'[r].subject \in Known'
      BY <3>2, <3>3
    <3> QED BY <1>2, <2>1, <3>2, <3>4, KnownByRequest
  <2>2. CASE ~found
    BY <1>2, <2>2, KnownByEnd DEF Reading, Ended
  <2> QED BY <2>1, <2>2
<1>3. ASSUME NEW r \in Request, CheckReview(r) PROVE KnownOK'
  <2> DEFINE op == request[r].op
             found == op.occurrence \in FirstPage(op.instance)
  <2>1. op.kind = "review" /\ op \in Operation[r]
    BY <1>1, <1>3 DEF CheckReview, At, Underway, Ended
  <2>2. found => Of(op.occurrence) \in Known
    BY DEF FirstPage, Held, Known, Subjects, Table
  <2>3. Fits(Of(op.occurrence), ActionOf(op))
    BY <2>1, OperationAssumption DEF Fits, ActionOf
  <2>4. Reading(r, found, Of(op.occurrence)) /\ UNCHANGED store
    BY <1>3 DEF CheckReview
  <2> HIDE DEF found
  <2>5. found \in BOOLEAN
    BY DEF found
  <2> QED BY <1>2, <2>2, <2>3, <2>4, <2>5
<1>4. ASSUME NEW r \in Request, CheckGrouping(r) PROVE KnownOK'
  <2> DEFINE o == request[r].op.occurrence
             found == o \in occurrences
  <2> PICK claim \in claims : Reading(r, found, Member(claim, o))
    BY <1>4 DEF CheckGrouping
  <2>1. found => Member(claim, o) \in Known
    BY DEF Known, Subjects, Table
  <2>2. Fits(Member(claim, o), ActionOf(request[r].op))
    BY DEF Fits, Member
  <2>3. Reading(r, found, Member(claim, o)) /\ UNCHANGED store
    BY <1>4 DEF CheckGrouping
  <2> HIDE DEF found
  <2>4. found \in BOOLEAN
    BY DEF found
  <2> QED BY <1>2, <2>1, <2>2, <2>3, <2>4
<1>5. ASSUME NEW r \in Request, CheckRelationReview(r) PROVE KnownOK'
  <2> PICK rel \in relations : Reading(r, TRUE, Relation(rel.id))
    BY <1>5 DEF CheckRelationReview
  <2>1. Relation(rel.id) \in Known
    BY DEF Known, Subjects, Table
  <2>2. Fits(Relation(rel.id), ActionOf(request[r].op))
    BY DEF Fits, Relation
  <2>3. Reading(r, TRUE, Relation(rel.id)) /\ UNCHANGED store
    BY <1>5 DEF CheckRelationReview
  <2> QED BY <1>2, <2>1, <2>2, <2>3
<1>6. ASSUME NEW r \in Request, ReadHistory(r) PROVE KnownOK'
  <2> DEFINE history == On(request[r].subject)
             previous == IF history = {} THEN None ELSE log[Max(history)].id
  <2>1. request[r].pc = "history" /\ UNCHANGED store
    BY <1>6 DEF ReadHistory
  <2>2. request' = [request EXCEPT ![r].pc = "append", ![r].previous = previous,
                                   ![r].at = clock']
    BY <1>6 DEF ReadHistory
  <2> HIDE DEF previous, history
  <2>3. /\ request'[r].subject = request[r].subject /\ request'[r].op = request[r].op
        /\ \A q \in Request \ {r} : request'[q] = request[q]
    BY <1>1, <2>2 DEF Fields
  <2> QED BY <2>1, <2>3, KnownByRequest
<1>7. ASSUME NEW r \in Request, AppendDecision(r) PROVE KnownOK'
  <2> DEFINE e == [id |-> IdOf(r), subject |-> request[r].subject,
                   action |-> ActionOf(request[r].op),
                   supersedes |-> request[r].previous]
  <2>1. /\ request[r].pc = "append" /\ request'[r].pc = "done"
        /\ \A q \in Request \ {r} : request'[q] = request[q]
        /\ UNCHANGED <<occurrences, claims, relations>>
        /\ log' = log \/ log' = Append(log, e)
    BY <1>1, <1>7 DEF AppendDecision, End, NoWork
  <2>2. e.subject \in Known /\ Fits(e.subject, e.action)
    BY <2>1 DEF KnownOK
  <2> HIDE DEF e
  <2>3. Known \subseteq Known'
    BY <2>1, KnownStays
  <2>4. CASE log' = log
    BY <2>1, <2>4, KnownByRequest
  <2>5. CASE log' = Append(log, e)
    <3>1. LogOK
      BY DEF IInv, StoreInv
    <3>2. \A n \in DOMAIN log' : log'[n] = e \/ \E m \in DOMAIN log : log'[n] = log[m]
      BY <2>5, <3>1, LogGrows
    <3>3. ASSUME NEW n \in DOMAIN log'
          PROVE  log'[n].subject \in Known' /\ Fits(log'[n].subject, log'[n].action)
      <4>1. CASE log'[n] = e
        BY <2>2, <2>3, <4>1
      <4>2. CASE \E m \in DOMAIN log : log'[n] = log[m]
        BY <2>3, <4>2 DEF KnownOK
      <4> QED BY <3>2, <4>1, <4>2
    <3>4. ASSUME NEW q \in Request, request'[q].pc \in {"history", "append"}
          PROVE  /\ request'[q].subject \in Known'
                 /\ Fits(request'[q].subject, ActionOf(request'[q].op))
      <4>1. q # r
        BY <2>1, <3>4
      <4> QED BY <2>1, <2>3, <3>4, <4>1 DEF KnownOK
    <3> QED BY <3>3, <3>4 DEF KnownOK, Fits, ActionOf
  <2> QED BY <2>1, <2>4, <2>5
<1>8. ASSUME NEW r \in Request, PutOccurrence(r) PROVE KnownOK'
  <2> DEFINE o == request[r].op.occurrence
  <2>1. /\ occurrences' = occurrences \cup {o} /\ log' = log
        /\ UNCHANGED <<claims, relations>>
        /\ request[r].op.kind = "author"
        /\ request'[r].subject = Of(o) /\ request'[r].op = request[r].op
        /\ \A q \in Request \ {r} : request'[q] = request[q]
    BY <1>1, <1>8 DEF PutOccurrence, At, Fields
  <2>2. Of(o) \in Subjects("occurrence")'
    BY <2>1 DEF Subjects
  <2>3. request'[r].subject \in Known'
    BY <2>1, <2>2 DEF Known, Table
  <2>4. Fits(request'[r].subject, ActionOf(request'[r].op))
    BY <2>1 DEF Fits, ActionOf, ReviewAction
  <2> QED BY <2>1, <2>3, <2>4, KnownByRequest
<1>9. ASSUME NEW r \in Request, CreateClaim(r) PROVE KnownOK'
  BY <1>9, KnownByEnd DEF CreateClaim, Ended
<1>10. ASSUME NEW r \in Request, CreateRelation(r) PROVE KnownOK'
  <2> DEFINE op == request[r].op
             id == <<op.from, op.to, clock'>>
             rel == [id |-> id, from |-> op.from, to |-> op.to,
                     provenance |-> "reviewer-authored"]
  <2>1. CASE {op.from, op.to} \subseteq occurrences
    <3>1. /\ relations' = WithRelation(rel) /\ log' = log
          /\ UNCHANGED <<occurrences, claims>>
          /\ request'[r].subject = Relation(id) /\ request'[r].op = op
          /\ \A q \in Request \ {r} : request'[q] = request[q]
      BY <1>1, <1>10, <2>1 DEF CreateRelation, Fields
    <3>2. relations \subseteq relations' /\ \E x \in relations' : x.id = id
      <4>1. rel.id = id
        OBVIOUS
      <4> HIDE DEF rel, id
      <4> QED BY <3>1, <4>1 DEF WithRelation
    <3>3. Relation(id) \in Subjects("relation")'
      BY <3>2 DEF Subjects
    <3>4. request'[r].subject \in Known'
      BY <3>1, <3>3 DEF Known, Table
    <3>5. Fits(request'[r].subject, ActionOf(request'[r].op))
      BY <3>1 DEF Fits, Relation
    <3> QED BY <3>1, <3>2, <3>4, <3>5, KnownByRequest
  <2>2. CASE ~({op.from, op.to} \subseteq occurrences)
    <3>1. End(r, "not-found", None) /\ UNCHANGED <<occurrences, claims, relations, log>>
      BY <1>10, <2>2 DEF CreateRelation
    <3> QED BY <3>1, KnownByEnd DEF Ended
  <2> QED BY <2>1, <2>2
<1>11. ASSUME NEW r \in Request, Page(r) \/ Compare(r) \/ Begin(r)
       PROVE  KnownOK'
  <2>1. /\ occurrences' = occurrences /\ claims' = claims /\ log' = log
        /\ relations \subseteq relations'
    <3>1. CASE Page(r) \/ Begin(r)
      BY <3>1 DEF Page, PageList, ReadDecisions, PageWindows, PageOccurrences, Begin
    <3>2. CASE Propose(r)
      BY <3>2 DEF Propose, WithRelation
    <3>3. CASE Compare(r) /\ ~Propose(r)
      BY <3>3
         DEF Compare, CompareList, CompareWindows, ReadPriors, ReadCurrent, Execute,
             RecordComparison, RecordFailure, Complete
    <3> QED BY <1>11, <3>1, <3>2, <3>3 DEF Compare
  <2>2. \A q \in Request \ {r} : request'[q] = request[q]
    BY <1>1, <1>11
       DEF Page, PageList, ReadDecisions, PageWindows, PageOccurrences, Compare,
           CompareList, CompareWindows, ReadPriors, ReadCurrent, Execute, Propose,
           RecordComparison, RecordFailure, Complete, Begin, Goto, Answer, End
  <2>3. request'[r].pc \notin {"history", "append"}
    <3>1. CASE Page(r)
      BY <1>1, <3>1
         DEF Page, PageList, ReadDecisions, PageWindows, PageOccurrences, Answer, End,
             NoWork, Fields, At
    <3>2. CASE Begin(r)
      BY <1>1, <3>2 DEF Begin, Fields
    <3>3. CASE CompareList(r) \/ CompareWindows(r) \/ ReadPriors(r)
      BY <1>1, <3>3
         DEF CompareList, CompareWindows, ReadPriors, Goto, Answer, End, NoWork, Fields, At
    <3>4. CASE ReadCurrent(r)
      <4>1. \/ Answer(r, "no-prior-accepted")
            \/ \E todo : request' = [request EXCEPT ![r].pc = "execute", ![r].todo = todo]
        BY <3>4, Zenon DEF ReadCurrent
      <4>2. CASE Answer(r, "no-prior-accepted")
        BY <1>1, <4>2 DEF Answer, End, NoWork
      <4>3. CASE \E todo : request' = [request EXCEPT ![r].pc = "execute", ![r].todo = todo]
        <5>1. PICK todo : request' = [request EXCEPT ![r].pc = "execute", ![r].todo = todo]
          BY <4>3
        <5> QED BY <1>1, <5>1 DEF Fields
      <4> QED BY <4>1, <4>2, <4>3
    <3>5. CASE Execute(r)
      BY <1>1, <3>5 DEF Execute, Goto, Fields
    <3>6. CASE Propose(r)
      BY <1>1, <3>6 DEF Propose
    <3>7. CASE RecordComparison(r) \/ RecordFailure(r) \/ Complete(r)
      BY <1>1, <3>7
         DEF RecordComparison, RecordFailure, Complete, Answer, End, NoWork, Fields
    <3> QED
      BY <1>11, <3>1, <3>2, <3>3, <3>4, <3>5, <3>6, <3>7 DEF Compare
  <2> QED BY <2>1, <2>2, <2>3, KnownByRequest
<1>12. ASSUME NEW r \in Request, Crash(r) PROVE KnownOK'
  BY <1>12, KnownByEnd DEF Crash, Ended
<1>13. ASSUME Extract PROVE KnownOK'
  <2>1. /\ occurrences \subseteq occurrences'
        /\ UNCHANGED <<claims, relations, log, request>>
    BY <1>13 DEF Extract
  <2>2. Known \subseteq Known'
    BY <2>1, KnownStays
  <2> QED BY <2>1, <2>2 DEF KnownOK, Fits, ActionOf
<1>14. CASE UNCHANGED vars
  <2>1. UNCHANGED <<occurrences, claims, relations, log, request>>
    BY <1>14 DEF vars
  <2>2. Known \subseteq Known'
    BY <2>1, KnownStays
  <2> QED BY <2>1, <2>2 DEF KnownOK, Fits, ActionOf
<1> QED
  BY <1>3, <1>4, <1>5, <1>6, <1>7, <1>8, <1>9, <1>10, <1>11, <1>12, <1>13, <1>14
     DEF Next, Decide

LEMMA AlwaysKnown == Spec => [](IInv /\ KnownOK)
<1>1. Init => KnownOK
  BY DEF Init, KnownOK, NoWork
<1> QED BY <1>1, InitOK, NextOK, KnownStep, PTL DEF Spec
-----------------------------------------------------------------------------
(* The overview.                                                           *)

(* The latest decision on what has been decided. *)
LEMMA LatestStands ==
  ASSUME LogOK, NEW s, On(s) # {}
  PROVE  /\ Max(On(s)) \in DOMAIN log /\ log[Max(On(s))].subject = s
         /\ \A k \in DOMAIN log : k > Max(On(s)) => log[k].subject # s
         /\ \A n \in On(s) : (\A k \in DOMAIN log : k > n => log[k].subject # s)
                               => n = Max(On(s))
         /\ Standing(s) = log[Max(On(s))].action
<1>1. /\ On(s) \in SUBSET Nat /\ Len(log) \in Nat
      /\ \A m \in On(s) : m <= Len(log)
  BY OnIsBounded
<1>2. /\ Max(On(s)) \in On(s) /\ Max(On(s)) \in Nat
      /\ \A m \in On(s) : m <= Max(On(s))
  BY <1>1, MaxOfBounded
<1> DEFINE n == Max(On(s))
<1>3. n \in DOMAIN log /\ log[n].subject = s /\ Standing(s) = log[n].action
  BY <1>2 DEF On, Standing
<1> HIDE DEF n
<1>4. \A k \in DOMAIN log : log[k].subject = s => k \in On(s)
  BY DEF On
<1>5. n \in On(s) /\ n \in Nat /\ \A m \in On(s) : m \in Nat /\ m <= n
  BY <1>1, <1>2 DEF n
<1>6. \A k \in DOMAIN log : k > n => log[k].subject # s
  <2>1. \A k \in DOMAIN log : k \in Nat
    BY DEF LogOK
  <2> QED BY <1>4, <1>5, <2>1
<1>7. ASSUME NEW m \in On(s), \A k \in DOMAIN log : k > m => log[k].subject # s
      PROVE  m = n
  BY <1>3, <1>5, <1>7
<1> QED BY <1>3, <1>6, <1>7 DEF n

(* Only finitely many subjects have been decided. *)
LEMMA DecidedAreFinite ==
  ASSUME LogOK, NEW S, \A s \in S : On(s) # {}
  PROVE  IsFiniteSet(S)
<1> DEFINE f == [s \in S |-> Max(On(s))]
           T == 1 .. Len(log)
<1>1. Len(log) \in Nat /\ DOMAIN log = T
  BY DEF LogOK
<1>2. \A s \in S : f[s] \in T /\ log[f[s]].subject = s
  BY <1>1, LatestStands
<1>3. IsFiniteSet(T)
  BY <1>1, FS_Interval
<1> HIDE DEF f, T
<1>4. f \in Injection(S, T)
  <2>1. f \in [S -> T]
    BY <1>2 DEF f
  <2>2. \A s, t \in S : f[s] = f[t] => s = t
    BY <1>2
  <2> QED BY <2>1, <2>2 DEF Injection, IsInjective
<1> QED BY <1>3, <1>4, FS_Injection

(* The rows that say so are as many as what stands that way. *)
LEMMA RowsAreStandings ==
  ASSUME LogOK, KnownOK, NEW table \in Table, NEW action, action # "pending"
  PROVE  Cardinality({d \in Latest(table) : d.action = action}) =
           Cardinality({s \in Subjects(table) : Standing(s) = action})
<1> DEFINE S == {s \in Subjects(table) : Standing(s) = action}
           D == {d \in Latest(table) : d.action = action}
           f == [s \in S |-> [subject |-> s, action |-> action]]
<1>1. \A s \in S : On(s) # {} /\ s[1] = table
  BY DecidedIsNotPending, TableOfSubject
<1>2. IsFiniteSet(S)
  <2> HIDE DEF S
  <2> QED BY <1>1, DecidedAreFinite
<1>3. ASSUME NEW s \in S PROVE f[s] \in D
  <2> DEFINE n == Max(On(s))
  <2>1. /\ n \in DOMAIN log /\ log[n].subject = s /\ log[n].action = action
        /\ \A k \in DOMAIN log : k > n => log[k].subject # s
    BY <1>1, LatestStands
  <2>2. f[s] = [subject |-> log[n].subject, action |-> log[n].action]
    BY <2>1
  <2>3. log[n].subject[1] = table
    BY <1>1, <2>1
  <2> HIDE DEF n
  <2>4. f[s] \in Latest(table)
    BY <2>1, <2>2, <2>3 DEF Latest
  <2> QED BY <2>4
<1>4. ASSUME NEW d \in D PROVE \E s \in S : f[s] = d
  <2>1. PICK n \in DOMAIN log :
          /\ log[n].subject[1] = table
          /\ \A k \in DOMAIN log : k > n => log[k].subject # log[n].subject
          /\ d = [subject |-> log[n].subject, action |-> log[n].action]
    BY DEF Latest
  <2> DEFINE s == log[n].subject
  <2>2. n \in On(s)
    BY DEF On
  <2>3. n = Max(On(s)) /\ Standing(s) = log[n].action
    BY <2>1, <2>2, LatestStands
  <2>4. s \in Subjects(table)
    <3>1. PICK t \in Table : s \in Subjects(t)
      BY DEF KnownOK, Known
    <3>2. t = table
      BY <2>1, <3>1, TableOfSubject
    <3> QED BY <3>1, <3>2
  <2>5. s \in S /\ d = [subject |-> s, action |-> action]
    BY <2>1, <2>3, <2>4
  <2> HIDE DEF s, S
  <2> QED BY <2>5
<1> HIDE DEF S, D
<1>5. f \in Bijection(S, D)
  <2>1. f \in [S -> D]
    BY <1>3
  <2>2. \A s, t \in S : f[s] = f[t] => s = t
    OBVIOUS
  <2> QED BY <1>4, <2>1, <2>2 DEF Bijection, Injection, Surjection, IsInjective
<1>6. ExistsBijection(S, D)
  BY <1>5 DEF ExistsBijection
<1>7. Cardinality(D) = Cardinality(S)
  BY <1>2, <1>6, FS_Bijection
<1> QED BY <1>7 DEF S, D

(* Two sets that share nothing. *)
LEMMA SizesAdd ==
  ASSUME NEW S, NEW T, IsFiniteSet(S), IsFiniteSet(T), S \cap T = {}
  PROVE  IsFiniteSet(S \cup T)
         /\ Cardinality(S \cup T) = Cardinality(S) + Cardinality(T)
<1>1. Cardinality(S) \in Nat /\ Cardinality(T) \in Nat
  BY FS_CardinalityType
<1> QED BY <1>1, FS_Union, FS_EmptySet

(* The standings of the occurrences add up. *)
LEMMA StandingsAdd ==
  ASSUME LogOK, KnownOK
  PROVE  LET Of4(a) == Cardinality({s \in Subjects("occurrence") : Standing(s) = a}) IN
         Cardinality(occurrences) =
           Of4("pending") + Of4("accept") + Of4("reject") + Of4("revise")
<1> DEFINE All == Subjects("occurrence")
           P == {s \in All : Standing(s) = "pending"}
           A == {s \in All : Standing(s) = "accept"}
           R == {s \in All : Standing(s) = "reject"}
           V == {s \in All : Standing(s) = "revise"}
           f == [o \in occurrences |-> Of(o)]
<1>1. IsFiniteSet(All) /\ Cardinality(All) = Cardinality(occurrences)
  <2>1. All = {Of(o) : o \in occurrences}
    BY DEF Subjects
  <2> HIDE DEF All
  <2>2. f \in [occurrences -> All] /\ \A s \in All : \E o \in occurrences : f[o] = s
    BY <2>1
  <2>3. \A o, p \in occurrences : f[o] = f[p] => o = p
    BY SubjectsDiffer
  <2> HIDE DEF f
  <2>4. f \in Bijection(occurrences, All)
    BY <2>2, <2>3 DEF Bijection, Injection, Surjection, IsInjective
  <2>5. ExistsBijection(occurrences, All) /\ IsFiniteSet(occurrences)
    BY <2>4 DEF ExistsBijection, LogOK
  <2> QED BY <2>5, FS_Bijection
<1>2. ASSUME NEW s \in All PROVE Standing(s) \in {"pending", "accept", "reject", "revise"}
  <2>1. CASE On(s) = {}
    BY <2>1 DEF Standing
  <2>2. CASE On(s) # {}
    <3>1. PICK n \in DOMAIN log : log[n].subject = s /\ Standing(s) = log[n].action
      BY <2>2, LatestStands
    <3>2. s[1] = "occurrence"
      BY TableOfSubject DEF Table
    <3> QED BY <3>1, <3>2 DEF KnownOK, Fits, ReviewAction
  <2> QED BY <2>1, <2>2
<1>3. /\ All = (P \cup A) \cup (R \cup V)
      /\ P \cap A = {} /\ R \cap V = {} /\ (P \cup A) \cap (R \cup V) = {}
  <2> HIDE DEF All
  <2> QED BY <1>2
<1>4. P \subseteq All /\ A \subseteq All /\ R \subseteq All /\ V \subseteq All
  OBVIOUS
<1> HIDE DEF All, P, A, R, V
<1>5. IsFiniteSet(P) /\ IsFiniteSet(A) /\ IsFiniteSet(R) /\ IsFiniteSet(V)
  BY <1>1, <1>4, FS_Subset
<1>6. /\ IsFiniteSet(P \cup A) /\ Cardinality(P \cup A) = Cardinality(P) + Cardinality(A)
      /\ IsFiniteSet(R \cup V) /\ Cardinality(R \cup V) = Cardinality(R) + Cardinality(V)
  BY <1>3, <1>5, SizesAdd
<1>7. Cardinality(All) = Cardinality(P \cup A) + Cardinality(R \cup V)
  BY <1>3, <1>6, SizesAdd
<1>8. /\ Cardinality(P) \in Nat /\ Cardinality(A) \in Nat
      /\ Cardinality(R) \in Nat /\ Cardinality(V) \in Nat
  BY <1>5, FS_CardinalityType
<1>9. Cardinality(occurrences) =
        Cardinality(P) + Cardinality(A) + Cardinality(R) + Cardinality(V)
  BY <1>1, <1>6, <1>7, <1>8
<1> QED BY <1>9 DEF All, P, A, R, V

(* What the overview counts in SQL agrees with the folds of the logs, of   *)
(* occurrences, memberships and relations, at every moment and for any     *)
(* number of them; and the standings of the occurrences add up             *)
(* (readCaseOverview(), deriveEvidenceV2Standings() and its like).         *)
THEOREM OverviewsAgree == Spec => []OverviewAgrees
<1>1. IInv /\ KnownOK => OverviewAgrees
  <2> SUFFICES ASSUME IInv, KnownOK PROVE OverviewAgrees
    OBVIOUS
  <2>1. LogOK /\ occurrences \subseteq Occurrence /\ extracted \subseteq Instance
    BY DEF IInv, StoreInv, StoreTypeOK
  <2>2. ASSUME NEW c \in Counted
        PROVE  Overview.counts[c] =
                 Cardinality({s \in Subjects(c[1]) : Standing(s) = c[2]})
    <3>1. Overview.counts[c] = Cardinality({d \in Latest(c[1]) : d.action = c[2]})
      BY DEF Overview
    <3>2. c[1] \in Table /\ c[2] # "pending"
      BY DEF Counted, Table, ReviewAction
    <3> QED BY <2>1, <3>1, <3>2, RowsAreStandings
  <2>3. ASSUME NEW table \in {"occurrence", "relation"}
        PROVE  Overview.pending[table] =
                 Cardinality({s \in Subjects(table) : Standing(s) = "pending"})
    <3>1. Overview.pending[table] = Cardinality({s \in Subjects(table) : On(s) = {}})
      BY DEF Overview
    <3>2. {s \in Subjects(table) : On(s) = {}} =
            {s \in Subjects(table) : Standing(s) = "pending"}
      BY <2>1, DecidedIsNotPending
    <3> QED BY <3>1, <3>2
  <2>4. Overview.awaiting =
          Cardinality({i \in Instance : Completion(i \in extracted, Held(i),
                                              Judged(Occurrence)) = "pending-review"})
    <3>1. ASSUME NEW i \in Instance
          PROVE  Completion(i \in extracted, Held(i), Judged(Occurrence))
                   = "pending-review"
                   <=> i \in extracted /\ \E o \in Held(i) : On(Of(o)) = {}
      <4>1. Held(i) \subseteq Occurrence
        BY <2>1 DEF Held
      <4>2. Held(i) \subseteq Judged(Occurrence) <=> \A o \in Held(i) : On(Of(o)) # {}
        BY <2>1, <4>1, DecidedIsNotPending DEF Judged
      <4> QED BY <4>2 DEF Completion
    <3>2. {i \in Instance : Completion(i \in extracted, Held(i), Judged(Occurrence))
                              = "pending-review"}
            = {i \in extracted : \E o \in Held(i) : On(Of(o)) = {}}
      BY <2>1, <3>1
    <3> QED BY <3>2 DEF Overview
  <2>5. Overview.total =
          Overview.pending["occurrence"] + Overview.counts[<<"occurrence", "accept">>]
            + Overview.counts[<<"occurrence", "reject">>]
            + Overview.counts[<<"occurrence", "revise">>]
    <3>1. /\ <<"occurrence", "accept">> \in Counted
          /\ <<"occurrence", "reject">> \in Counted
          /\ <<"occurrence", "revise">> \in Counted
      BY DEF Counted, ReviewAction
    <3>2. Overview.total = Cardinality(occurrences)
      BY DEF Overview
    <3> QED BY <2>1, <2>2, <2>3, <3>1, <3>2, StandingsAdd
  <2> QED BY <2>2, <2>3, <2>4, <2>5 DEF OverviewAgrees
<1> QED BY <1>1, AlwaysKnown, PTL

(* The decisions form a log that can be read back: what a decision         *)
(* supersedes came before it and was about the same subject, whatever      *)
(* overlaps, and is the one just before it while requests follow one       *)
(* another (the handlers of app.ts that append decisions).                 *)
THEOREM DecisionsReadBack == Spec => []DecisionsFormALog
<1>1. IInv => DecisionsFormALog
  <2> SUFFICES ASSUME IInv PROVE DecisionsFormALog
    OBVIOUS
  <2>1. /\ StoreTypeOK /\ SupersedesEarlier /\ ReviewsFormAChain
        /\ clock \in 0 .. MaxClock /\ crashes \in 0 .. MaxCrashes
        /\ overlapped \in BOOLEAN
    BY DEF IInv, StoreInv
  <2>2. \A r \in Request : /\ request[r].op \in Operation[r] \cup {None}
                           /\ Underway(r) <=> request[r].op # None
    BY DEF IInv, WorkOK
  <2>3. TypeOK
    BY <2>1, <2>2 DEF TypeOK, StoreTypeOK
  <2> QED BY <2>1, <2>3 DEF DecisionsFormALog
<1> QED BY <1>1, AlwaysIInv, PTL

(* Comparisons propose only what had been accepted on both sides, and a    *)
(* comparison that is recorded as committed has left all the engine        *)
(* committed and nothing else (compareOnce() of compare.ts).               *)
THEOREM ComparisonsAreWhole == Spec => []ComparisonsAgree
<1>1. IInv => ComparisonsAgree
  BY DEF IInv, StoreInv, ComparisonsAgree
<1> QED BY <1>1, AlwaysIInv, PTL

(* An instance that is reported reviewed is: nothing it holds waits for a  *)
(* decision when the answer is given, whatever was extracted, authored or  *)
(* decided between the reads of the page (instanceReview() of app.ts).     *)
THEOREM ReviewedWasReviewed == Spec => ReviewedIsTrue
<1>1. ASSUME IInv, Next, NEW r \in Request, request[r].pc = "occurrences",
             request'[r].answer = "reviewed"
      PROVE  /\ Pending(Held(request[r].op.instance)) = {}
             /\ request[r].op.instance \in extracted
  <2>1. /\ DOMAIN request = Request /\ WorkOK(r) /\ ReadingOK(r) /\ LogOK
        /\ request[r].answer = None
    BY <1>1, Fetch DEF WorkOK, Ended
  <2>2. request'[r] # request[r]
    BY <1>1, <2>1, ReviewAssumption
  <2>3. PageOccurrences(r)
    <3>1. \A q \in Request \ {r} : ~(Begin(q) \/ Crash(q) \/ Decide(q) \/ Page(q) \/ Compare(q))
      <4> SUFFICES ASSUME NEW q \in Request, q # r
                   PROVE  Begin(q) \/ Crash(q) \/ Decide(q) \/ Page(q) \/ Compare(q) =>
                            request'[r] = request[r]
        BY <2>2
      <4>1. Begin(q) \/ Crash(q) => request'[r] = request[r]
        BY <2>1 DEF Begin, Crash, End
      <4>2. Decide(q) => request'[r] = request[r]
        BY <2>1 DEF Decide, CheckReview, CheckGrouping, CheckRelationReview, ReadHistory,
                    AppendDecision, PutOccurrence, CreateClaim, CreateRelation, Reading, End
      <4>3. Page(q) => request'[r] = request[r]
        BY <2>1 DEF Page, PageList, ReadDecisions, PageWindows, PageOccurrences, Answer, End
      <4>4. Compare(q) => request'[r] = request[r]
        BY <2>1 DEF Compare, CompareList, CompareWindows, ReadPriors, ReadCurrent, Execute,
                    Propose, RecordComparison, RecordFailure, Complete, Answer, Goto, End
      <4> QED BY <4>1, <4>2, <4>3, <4>4
    <3>2. ~Extract
      BY <2>2 DEF Extract
    <3>3. ~Begin(r) /\ ~Decide(r) /\ ~Compare(r)
      BY <1>1 DEF Begin, At, Decide, CheckReview, CheckGrouping, CheckRelationReview,
                  ReadHistory, AppendDecision, PutOccurrence, CreateClaim, CreateRelation,
                  Compare, CompareList, CompareWindows, ReadPriors, ReadCurrent, Execute,
                  Propose, RecordComparison, RecordFailure, Complete
    <3>4. ~Crash(r)
      <4>1. Crash(r) => request'[r].answer = None
        BY <2>1, EndIsOK DEF Crash, Ended
      <4> QED BY <1>1, <4>1, ReviewAssumption
    <3>5. Page(r)
      BY <1>1, <3>1, <3>2, <3>3, <3>4 DEF Next
    <3> QED BY <1>1, <3>5 DEF Page, PageList, ReadDecisions, PageWindows, At
  <2>4. Completion(request[r].extracted, Held(request[r].op.instance),
                   request[r].judged) = "reviewed"
    <3>1. PICK answer : answer = Completion(request[r].extracted,
                                            Held(request[r].op.instance),
                                            request[r].judged)
      OBVIOUS
    <3>2. End(r, "done", answer)
      BY <2>3, <3>1 DEF PageOccurrences, Answer
    <3>3. request'[r].answer = answer
      BY <2>1, <3>2, EndIsOK DEF Ended
    <3> QED BY <1>1, <3>1, <3>3
  <2>5. request[r].extracted /\ Held(request[r].op.instance) \subseteq request[r].judged
    BY <2>4 DEF Completion
  <2>6. \A o \in request[r].judged : On(Of(o)) # {}
    BY <1>1, <2>1 DEF ReadingOK
  <2>7. Pending(Held(request[r].op.instance)) = {}
    BY <2>1, <2>5, <2>6, DecidedIsNotPending DEF Pending
  <2>8. request[r].op.instance \in extracted
    BY <1>1, <2>1, <2>5 DEF ReadingOK
  <2> QED BY <2>7, <2>8
<1>2. IInv /\ [Next]_vars =>
        [\A r \in Request :
           request[r].pc = "occurrences" /\ request'[r].answer = "reviewed" =>
             /\ Pending(Held(request[r].op.instance)) = {}
             /\ request[r].op.instance \in extracted]_vars
  BY <1>1
<1> QED BY <1>2, AlwaysIInv, PTL DEF Spec, ReviewedIsTrue
=============================================================================
