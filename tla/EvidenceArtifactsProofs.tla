---------------------- MODULE EvidenceArtifactsProofs ----------------------
(***************************************************************************)
(* Proofs about EvidenceArtifacts, for any number of requests and crashes: *)
(* an import that is reported activated is whole, what is active can be    *)
(* read, and the lifecycle of a representation is one story.               *)
(*                                                                         *)
(* ImportIsWhole holds however the process is replaced.  The other two     *)
(* need that the process that reconciles is the only one (Rolling = FALSE, *)
(* the deployment the service is written for): what a reconciliation found *)
(* unreferenced stays so only because no request is under way meanwhile.   *)
(***************************************************************************)
EXTENDS EvidenceArtifacts, TLAPS

(* The steps of an import after its first reads. *)
Securing == {"secure", "stage", "stat", "create", "raced", "activate"}

Importing == Securing \cup {"put-staging", "check-cancelled", "read-revision",
                            "put-activated", "advance"}

Deleting == {"erase", "verify", "tombstone"}

Places == Importing \cup Deleting \cup Ended \cup
            {"idle", "reads", "put-cancelled", "ask", "put-envelope", "fetch"}

HasEnvelope(p) == envelope[p] # "none"

(* What a request is doing tells what kind of request it is. *)
KindOK(r) ==
  /\ request[r].pc \in Importing => request[r].kind = "import"
  /\ request[r].pc = "put-cancelled" => request[r].kind = "cancel"
  /\ request[r].pc \in {"ask"} \cup Deleting => request[r].kind = "delete"
  /\ request[r].pc = "put-envelope" => request[r].kind = "rewrap"
  /\ request[r].pc = "fetch" => request[r].kind = "read"

(* Until two requests overlap, at most one is under way. *)
Alone ==
  ~overlapped => \A r, q \in Request : Underway(r) /\ Underway(q) => r = q

BoundsOK == overlapped \in BOOLEAN /\ crashes \in Nat

BaseInv ==
  /\ TypeOK /\ BoundsOK
  /\ \A r \in Request : KindOK(r)
  /\ Alone

(* An envelope is written with the activation, and so is the source. *)
EnvelopesOK ==
  \A p \in Representation :
    /\ HasEnvelope(p) <=> Has(p, "activated")
    /\ HasEnvelope(p) => source
    /\ staging[p] = "activated" => HasEnvelope(p)

(* An import that has come so far has secured so much. *)
SecuredOK(r) ==
  LET pc == request[r].pc IN
  /\ pc = "reads" /\ request[r].kind = "import" => request[r].rep = "original"
  /\ pc \in Securing /\ request[r].rep = "canonical" => HasEnvelope("original")
  /\ pc \in {"put-staging", "check-cancelled"} => HasEnvelope("original")
  /\ pc = "put-envelope" => HasEnvelope(request[r].rep)
  /\ pc \in {"read-revision", "put-activated", "advance"} =>
       \A p \in Representation : HasEnvelope(p)

RecordOK ==
  import = "activated" => \A p \in Representation : HasEnvelope(p)

(* Until two requests overlap, the import record is what the request under *)
(* way has read and written last.                                          *)
InTurn(r) ==
  LET pc == request[r].pc IN
  /\ request[r].kind = "cancel" /\ pc = "answered" => import = "cancelled"
  /\ pc \in Importing \ {"advance"} => import \in {"none", "staging"}
  /\ pc = "put-cancelled" => import = "staging"
  /\ pc = "advance" => import = "activated"

(* And as long as none dies, the revision counts the activation. *)
RevisionCounts ==
  /\ (\A r \in Request : request[r].pc # "advance") =>
       revision = IF import = "activated" THEN 1 ELSE 0
  /\ \A r \in Request :
       /\ request[r].pc = "advance" => revision = 0 /\ request[r].seen = 0
       /\ request[r].pc = "put-activated" => request[r].seen = revision

WholeInv ==
  /\ \A r \in Request : SecuredOK(r)
  /\ EnvelopesOK
  /\ RecordOK
  /\ ~overlapped => \A r \in Request : InTurn(r)
  /\ ~overlapped /\ crashes = 0 => RevisionCounts

(* The reconciliation is at work or has failed only while no request is    *)
(* under way; it quarantines what has no envelope and looks for objects    *)
(* that are active.                                                        *)
StartupOK ==
  /\ startup.pc # "up" => \A r \in Request : ~Underway(r)
  /\ startup.pc # "refused"
  /\ startup.pc \in {"erase", "quarantine"} =>
       /\ \A p \in startup.todo : ~HasEnvelope(p)
       /\ \A p \in startup.active : HasEnvelope(p) /\ ~Asked(p)

(* Without an envelope a representation has only been quarantined; with    *)
(* one, that is not what happened last.                                    *)
LogOK(p) ==
  LET log == lifecycle[p] IN
  /\ staging[p] = "activated" <=> HasEnvelope(p)
  /\ ~HasEnvelope(p) => \A i \in DOMAIN log : log[i] = "quarantined"
  /\ HasEnvelope(p) => log # << >> /\ log[Len(log)] # "quarantined"

ObjectOK(p) == HasEnvelope(p) /\ ~Asked(p) => p \in object

(* Who is about to activate has seen the object, and only a deletion can   *)
(* have taken it away; who deletes has put its request into the lifecycle. *)
HandleOK(r) ==
  LET pc == request[r].pc
      p == request[r].rep
      n == request[r].seen + 1
  IN
  /\ pc = "activate" => p \in object \/ Asked(p)
  /\ pc \in {"ask", "put-envelope"} \cup Deleting => HasEnvelope(p)
  /\ pc \in Deleting =>
       n \in DOMAIN lifecycle[p] /\ lifecycle[p][n] = "deletion-requested"
  /\ request[r].asked => request[r].kind = "read" /\ pc = "refused"

(* Until two requests overlap, what a request found gone stays gone. *)
GoneOK(r) ==
  /\ request[r].pc \in Securing \ {"secure"} => ~HasEnvelope(request[r].rep)
  /\ request[r].pc = "tombstone" => request[r].rep \notin object

DeletedIsGone == \A p \in Representation : Has(p, "deleted") => p \notin object

StoryOK(p) ==
  LET log == lifecycle[p] IN
  \A i \in DOMAIN log :
    /\ log[i] \in {"activated", "quarantined"} =>
         \A j \in 1 .. i - 1 : log[j] = "quarantined"
    /\ log[i] = "deleted" => i > 1 /\ log[i - 1] = "deletion-requested"

KeptInv ==
  /\ \A r \in Request : HandleOK(r)
  /\ \A p \in Representation : LogOK(p) /\ ObjectOK(p) /\ StoryOK(p)
  /\ StartupOK
  /\ ~overlapped => DeletedIsGone /\ \A r \in Request : GoneOK(r)

-----------------------------------------------------------------------------
(* Requests.                                                               *)

(* A request moves, and no other one does. *)
Moves(r) ==
  /\ request' \in [Request -> RequestState]
  /\ \A q \in Request \ {r} : request'[q] = request[q]

(* One that goes somewhere changes nothing else of itself. *)
LEMMA Goes ==
  ASSUME TypeOK, NEW r \in Request, NEW pc \in Places, Goto(r, pc)
  PROVE  /\ Moves(r)
         /\ request'[r] = [request[r] EXCEPT !.pc = pc]
         /\ request'[r].pc = pc
         /\ request'[r].kind = request[r].kind
         /\ request'[r].rep = request[r].rep
         /\ request'[r].seen = request[r].seen
         /\ request'[r].asked = request[r].asked
<1>1. request \in [Request -> RequestState] /\ request[r] \in RequestState
  BY DEF TypeOK
<1>2. [request[r] EXCEPT !.pc = pc] \in RequestState
  BY <1>1 DEF RequestState, Places, Importing, Securing, Deleting
<1>3. request' = [request EXCEPT ![r] = [request[r] EXCEPT !.pc = pc]]
  BY DEF Goto
<1> QED BY <1>1, <1>2, <1>3 DEF Moves, RequestState

(* Where the steps lead. *)
LEMMA AllPlaces ==
  /\ "reads" \in Places /\ "secure" \in Places /\ "stage" \in Places
  /\ "stat" \in Places /\ "create" \in Places /\ "raced" \in Places
  /\ "activate" \in Places /\ "put-staging" \in Places
  /\ "check-cancelled" \in Places /\ "read-revision" \in Places
  /\ "put-activated" \in Places /\ "advance" \in Places
  /\ "put-cancelled" \in Places /\ "ask" \in Places /\ "erase" \in Places
  /\ "verify" \in Places /\ "tombstone" \in Places
  /\ "put-envelope" \in Places /\ "fetch" \in Places
  /\ "answered" \in Places /\ "refused" \in Places
BY DEF Places, Importing, Securing, Deleting, Ended

(* A step of an import is the step of a request that is under way. *)
LEMMA ImportMoves ==
  ASSUME BaseInv, NEW r \in Request, Import(r)
  PROVE  /\ Underway(r) /\ Moves(r) /\ KindOK(r)'
         /\ UNCHANGED host
<1> USE DEF Underway, Ended, KindOK, Importing, Securing, Deleting, host
<1>1. request[r] \in RequestState /\ TypeOK /\ KindOK(r)
  BY DEF BaseInv, TypeOK
<1>2. CASE ImportReads(r)
  <2>1. Reads(r, "import") /\ UNCHANGED <<startup, crashes, overlapped>>
    BY <1>2 DEF ImportReads
  <2>2. CASE \E pc \in {"answered", "refused"} : Goto(r, pc)
    BY <1>1, <2>1, <2>2, Goes, AllPlaces DEF Reads
  <2>3. CASE \E n \in {1, 2} :
               request' = [request EXCEPT ![r].pc = "secure", ![r].ordinal = n]
    <3>1. PICK n \in {1, 2} :
            request' = [request EXCEPT ![r] =
                          [request[r] EXCEPT !.pc = "secure", !.ordinal = n]]
      BY <2>3
    <3>2. [request[r] EXCEPT !.pc = "secure", !.ordinal = n] \in RequestState
      BY <1>1 DEF RequestState
    <3>3. /\ Moves(r)
          /\ request'[r] = [request[r] EXCEPT !.pc = "secure", !.ordinal = n]
      BY <1>1, <3>1, <3>2 DEF TypeOK, Moves
    <3> QED BY <1>1, <2>1, <3>3 DEF Reads, RequestState
  <2> QED BY <1>2, <2>2, <2>3 DEF ImportReads
<1>3. CASE SecureReads(r)
  <2>1. \E pc \in {"put-staging", "read-revision", "stat", "stage", "refused"} : Goto(r, pc)
    BY <1>3 DEF SecureReads, Secured
  <2> QED BY <1>1, <1>3, <2>1, Goes, AllPlaces DEF SecureReads
<1>4. CASE StageArtifact(r)
  <2>1. \E pc \in {"stat", "refused"} : Goto(r, pc)
    BY <1>4 DEF StageArtifact
  <2> QED BY <1>1, <1>4, <2>1, Goes, AllPlaces DEF StageArtifact
<1>5. CASE StatObject(r)
  <2>1. \E pc \in {"activate", "create"} : Goto(r, pc)
    BY <1>5 DEF StatObject
  <2> QED BY <1>1, <1>5, <2>1, Goes, AllPlaces DEF StatObject
<1>6. CASE CreateObject(r)
  <2>1. \E pc \in {"activate", "raced"} : Goto(r, pc)
    BY <1>6 DEF CreateObject
  <2> QED BY <1>1, <1>6, <2>1, Goes, AllPlaces DEF CreateObject
<1>7. CASE StatRaced(r)
  <2>1. \E pc \in {"activate", "refused"} : Goto(r, pc)
    BY <1>7 DEF StatRaced
  <2> QED BY <1>1, <1>7, <2>1, Goes, AllPlaces DEF StatRaced
<1>8. CASE ActivateSource(r)
  <2>1. \E pc \in {"put-staging", "read-revision", "refused"} : Goto(r, pc)
    BY <1>8 DEF ActivateSource, Secured
  <2>2. request[r].pc = "activate" /\ UNCHANGED <<startup, crashes, overlapped>>
    BY <1>8 DEF ActivateSource
  <2> QED BY <1>1, <2>1, <2>2, Goes, AllPlaces
<1>9. CASE PutStaging(r)
  BY <1>1, <1>9, Goes, AllPlaces DEF PutStaging
<1>10. CASE CheckCancelled(r)
  <2>1. /\ request[r].pc = "check-cancelled"
        /\ UNCHANGED <<startup, crashes, overlapped>>
    BY <1>10 DEF CheckCancelled
  <2>2. CASE Goto(r, "refused")
    BY <1>1, <2>1, <2>2, Goes, AllPlaces
  <2>3. CASE request' = [request EXCEPT ![r].pc = "secure", ![r].rep = "canonical"]
    <3>1. [request[r] EXCEPT !.pc = "secure", !.rep = "canonical"] \in RequestState
      BY <1>1 DEF RequestState, Representation
    <3>2. /\ Moves(r)
          /\ request'[r] = [request[r] EXCEPT !.pc = "secure", !.rep = "canonical"]
      BY <1>1, <2>3, <3>1 DEF TypeOK, Moves
    <3> QED BY <1>1, <2>1, <3>2 DEF RequestState
  <2> QED BY <1>10, <2>2, <2>3 DEF CheckCancelled
<1>11. CASE ReadRevision(r)
  BY <1>1, <1>11 DEF TypeOK, ReadRevision, RequestState, Moves
<1>12. CASE PutActivated(r)
  BY <1>1, <1>12, Goes, AllPlaces DEF PutActivated
<1>13. CASE AdvanceRevision(r)
  <2>1. \E pc \in {"answered", "refused"} : Goto(r, pc)
    BY <1>13 DEF AdvanceRevision
  <2>2. request[r].pc = "advance" /\ UNCHANGED <<startup, crashes, overlapped>>
    BY <1>13 DEF AdvanceRevision
  <2> QED BY <1>1, <2>1, <2>2, Goes, AllPlaces
<1> QED BY <1>2, <1>3, <1>4, <1>5, <1>6, <1>7, <1>8, <1>9, <1>10, <1>11,
           <1>12, <1>13 DEF Import

(* So is a step of any other request. *)
LEMMA AdministerMoves ==
  ASSUME BaseInv, NEW r \in Request, Administer(r)
  PROVE  /\ Underway(r) /\ Moves(r) /\ KindOK(r)'
         /\ UNCHANGED host
<1> USE DEF Underway, Ended, KindOK, Importing, Securing, Deleting, host
<1>1. request[r] \in RequestState /\ TypeOK /\ KindOK(r)
  BY DEF BaseInv, TypeOK
<1>2. CASE CancelReads(r)
  <2>1. \E pc \in {"put-cancelled", "answered", "refused"} :
          Goto(r, pc) /\ Reads(r, "cancel") /\ UNCHANGED <<startup, crashes, overlapped>>
    BY <1>2 DEF CancelReads
  <2> QED BY <1>1, <2>1, Goes, AllPlaces DEF Reads
<1>3. CASE PutCancelled(r)
  BY <1>1, <1>3, Goes, AllPlaces DEF PutCancelled
<1>4. CASE DeleteReads(r)
  <2>1. \E pc \in {"ask", "refused"} : Goto(r, pc)
    BY <1>4 DEF DeleteReads, Reads
  <2> QED BY <1>1, <1>4, <2>1, Goes, AllPlaces DEF DeleteReads, Reads
<1>5. CASE AskDeletion(r)
  <2>1. \E pc \in {"erase", "refused"} : Goto(r, pc)
    BY <1>5 DEF AskDeletion, AppendLifecycle
  <2>2. request[r].pc = "ask" /\ UNCHANGED <<startup, crashes, overlapped>>
    BY <1>5 DEF AskDeletion, AppendLifecycle
  <2> QED BY <1>1, <2>1, <2>2, Goes, AllPlaces
<1>6. CASE DeleteObject(r)
  BY <1>1, <1>6, Goes, AllPlaces DEF DeleteObject
<1>7. CASE VerifyDeleted(r)
  <2>1. \E pc \in {"tombstone", "refused"} : Goto(r, pc)
    BY <1>7 DEF VerifyDeleted
  <2> QED BY <1>1, <1>7, <2>1, Goes, AllPlaces DEF VerifyDeleted
<1>8. CASE Tombstone(r)
  <2>1. \E pc \in {"answered", "refused"} : Goto(r, pc)
    BY <1>8 DEF Tombstone, AppendLifecycle
  <2>2. request[r].pc = "tombstone" /\ UNCHANGED <<startup, crashes, overlapped>>
    BY <1>8 DEF Tombstone, AppendLifecycle
  <2> QED BY <1>1, <2>1, <2>2, Goes, AllPlaces
<1>9. CASE RewrapReads(r)
  <2>1. \E pc \in {"put-envelope", "refused"} : Goto(r, pc)
    BY <1>9 DEF RewrapReads, Reads
  <2> QED BY <1>1, <1>9, <2>1, Goes, AllPlaces DEF RewrapReads, Reads
<1>10. CASE PutEnvelope(r)
  BY <1>1, <1>10, Goes, AllPlaces DEF PutEnvelope
<1>11. CASE ReadCase(r)
  <2>1. Asked(request[r].rep) \in BOOLEAN
    BY DEF Asked, Has
  <2>2. PICK pc \in {"fetch", "refused"}, asked \in BOOLEAN :
          request' = [request EXCEPT ![r] =
                        [request[r] EXCEPT !.pc = pc, !.asked = asked]]
    BY <1>11, <2>1 DEF ReadCase
  <2>3. [request[r] EXCEPT !.pc = pc, !.asked = asked] \in RequestState
    BY <1>1 DEF RequestState
  <2>4. /\ Moves(r)
        /\ request'[r] = [request[r] EXCEPT !.pc = pc, !.asked = asked]
    BY <1>1, <2>2, <2>3 DEF TypeOK, Moves
  <2>5. request'[r].pc = pc /\ request'[r].kind = request[r].kind
    BY <1>1, <2>4 DEF RequestState
  <2> QED BY <1>1, <1>11, <2>4, <2>5 DEF ReadCase, Reads
<1>12. CASE FetchObject(r)
  <2>1. \E pc \in {"answered", "refused"} : Goto(r, pc)
    BY <1>12 DEF FetchObject
  <2> QED BY <1>1, <1>12, <2>1, Goes, AllPlaces DEF FetchObject
<1> QED BY <1>2, <1>3, <1>4, <1>5, <1>6, <1>7, <1>8, <1>9, <1>10, <1>11,
           <1>12 DEF Administer

(* A new request is a request that has read nothing. *)
LEMMA BeginMoves ==
  ASSUME BaseInv, NEW r \in Request, Begin(r)
  PROVE  /\ ~Underway(r) /\ request[r].pc = "idle"
         /\ Moves(r) /\ KindOK(r)'
         /\ request'[r].pc = "reads" /\ ~request'[r].asked
         /\ overlapped' = (overlapped \/ \E q \in Request : Underway(q))
         /\ UNCHANGED <<store, startup, crashes>>
<1>1. request[r] \in RequestState /\ TypeOK
  BY DEF BaseInv, TypeOK
<1>2. \A p \in Representation : Len(lifecycle[p]) \in Nat
  BY <1>1 DEF TypeOK
<1>3. PICK kind \in {"import", "cancel", "delete", "rewrap", "read"},
           p \in Representation :
        request' = [request EXCEPT
                      ![r] = [NoRequest EXCEPT
                                !.pc = "reads", !.kind = kind, !.rep = p,
                                !.seen = IF kind = "delete" THEN Len(lifecycle[p])
                                         ELSE 0]]
  BY DEF Begin
<1> DEFINE new == [NoRequest EXCEPT
                     !.pc = "reads", !.kind = kind, !.rep = p,
                     !.seen = IF kind = "delete" THEN Len(lifecycle[p]) ELSE 0]
<1>4. new \in RequestState /\ new.pc = "reads" /\ ~new.asked
  BY <1>2 DEF NoRequest, RequestState
<1> HIDE DEF new
<1>5. request' = [request EXCEPT ![r] = new]
  BY <1>3 DEF new
<1>6. request'[r] = new /\ Moves(r)
  BY <1>1, <1>4, <1>5 DEF Moves, TypeOK
<1> QED BY <1>4, <1>6 DEF Begin, Underway, Ended, KindOK, Importing, Securing,
                        Deleting, store, catalogue

(* Everything has its type but for the requests and the startup. *)
StoreTypeOK ==
  /\ import \in {"none", "staging", "activated", "cancelled"}
  /\ source \in BOOLEAN
  /\ staging \in [Representation -> {"none", "staging", "activated", "quarantined"}]
  /\ object \subseteq Representation
  /\ envelope \in [Representation -> {"none", "pending", "rewrapped"}]
  /\ lifecycle \in [Representation -> Seq(Event)]
  /\ revision \in Nat

(* An event added to a log is its last one. *)
LEMMA LogAdds ==
  ASSUME lifecycle \in [Representation -> Seq(Event)],
         NEW p \in Representation, NEW event \in Event, Log(p, event)
  PROVE  /\ lifecycle' \in [Representation -> Seq(Event)]
         /\ Len(lifecycle[p]) \in Nat
         /\ Len(lifecycle'[p]) = Len(lifecycle[p]) + 1
         /\ DOMAIN lifecycle[p] = 1 .. Len(lifecycle[p])
         /\ DOMAIN lifecycle'[p] = 1 .. Len(lifecycle[p]) + 1
         /\ lifecycle'[p][Len(lifecycle[p]) + 1] = event
         /\ \A i \in 1 .. Len(lifecycle[p]) : lifecycle'[p][i] = lifecycle[p][i]
         /\ \A q \in Representation \ {p} : lifecycle'[q] = lifecycle[q]
<1>1. lifecycle[p] \in Seq(Event) /\ Append(lifecycle[p], event) \in Seq(Event)
  OBVIOUS
<1>2. lifecycle' = [lifecycle EXCEPT ![p] = Append(lifecycle[p], event)]
  BY DEF Log
<1>3. lifecycle'[p] = Append(lifecycle[p], event)
  BY <1>2
<1> QED BY <1>1, <1>2, <1>3

(* And the only one that is new. *)
LEMMA LogHas ==
  ASSUME lifecycle \in [Representation -> Seq(Event)],
         NEW p \in Representation, NEW event \in Event, Log(p, event)
  PROVE  \A q \in Representation, e \in Event :
           Has(q, e)' <=> Has(q, e) \/ (q = p /\ e = event)
<1> SUFFICES ASSUME NEW q \in Representation, NEW e \in Event
             PROVE  Has(q, e)' <=> Has(q, e) \/ (q = p /\ e = event)
  OBVIOUS
<1>1. CASE q = p
  <2>1. /\ DOMAIN lifecycle[q] = 1 .. Len(lifecycle[q])
        /\ DOMAIN lifecycle'[q] = 1 .. Len(lifecycle[q]) + 1
        /\ Len(lifecycle[q]) \in Nat
        /\ lifecycle'[q][Len(lifecycle[q]) + 1] = event
        /\ \A i \in 1 .. Len(lifecycle[q]) : lifecycle'[q][i] = lifecycle[q][i]
    BY <1>1, LogAdds
  <2>2. \A i \in 1 .. Len(lifecycle[q]) + 1 :
          i \in 1 .. Len(lifecycle[q]) \/ i = Len(lifecycle[q]) + 1
    BY <2>1
  <2> QED BY <1>1, <2>1, <2>2 DEF Has
<1>2. CASE q # p
  BY <1>2, LogAdds DEF Has
<1> QED BY <1>1, <1>2

(* The steps of an import keep the types. *)
LEMMA ImportTypes ==
  ASSUME TypeOK, NEW r \in Request, Import(r)
  PROVE  StoreTypeOK'
<1> USE DEF StoreTypeOK, store, catalogue
<1>1. StoreTypeOK /\ request[r].rep \in Representation /\ "activated" \in Event
  BY DEF TypeOK, RequestState, Event
<1>2. CASE ImportReads(r)
  BY <1>1, <1>2 DEF ImportReads
<1>3. CASE SecureReads(r)
  BY <1>1, <1>3 DEF SecureReads
<1>4. CASE StageArtifact(r)
  BY <1>1, <1>4 DEF StageArtifact
<1>5. CASE StatObject(r)
  BY <1>1, <1>5 DEF StatObject
<1>6. CASE CreateObject(r)
  BY <1>1, <1>6 DEF CreateObject
<1>7. CASE StatRaced(r)
  BY <1>1, <1>7 DEF StatRaced
<1>8. CASE ActivateSource(r)
  <2>1. CASE UNCHANGED <<source, staging, envelope, lifecycle>>
    BY <1>1, <1>8, <2>1 DEF ActivateSource
  <2>2. CASE Log(request[r].rep, "activated")
    <3>1. lifecycle' \in [Representation -> Seq(Event)]
      BY <1>1, <2>2, LogAdds
    <3> QED BY <1>1, <1>8, <3>1 DEF ActivateSource
  <2> QED BY <1>8, <2>1, <2>2 DEF ActivateSource
<1>9. CASE PutStaging(r)
  BY <1>1, <1>9 DEF PutStaging
<1>10. CASE CheckCancelled(r)
  BY <1>1, <1>10 DEF CheckCancelled
<1>11. CASE ReadRevision(r)
  BY <1>1, <1>11 DEF ReadRevision
<1>12. CASE PutActivated(r)
  BY <1>1, <1>12 DEF PutActivated
<1>13. CASE AdvanceRevision(r)
  BY <1>1, <1>13 DEF AdvanceRevision
<1> QED BY <1>2, <1>3, <1>4, <1>5, <1>6, <1>7, <1>8, <1>9, <1>10, <1>11,
           <1>12, <1>13 DEF Import

(* So do those of the other requests. *)
LEMMA AdministerTypes ==
  ASSUME TypeOK, NEW r \in Request, Administer(r)
  PROVE  StoreTypeOK'
<1> USE DEF StoreTypeOK, store, catalogue
<1>1. /\ StoreTypeOK /\ request[r].rep \in Representation
      /\ {"deletion-requested", "deleted", "key-rewrapped"} \subseteq Event
  BY DEF TypeOK, RequestState, Event
<1>2. ASSUME NEW event \in Event, NEW expected, NEW next,
             AppendLifecycle(r, event, expected, next)
      PROVE  StoreTypeOK'
  <2>1. CASE Log(request[r].rep, event)
    <3>1. lifecycle' \in [Representation -> Seq(Event)]
      BY <1>1, <2>1, LogAdds
    <3> QED BY <1>1, <1>2, <3>1 DEF AppendLifecycle
  <2>2. CASE UNCHANGED lifecycle
    BY <1>1, <1>2, <2>2 DEF AppendLifecycle
  <2> QED BY <1>2, <2>1, <2>2 DEF AppendLifecycle
<1>3. CASE CancelReads(r) \/ DeleteReads(r) \/ VerifyDeleted(r)
             \/ RewrapReads(r) \/ ReadCase(r) \/ FetchObject(r)
  <2>1. UNCHANGED store
    BY <1>3 DEF CancelReads, DeleteReads, VerifyDeleted, RewrapReads, ReadCase,
                FetchObject
  <2> QED BY <1>1, <2>1
<1>4. CASE PutCancelled(r)
  BY <1>1, <1>4 DEF PutCancelled
<1>5. CASE AskDeletion(r)
  BY <1>1, <1>2, <1>5 DEF AskDeletion
<1>6. CASE DeleteObject(r)
  BY <1>1, <1>6 DEF DeleteObject
<1>7. CASE Tombstone(r)
  BY <1>1, <1>2, <1>7 DEF Tombstone
<1>8. CASE PutEnvelope(r)
  <2>1. lifecycle' \in [Representation -> Seq(Event)]
    BY <1>1, <1>8, LogAdds DEF PutEnvelope
  <2> QED BY <1>1, <1>8, <2>1 DEF PutEnvelope
<1> QED BY <1>3, <1>4, <1>5, <1>6, <1>7, <1>8 DEF Administer

(* And those of the process itself. *)
LEMMA HostTypes ==
  ASSUME TypeOK, Restart \/ Reconcile
  PROVE  /\ StoreTypeOK'
         /\ startup' \in [pc : {"reads", "erase", "quarantine", "up", "refused"},
                          todo : SUBSET Representation,
                          active : SUBSET Representation]
<1> USE DEF store, catalogue, StoreTypeOK
<1>1. /\ StoreTypeOK
      /\ startup \in [pc : {"reads", "erase", "quarantine", "up", "refused"},
                      todo : SUBSET Representation,
                      active : SUBSET Representation]
      /\ "quarantined" \in Event
  BY DEF TypeOK, Event
<1>2. CASE Restart
  BY <1>1, <1>2 DEF Restart, Serving
<1>3. CASE ReconcileReads
  BY <1>1, <1>3 DEF ReconcileReads
<1>4. CASE Scan
  BY <1>1, <1>4 DEF Scan
<1>5. CASE \E p \in Representation : ReconcileErases(p)
  BY <1>1, <1>5 DEF ReconcileErases
<1>6. ASSUME NEW p \in Representation, Quarantine(p)
      PROVE  /\ StoreTypeOK'
             /\ startup' \in [pc : {"reads", "erase", "quarantine", "up", "refused"},
                              todo : SUBSET Representation,
                              active : SUBSET Representation]
  <2>1. lifecycle' \in [Representation -> Seq(Event)]
    BY <1>1, <1>6, LogAdds DEF Quarantine
  <2> QED BY <1>1, <1>6, <2>1 DEF Quarantine
<1> QED BY <1>2, <1>3, <1>4, <1>5, <1>6 DEF Reconcile

(* A restart ends what is under way, or leaves it. *)
LEMMA RestartMoves ==
  ASSUME TypeOK, Restart
  PROVE  /\ request' \in [Request -> RequestState]
         /\ \A r \in Request :
              \/ request'[r] = request[r]
              \/ /\ Underway(r) /\ request'[r].pc = "dead"
                 /\ request'[r] = [request[r] EXCEPT !.pc = "dead"]
         /\ ~Rolling => \A r \in Request : ~Underway(r)'
         /\ startup' = [Serving EXCEPT !.pc = "reads"]
         /\ crashes' = crashes + 1
         /\ UNCHANGED <<store, overlapped>>
<1>1. ASSUME NEW r \in Request
      PROVE  /\ request[r] \in RequestState
             /\ [request[r] EXCEPT !.pc = "dead"] \in RequestState
             /\ [request[r] EXCEPT !.pc = "dead"].pc = "dead"
  <2>1. request[r] \in RequestState /\ "dead" \in Ended
    BY DEF TypeOK, Ended
  <2> QED BY <2>1 DEF RequestState
<1>2. PICK goesOn \in IF Rolling THEN BOOLEAN ELSE {FALSE} :
        request' = [r \in Request |->
                      IF Underway(r) /\ ~goesOn
                      THEN [request[r] EXCEPT !.pc = "dead"] ELSE request[r]]
  BY DEF Restart
<1>3. \A r \in Request :
        request'[r] = IF Underway(r) /\ ~goesOn
                      THEN [request[r] EXCEPT !.pc = "dead"] ELSE request[r]
  BY <1>2
<1>4. request' \in [Request -> RequestState]
  BY <1>1, <1>2, <1>3
<1>5. ~Rolling => \A r \in Request : ~Underway(r)'
  BY <1>1, <1>2, <1>3 DEF Underway, Ended
<1> QED BY <1>1, <1>3, <1>4, <1>5 DEF Restart
-----------------------------------------------------------------------------
(* The invariant that all deployments share.                               *)

(* It holds at the start. *)
LEMMA BaseInitial ==
  ASSUME Init
  PROVE  BaseInv
<1>1. /\ NoRequest \in RequestState /\ NoRequest.pc = "idle"
      /\ << >> \in Seq(Event)
  BY DEF NoRequest, RequestState, Representation
<1>2. \A r \in Request : request[r] = NoRequest
  BY DEF Init
<1>3. StoreTypeOK
  BY <1>1 DEF Init, StoreTypeOK
<1>4. TypeOK /\ BoundsOK
  BY <1>1, <1>3 DEF Init, TypeOK, BoundsOK, StoreTypeOK, Serving
<1>5. (\A r \in Request : KindOK(r)) /\ Alone
  BY <1>1, <1>2 DEF KindOK, Alone, Underway, Importing, Securing, Deleting
<1> QED BY <1>4, <1>5 DEF BaseInv

(* Every step keeps it. *)
LEMMA BaseStep ==
  ASSUME BaseInv, [Next]_vars
  PROVE  BaseInv'
<1> USE DEF BaseInv
<1>1. ASSUME NEW r \in Request, Begin(r)
      PROVE  BaseInv'
  <2>1. StoreTypeOK' /\ UNCHANGED <<startup, crashes>>
    BY <1>1, BeginMoves DEF TypeOK, StoreTypeOK, store, catalogue
  <2>2. Moves(r) /\ KindOK(r)' /\ overlapped' \in BOOLEAN
    BY <1>1, BeginMoves DEF BoundsOK
  <2>3. TypeOK' /\ BoundsOK'
    BY <2>1, <2>2 DEF TypeOK, StoreTypeOK, Moves, BoundsOK
  <2>4. \A q \in Request : KindOK(q)'
    BY <2>2 DEF Moves, KindOK
  <2>5. Alone'
    BY <1>1, <2>2, BeginMoves DEF Alone, Moves, Underway
  <2> QED BY <2>3, <2>4, <2>5
<1>2. ASSUME NEW r \in Request, Import(r) \/ Administer(r)
      PROVE  BaseInv'
  <2>1. StoreTypeOK'
    BY <1>2, ImportTypes, AdministerTypes
  <2>2. Underway(r) /\ Moves(r) /\ KindOK(r)' /\ UNCHANGED host
    BY <1>2, ImportMoves, AdministerMoves
  <2>3. TypeOK' /\ BoundsOK'
    BY <2>1, <2>2 DEF TypeOK, StoreTypeOK, Moves, BoundsOK, host
  <2>4. \A q \in Request : KindOK(q)'
    BY <2>2 DEF Moves, KindOK
  <2>5. Alone'
    BY <2>2 DEF Alone, Moves, Underway, host
  <2> QED BY <2>3, <2>4, <2>5
<1>3. CASE Restart
  <2>1. StoreTypeOK' /\ TypeOK'
    BY <1>3, HostTypes, RestartMoves DEF TypeOK, StoreTypeOK
  <2>2. BoundsOK'
    BY <1>3, RestartMoves DEF BoundsOK
  <2>3. \A r \in Request : KindOK(r)'
    BY <1>3, RestartMoves DEF KindOK, Importing, Securing, Deleting
  <2>4. Alone'
    BY <1>3, RestartMoves DEF Alone, Underway, Ended
  <2> QED BY <2>1, <2>2, <2>3, <2>4
<1>4. CASE Reconcile
  <2>1. UNCHANGED <<request, crashes, overlapped>>
    BY <1>4 DEF Reconcile, ReconcileReads, Scan, ReconcileErases, Quarantine
  <2>2. TypeOK' /\ BoundsOK'
    BY <1>4, <2>1, HostTypes DEF TypeOK, StoreTypeOK, BoundsOK
  <2> QED BY <2>1, <2>2 DEF KindOK, Alone, Underway
<1>5. CASE UNCHANGED vars
  BY <1>5 DEF vars, store, catalogue, host, TypeOK, BoundsOK, KindOK, Alone,
              Underway
<1> QED BY <1>1, <1>2, <1>3, <1>4, <1>5 DEF Next
-----------------------------------------------------------------------------
(* An import that is reported activated is whole.                          *)

(* It is enough to look at the request that moves: until two requests      *)
(* overlap no other one is under way.                                      *)
LEMMA WholeHolds ==
  ASSUME BaseInv, WholeInv, NEW r \in Request, Underway(r), Moves(r),
         UNCHANGED host,
         EnvelopesOK', RecordOK', SecuredOK(r)',
         \A p \in Representation : HasEnvelope(p) => HasEnvelope(p)',
         ~overlapped =>
           InTurn(r)' /\ (import = "cancelled" => import' = "cancelled"),
         ~overlapped /\ crashes = 0 =>
           /\ request'[r].pc # "advance" =>
                revision' = IF import' = "activated" THEN 1 ELSE 0
           /\ request'[r].pc = "advance" => revision' = 0 /\ request'[r].seen = 0
           /\ request'[r].pc = "put-activated" => request'[r].seen = revision'
  PROVE  WholeInv'
<1>1. \A q \in Request \ {r} : request'[q] = request[q]
  BY DEF Moves
<1>2. \A q \in Request : SecuredOK(q)'
  <2> SUFFICES ASSUME NEW q \in Request, q # r
               PROVE  SecuredOK(q)'
    OBVIOUS
  <2>1. SecuredOK(q) /\ request'[q] = request[q]
    BY <1>1 DEF WholeInv
  <2>2. "original" \in Representation /\ request[q].rep \in Representation
    BY DEF Representation, BaseInv, TypeOK, RequestState
  <2> QED BY <2>1, <2>2 DEF SecuredOK
<1>3. ~overlapped => \A q \in Request \ {r} :
        request[q].pc \notin Importing \cup {"put-cancelled"}
  BY DEF BaseInv, Alone, Underway, Ended, Importing, Securing
<1>4. ~overlapped => \A q \in Request : InTurn(q)'
  <2> SUFFICES ASSUME ~overlapped, NEW q \in Request, q # r
               PROVE  InTurn(q)'
    OBVIOUS
  <2>1. InTurn(q) /\ request'[q] = request[q]
    BY <1>1 DEF WholeInv
  <2> QED BY <1>3, <2>1 DEF InTurn, Importing
<1>5. ~overlapped /\ crashes = 0 => RevisionCounts'
  <2> SUFFICES ASSUME ~overlapped, crashes = 0
               PROVE  RevisionCounts'
    OBVIOUS
  <2>1. \A q \in Request \ {r} :
          request'[q].pc # "advance" /\ request'[q].pc # "put-activated"
    BY <1>1, <1>3 DEF Importing
  <2> QED BY <2>1 DEF RevisionCounts
<1> QED BY <1>2, <1>4, <1>5 DEF WholeInv, host

(* A step that only reads. *)
LEMMA WholeReads ==
  ASSUME BaseInv, WholeInv, NEW r \in Request, Underway(r), Moves(r),
         UNCHANGED <<store, host>>,
         request[r].pc # "advance", request'[r].pc # "advance",
         request'[r].pc = "put-activated" => request'[r].seen = revision,
         SecuredOK(r)', ~overlapped => InTurn(r)'
  PROVE  WholeInv'
<1>1. UNCHANGED <<import, source, staging, envelope, lifecycle, revision>>
  BY DEF store, catalogue
<1>2. EnvelopesOK' /\ RecordOK'
  BY <1>1 DEF WholeInv, EnvelopesOK, RecordOK, HasEnvelope, Has
<1>3. ~overlapped /\ crashes = 0 =>
        revision = IF import = "activated" THEN 1 ELSE 0
  BY DEF WholeInv, RevisionCounts, BaseInv, Alone, Underway, Ended
<1> QED BY <1>1, <1>2, <1>3, WholeHolds DEF HasEnvelope

(* A step of an import keeps the invariant. *)
LEMMA ImportKeepsWhole ==
  ASSUME BaseInv, WholeInv, NEW r \in Request, Import(r)
  PROVE  WholeInv'
<1> USE DEF SecuredOK, InTurn, Importing, Securing, HasEnvelope
<1>1. /\ TypeOK /\ Underway(r) /\ Moves(r) /\ UNCHANGED host
      /\ KindOK(r) /\ SecuredOK(r) /\ EnvelopesOK /\ RecordOK
      /\ request[r].rep \in Representation
  BY ImportMoves DEF BaseInv, WholeInv, TypeOK, RequestState
<1>2. ~overlapped => InTurn(r)
  BY DEF WholeInv
<1>3. request[r].pc # "advance" /\ ~overlapped /\ crashes = 0 =>
        revision = IF import = "activated" THEN 1 ELSE 0
  BY <1>1 DEF WholeInv, RevisionCounts, BaseInv, Alone, Underway, Ended
<1>4. CASE ImportReads(r)
  <2>1. UNCHANGED <<store, host>> /\ request[r].pc = "reads"
    BY <1>4 DEF ImportReads, Reads
  <2>2. CASE \E pc \in {"answered", "refused"} : Goto(r, pc)
    <3>1. request'[r].pc \in {"answered", "refused"} /\ request'[r].kind = "import"
      BY <1>1, <1>4, <2>2, Goes, AllPlaces DEF ImportReads, Reads
    <3> QED BY <1>1, <2>1, <3>1, WholeReads
  <2>3. CASE \E n \in {1, 2} :
               request' = [request EXCEPT ![r].pc = "secure", ![r].ordinal = n]
    <3>1. /\ request'[r].pc = "secure" /\ request'[r].rep = request[r].rep
          /\ request'[r].kind = "import"
      BY <1>1, <1>4, <2>3 DEF TypeOK, RequestState, ImportReads, Reads
    <3>2. request[r].rep = "original" /\ import \in {"none", "staging"}
      BY <1>1, <1>4, <2>3, <3>1, Goes, AllPlaces DEF ImportReads, Reads
    <3>3. SecuredOK(r)' /\ (~overlapped => InTurn(r)')
      BY <2>1, <3>1, <3>2 DEF store, catalogue
    <3> QED BY <1>1, <2>1, <3>1, <3>3, WholeReads
  <2> QED BY <1>4, <2>2, <2>3 DEF ImportReads
<1>5. CASE SecureReads(r)
  <2>1. UNCHANGED <<store, host>> /\ request[r].pc = "secure"
    BY <1>5 DEF SecureReads
  <2>2. PICK pc \in {"put-staging", "read-revision", "stat", "stage", "refused"} :
          /\ Goto(r, pc)
          /\ pc \in {"put-staging", "read-revision"} =>
               HasEnvelope(request[r].rep) /\ pc = Secured(r, request[r].rep)
    BY <1>5 DEF SecureReads, Secured
  <2>3. /\ request'[r].pc = pc /\ request'[r].rep = request[r].rep
        /\ request'[r].kind = request[r].kind
    BY <1>1, <2>2, Goes, AllPlaces
  <2>4. SecuredOK(r)' /\ (~overlapped => InTurn(r)')
    BY <1>1, <1>2, <2>1, <2>2, <2>3 DEF Secured, store, catalogue, Representation,
         KindOK
  <2> QED BY <1>1, <2>1, <2>3, <2>4, WholeReads
<1>6. CASE StageArtifact(r)
  <2>1. /\ request[r].pc = "stage"
        /\ UNCHANGED <<import, source, object, envelope, lifecycle, revision, host>>
    BY <1>6 DEF StageArtifact
  <2>2. PICK pc \in {"stat", "refused"} : Goto(r, pc)
    BY <1>6 DEF StageArtifact
  <2>3. /\ request'[r].pc = pc /\ request'[r].rep = request[r].rep
        /\ request'[r].kind = request[r].kind
    BY <1>1, <2>2, Goes, AllPlaces
  <2>4. SecuredOK(r)' /\ (~overlapped => InTurn(r)') /\ RecordOK'
    BY <1>1, <1>2, <2>1, <2>3 DEF KindOK, RecordOK
  <2>5. \A p \in Representation : staging'[p] = "activated" => staging[p] = "activated"
    BY <1>1, <1>6 DEF StageArtifact, TypeOK
  <2>6. EnvelopesOK'
    BY <1>1, <2>1, <2>5 DEF EnvelopesOK, Has
  <2> QED BY <1>1, <1>3, <2>1, <2>3, <2>4, <2>6, WholeHolds
<1>7. CASE StatObject(r)
  <2>1. UNCHANGED <<store, host>> /\ request[r].pc = "stat"
    BY <1>7 DEF StatObject
  <2>2. PICK pc \in {"activate", "create"} : Goto(r, pc)
    BY <1>7 DEF StatObject
  <2>3. /\ request'[r].pc = pc /\ request'[r].rep = request[r].rep
        /\ request'[r].kind = request[r].kind
    BY <1>1, <2>2, Goes, AllPlaces
  <2>4. SecuredOK(r)' /\ (~overlapped => InTurn(r)')
    BY <1>1, <1>2, <2>1, <2>3 DEF store, catalogue, KindOK
  <2> QED BY <1>1, <2>1, <2>3, <2>4, WholeReads
<1>8. CASE CreateObject(r)
  <2>1. UNCHANGED <<catalogue, host>> /\ request[r].pc = "create"
    BY <1>8 DEF CreateObject
  <2>2. PICK pc \in {"activate", "raced"} : Goto(r, pc)
    BY <1>8 DEF CreateObject
  <2>3. /\ request'[r].pc = pc /\ request'[r].rep = request[r].rep
        /\ request'[r].kind = request[r].kind
    BY <1>1, <2>2, Goes, AllPlaces
  <2>4. SecuredOK(r)' /\ (~overlapped => InTurn(r)') /\ RecordOK' /\ EnvelopesOK'
    BY <1>1, <1>2, <2>1, <2>3
       DEF catalogue, KindOK, RecordOK, EnvelopesOK, Has
  <2> QED BY <1>1, <1>3, <2>1, <2>3, <2>4, WholeHolds DEF catalogue
<1>9. CASE StatRaced(r)
  <2>1. UNCHANGED <<store, host>> /\ request[r].pc = "raced"
    BY <1>9 DEF StatRaced
  <2>2. PICK pc \in {"activate", "refused"} : Goto(r, pc)
    BY <1>9 DEF StatRaced
  <2>3. /\ request'[r].pc = pc /\ request'[r].rep = request[r].rep
        /\ request'[r].kind = request[r].kind
    BY <1>1, <2>2, Goes, AllPlaces
  <2>4. SecuredOK(r)' /\ (~overlapped => InTurn(r)')
    BY <1>1, <1>2, <2>1, <2>3 DEF store, catalogue, KindOK
  <2> QED BY <1>1, <2>1, <2>3, <2>4, WholeReads
<1>10. CASE ActivateSource(r)
  <2>0. PICK p \in Representation : p = request[r].rep
    BY <1>1
  <2>1. request[r].pc = "activate" /\ UNCHANGED <<import, object, revision, host>>
    BY <1>10 DEF ActivateSource
  <2>2. CASE envelope[p] = "rewrapped"
    <3>1. Goto(r, "refused") /\ UNCHANGED <<source, staging, envelope, lifecycle>>
      BY <1>10, <2>0, <2>2 DEF ActivateSource
    <3>2. request'[r].pc = "refused" /\ request'[r].kind = "import"
      BY <1>1, <2>1, <3>1, Goes, AllPlaces DEF KindOK
    <3>3. RecordOK' /\ EnvelopesOK'
      BY <1>1, <2>1, <3>1 DEF RecordOK, EnvelopesOK, Has
    <3> QED BY <1>1, <1>3, <2>1, <3>1, <3>2, <3>3, WholeHolds
  <2>3. CASE envelope[p] # "rewrapped"
    <3>1. Goto(r, Secured(r, p))
      BY <1>10, <2>0, <2>3 DEF ActivateSource
    <3>2. PICK pc \in {"put-staging", "read-revision"} :
            Goto(r, pc) /\ pc = Secured(r, p)
      BY <3>1 DEF Secured
    <3>3. /\ request'[r].pc = pc /\ request'[r].rep = request[r].rep
          /\ request'[r].kind = request[r].kind
      BY <1>1, <3>2, Goes, AllPlaces
    <3>4. /\ EnvelopesOK' /\ HasEnvelope(p)'
          /\ \A q \in Representation : HasEnvelope(q) => HasEnvelope(q)'
      <4>1. CASE staging[p] = "activated"
        <5>1. UNCHANGED <<source, staging, envelope, lifecycle>>
          BY <1>10, <2>0, <2>3, <4>1 DEF ActivateSource
        <5> QED BY <1>1, <4>1, <5>1 DEF EnvelopesOK, Has
      <4>2. CASE staging[p] # "activated"
        <5>1. /\ source' = TRUE
              /\ staging' = [staging EXCEPT ![p] = "activated"]
              /\ envelope' = [envelope EXCEPT ![p] = "pending"]
              /\ Log(p, "activated")
          BY <1>10, <2>0, <2>3, <4>2 DEF ActivateSource
        <5>2. /\ staging'[p] = "activated" /\ envelope'[p] = "pending"
              /\ \A q \in Representation \ {p} :
                   staging'[q] = staging[q] /\ envelope'[q] = envelope[q]
          BY <1>1, <5>1 DEF TypeOK
        <5>3. /\ Has(p, "activated")'
              /\ \A q \in Representation \ {p} :
                   Has(q, "activated")' <=> Has(q, "activated")
          BY <1>1, <5>1, LogHas DEF TypeOK, Event
        <5> QED BY <1>1, <5>1, <5>2, <5>3 DEF EnvelopesOK
      <4> QED BY <4>1, <4>2
    <3>5. SecuredOK(r)' /\ (~overlapped => InTurn(r)') /\ RecordOK'
      BY <1>1, <1>2, <2>0, <2>1, <3>2, <3>3, <3>4
         DEF KindOK, RecordOK, Secured, Representation
    <3> QED BY <1>1, <1>3, <2>1, <3>3, <3>4, <3>5, WholeHolds
  <2> QED BY <2>2, <2>3
<1>11. CASE PutStaging(r)
  <2>1. /\ request[r].pc = "put-staging" /\ import' = "staging"
        /\ Goto(r, "check-cancelled")
        /\ UNCHANGED <<source, object, staging, envelope, lifecycle, revision, host>>
    BY <1>11 DEF PutStaging
  <2>2. /\ request'[r].pc = "check-cancelled" /\ request'[r].rep = request[r].rep
        /\ request'[r].kind = request[r].kind
    BY <1>1, <2>1, Goes, AllPlaces
  <2>3. /\ SecuredOK(r)' /\ RecordOK' /\ EnvelopesOK'
        /\ ~overlapped => InTurn(r)' /\ import \in {"none", "staging"}
    BY <1>1, <1>2, <2>1, <2>2 DEF KindOK, RecordOK, EnvelopesOK, Has
  <2> QED BY <1>1, <1>3, <2>1, <2>2, <2>3, WholeHolds
<1>12. CASE CheckCancelled(r)
  <2>1. UNCHANGED <<store, host>> /\ request[r].pc = "check-cancelled"
    BY <1>12 DEF CheckCancelled
  <2>2. /\ request'[r].pc \in {"secure", "refused"}
        /\ request'[r].kind = request[r].kind
    <3>1. CASE Goto(r, "refused")
      BY <1>1, <3>1, Goes, AllPlaces
    <3>2. CASE request' = [request EXCEPT ![r].pc = "secure", ![r].rep = "canonical"]
      BY <1>1, <3>2 DEF TypeOK, RequestState
    <3> QED BY <1>12, <3>1, <3>2 DEF CheckCancelled
  <2>3. SecuredOK(r)' /\ (~overlapped => InTurn(r)')
    BY <1>1, <1>2, <2>1, <2>2 DEF store, catalogue, KindOK
  <2> QED BY <1>1, <2>1, <2>2, <2>3, WholeReads
<1>13. CASE ReadRevision(r)
  <2>1. UNCHANGED <<store, host>> /\ request[r].pc = "read-revision"
    BY <1>13 DEF ReadRevision
  <2>2. /\ request'[r].pc = "put-activated" /\ request'[r].seen = revision
        /\ request'[r].kind = request[r].kind
    BY <1>1, <1>13 DEF ReadRevision, TypeOK, RequestState
  <2>3. SecuredOK(r)' /\ (~overlapped => InTurn(r)')
    BY <1>1, <1>2, <2>1, <2>2 DEF store, catalogue, KindOK
  <2> QED BY <1>1, <2>1, <2>2, <2>3, WholeReads
<1>14. CASE PutActivated(r)
  <2>1. /\ request[r].pc = "put-activated" /\ import' = "activated"
        /\ Goto(r, "advance")
        /\ UNCHANGED <<source, object, staging, envelope, lifecycle, revision, host>>
    BY <1>14 DEF PutActivated
  <2>2. /\ request'[r].pc = "advance" /\ request'[r].seen = request[r].seen
        /\ request'[r].kind = request[r].kind
    BY <1>1, <2>1, Goes, AllPlaces
  <2>3. /\ SecuredOK(r)' /\ RecordOK' /\ EnvelopesOK'
        /\ ~overlapped => InTurn(r)' /\ import \in {"none", "staging"}
    BY <1>1, <1>2, <2>1, <2>2 DEF KindOK, RecordOK, EnvelopesOK, Has
  <2>4. ~overlapped /\ crashes = 0 => revision = 0 /\ request[r].seen = revision
    BY <1>3, <2>1, <2>3 DEF WholeInv, RevisionCounts
  <2> QED BY <1>1, <2>1, <2>2, <2>3, <2>4, WholeHolds
<1>15. CASE AdvanceRevision(r)
  <2>1. /\ request[r].pc = "advance"
        /\ UNCHANGED <<import, source, object, staging, envelope, lifecycle, host>>
    BY <1>15 DEF AdvanceRevision
  <2>2. /\ request'[r].pc \in {"answered", "refused"}
        /\ request'[r].kind = request[r].kind
    BY <1>1, <1>15, Goes, AllPlaces DEF AdvanceRevision
  <2>3. /\ SecuredOK(r)' /\ RecordOK' /\ EnvelopesOK'
        /\ ~overlapped => InTurn(r)'
    BY <1>1, <1>2, <2>1, <2>2 DEF KindOK, RecordOK, EnvelopesOK, Has
  <2>4. ~overlapped /\ crashes = 0 =>
          revision' = IF import' = "activated" THEN 1 ELSE 0
    <3> SUFFICES ASSUME ~overlapped, crashes = 0
                 PROVE  revision' = IF import' = "activated" THEN 1 ELSE 0
      OBVIOUS
    <3>1. import = "activated" /\ revision = 0 /\ request[r].seen = 0
      BY <1>2, <2>1 DEF WholeInv, RevisionCounts
    <3> QED BY <1>15, <2>1, <3>1 DEF AdvanceRevision
  <2> QED BY <1>1, <2>1, <2>2, <2>3, <2>4, WholeHolds
<1> QED BY <1>4, <1>5, <1>6, <1>7, <1>8, <1>9, <1>10, <1>11, <1>12, <1>13,
           <1>14, <1>15 DEF Import

(* So does a step of any other request. *)
LEMMA AdministerKeepsWhole ==
  ASSUME BaseInv, WholeInv, NEW r \in Request, Administer(r)
  PROVE  WholeInv'
<1> USE DEF SecuredOK, InTurn, Importing, Securing, HasEnvelope
<1>1. /\ TypeOK /\ Underway(r) /\ Moves(r) /\ UNCHANGED host
      /\ KindOK(r) /\ SecuredOK(r) /\ EnvelopesOK /\ RecordOK
      /\ request[r].rep \in Representation
  BY AdministerMoves DEF BaseInv, WholeInv, TypeOK, RequestState
<1>2. ~overlapped => InTurn(r)
  BY DEF WholeInv
<1>3. request[r].pc # "advance" /\ ~overlapped /\ crashes = 0 =>
        revision = IF import = "activated" THEN 1 ELSE 0
  BY <1>1 DEF WholeInv, RevisionCounts, BaseInv, Alone, Underway, Ended
<1>4. CASE CancelReads(r)
  <2>1. UNCHANGED <<store, host>> /\ Reads(r, "cancel")
    BY <1>4 DEF CancelReads
  <2>2. PICK pc \in {"put-cancelled", "answered", "refused"} :
          /\ Goto(r, pc)
          /\ pc = "put-cancelled" => import = "staging"
          /\ pc = "answered" => import = "cancelled"
    BY <1>4 DEF CancelReads
  <2>3. request'[r].pc = pc /\ request'[r].kind = "cancel"
    BY <1>1, <2>1, <2>2, Goes, AllPlaces DEF Reads
  <2>4. SecuredOK(r)' /\ (~overlapped => InTurn(r)')
    BY <2>1, <2>2, <2>3 DEF store, catalogue
  <2> QED BY <1>1, <2>1, <2>3, <2>4, WholeReads DEF Reads
<1>5. CASE PutCancelled(r)
  <2>1. /\ request[r].pc = "put-cancelled" /\ import' = "cancelled"
        /\ Goto(r, "answered")
        /\ UNCHANGED <<source, object, staging, envelope, lifecycle, revision, host>>
    BY <1>5 DEF PutCancelled
  <2>2. request'[r].pc = "answered"
    BY <1>1, <2>1, Goes, AllPlaces
  <2>3. /\ SecuredOK(r)' /\ RecordOK' /\ EnvelopesOK'
        /\ ~overlapped => InTurn(r)' /\ import = "staging"
    BY <1>1, <1>2, <2>1, <2>2 DEF RecordOK, EnvelopesOK, Has
  <2> QED BY <1>1, <1>3, <2>1, <2>2, <2>3, WholeHolds
<1>6. CASE DeleteReads(r) \/ VerifyDeleted(r) \/ ReadCase(r)
             \/ FetchObject(r)
  <2>1. /\ UNCHANGED <<store, host>> /\ request[r].kind # "cancel"
        /\ request[r].pc \in {"reads", "verify", "fetch"}
        /\ request[r].kind # "import"
    BY <1>1, <1>6 DEF DeleteReads, VerifyDeleted, ReadCase, FetchObject,
                      Reads, KindOK, Deleting
  <2>2. /\ request'[r].kind = request[r].kind
        /\ request'[r].pc \in {"ask", "refused", "tombstone", "fetch",
                               "answered"}
    <3>1. CASE ReadCase(r)
      BY <1>1, <3>1 DEF ReadCase, TypeOK, RequestState
    <3>2. CASE \E pc \in {"ask", "refused", "tombstone", "answered"} : Goto(r, pc)
      BY <1>1, <3>2, Goes, AllPlaces
    <3> QED BY <1>6, <3>1, <3>2 DEF DeleteReads, VerifyDeleted, FetchObject
  <2> QED BY <1>1, <2>1, <2>2, WholeReads
<1>7. ASSUME UNCHANGED <<import, source, staging, envelope, revision, host>>,
             request'[r].kind = request[r].kind, request[r].kind # "cancel",
             request[r].pc # "advance",
             request'[r].pc \in {"erase", "refused", "verify", "answered"},
             \A p \in Representation : Has(p, "activated")' <=> Has(p, "activated")
      PROVE  WholeInv'
  <2>1. EnvelopesOK' /\ RecordOK'
    BY <1>1, <1>7 DEF EnvelopesOK, RecordOK
  <2> QED BY <1>1, <1>3, <1>7, <2>1, WholeHolds
<1>8. ASSUME NEW event \in Event \ {"activated"}, NEW expected,
             NEW next \in {"erase", "answered"},
             request[r].pc \in {"ask"} \cup Deleting,
             AppendLifecycle(r, event, expected, next)
      PROVE  WholeInv'
  <2>1. PICK pc \in {"erase", "answered", "refused"} :
          Goto(r, pc) /\ (Log(request[r].rep, event) \/ UNCHANGED lifecycle)
    BY <1>8 DEF AppendLifecycle
  <2>2. pc \in Places /\ Goto(r, pc) /\ TypeOK
    BY <1>1, <2>1, AllPlaces
  <2>4. request'[r].kind = request[r].kind /\ request'[r].pc = pc
    BY <2>2, Goes
  <2>3. \A p \in Representation : Has(p, "activated")' <=> Has(p, "activated")
    <3>1. CASE Log(request[r].rep, event)
      BY <1>1, <1>8, <3>1, LogHas DEF TypeOK, Event
    <3> QED BY <2>1, <3>1 DEF Has
  <2> QED BY <1>1, <1>7, <1>8, <2>3, <2>4 DEF AppendLifecycle, KindOK, Deleting
<1>9. CASE AskDeletion(r)
  BY <1>8, <1>9 DEF AskDeletion, Event
<1>10. CASE Tombstone(r)
  BY <1>8, <1>10 DEF Tombstone, Event, Deleting
<1>11. CASE DeleteObject(r)
  <2>1. request[r].pc = "erase" /\ Goto(r, "verify") /\ UNCHANGED <<catalogue, host>>
    BY <1>11 DEF DeleteObject
  <2>2. request'[r].kind = request[r].kind /\ request'[r].pc = "verify"
    BY <1>1, <2>1, Goes, AllPlaces
  <2> QED BY <1>1, <1>7, <2>1, <2>2 DEF catalogue, Has, KindOK, Deleting
<1>12. CASE PutEnvelope(r)
  <2>0. PICK p \in Representation : p = request[r].rep
    BY <1>1
  <2>1. /\ request[r].pc = "put-envelope"
        /\ envelope' = [envelope EXCEPT ![p] = "rewrapped"]
        /\ Log(p, "key-rewrapped") /\ Goto(r, "answered")
        /\ UNCHANGED <<import, source, object, staging, revision, host>>
    BY <1>12, <2>0 DEF PutEnvelope
  <2>2. request'[r].kind = "rewrap" /\ request'[r].pc = "answered"
    BY <1>1, <2>1, Goes, AllPlaces DEF KindOK
  <2>3. \A q \in Representation : Has(q, "activated")' <=> Has(q, "activated")
    BY <1>1, <2>1, LogHas DEF TypeOK, Event
  <2>4. HasEnvelope(p)
    BY <1>1, <2>0, <2>1
  <2>5. \A q \in Representation : HasEnvelope(q)' <=> HasEnvelope(q)
    BY <1>1, <2>1, <2>4 DEF TypeOK
  <2>6. EnvelopesOK' /\ RecordOK'
    BY <1>1, <2>1, <2>3, <2>5 DEF EnvelopesOK, RecordOK
  <2> QED BY <1>1, <1>3, <2>1, <2>2, <2>5, <2>6, WholeHolds
<1>13. CASE RewrapReads(r)
  <2>1. UNCHANGED <<store, host>> /\ Reads(r, "rewrap")
    BY <1>13 DEF RewrapReads
  <2>2. PICK pc \in {"put-envelope", "refused"} :
          Goto(r, pc) /\ (pc = "put-envelope" => HasEnvelope(request[r].rep))
    BY <1>13 DEF RewrapReads
  <2>3. /\ request'[r].pc = pc /\ request'[r].kind = "rewrap"
        /\ request'[r].rep = request[r].rep
    BY <1>1, <2>1, <2>2, Goes, AllPlaces DEF Reads
  <2>4. SecuredOK(r)' /\ (~overlapped => InTurn(r)')
    BY <2>1, <2>2, <2>3 DEF store, catalogue
  <2> QED BY <1>1, <2>1, <2>3, <2>4, WholeReads DEF Reads
<1> QED BY <1>4, <1>5, <1>6, <1>9, <1>10, <1>11, <1>12, <1>13 DEF Administer

(* It holds at the start. *)
LEMMA WholeInitial ==
  ASSUME Init
  PROVE  WholeInv
<1>1. \A r \in Request : request[r] = NoRequest
  BY DEF Init
<1>2. NoRequest.pc = "idle"
  BY DEF NoRequest
<1>3. \A r \in Request : SecuredOK(r) /\ InTurn(r)
  BY <1>1, <1>2 DEF SecuredOK, InTurn, Importing, Securing
<1>4. \A p \in Representation : lifecycle[p] = << >>
  BY DEF Init
<1>5. \A p \in Representation : ~Has(p, "activated")
  BY <1>4 DEF Has
<1>6. EnvelopesOK /\ RecordOK
  BY <1>5 DEF Init, EnvelopesOK, RecordOK, HasEnvelope
<1>7. RevisionCounts
  BY <1>1, <1>2 DEF Init, RevisionCounts
<1> QED BY <1>3, <1>6, <1>7 DEF WholeInv

(* Every step keeps it. *)
LEMMA WholeStep ==
  ASSUME BaseInv, WholeInv, [Next]_vars
  PROVE  WholeInv'
<1>1. ASSUME NEW r \in Request, Begin(r)
      PROVE  WholeInv'
  <2>1. /\ ~Underway(r) /\ request[r].pc = "idle" /\ Moves(r)
        /\ request'[r].pc = "reads"
        /\ overlapped' = (overlapped \/ \E q \in Request : Underway(q))
        /\ UNCHANGED <<store, startup, crashes>>
    BY <1>1, BeginMoves
  <2>2. request'[r].kind = "import" => request'[r].rep = "original"
    <3>1. PICK kind \in {"import", "cancel", "delete", "rewrap", "read"},
               p \in Representation :
            /\ kind \in {"import", "cancel"} => p = "original"
            /\ request' = [request EXCEPT
                             ![r] = [NoRequest EXCEPT
                                       !.pc = "reads", !.kind = kind, !.rep = p,
                                       !.seen = IF kind = "delete"
                                                THEN Len(lifecycle[p]) ELSE 0]]
      BY <1>1 DEF Begin
    <3>2. request'[r].kind = kind /\ request'[r].rep = p
      BY <3>1 DEF BaseInv, TypeOK, NoRequest
    <3> QED BY <3>1, <3>2
  <2>3. UNCHANGED <<import, source, staging, envelope, lifecycle, revision>>
    BY <2>1 DEF store, catalogue
  <2>4. \A q \in Request : SecuredOK(q)'
    BY <2>1, <2>2, <2>3 DEF WholeInv, SecuredOK, Moves, Importing, Securing,
                            HasEnvelope
  <2>5. EnvelopesOK' /\ RecordOK'
    BY <2>3 DEF WholeInv, EnvelopesOK, RecordOK, HasEnvelope, Has
  <2>6. ~overlapped' => ~overlapped
    BY <2>1 DEF BaseInv, BoundsOK
  <2>7. ~overlapped' => \A q \in Request : InTurn(q)'
    BY <2>1, <2>3, <2>6 DEF WholeInv, InTurn, Moves, Importing, Securing
  <2>8. ~overlapped' /\ crashes' = 0 => RevisionCounts'
    BY <2>1, <2>3, <2>6 DEF WholeInv, RevisionCounts, Moves
  <2> QED BY <2>4, <2>5, <2>7, <2>8 DEF WholeInv
<1>2. ASSUME NEW r \in Request, Import(r) \/ Administer(r)
      PROVE  WholeInv'
  BY <1>2, ImportKeepsWhole, AdministerKeepsWhole
<1>3. CASE Restart
  <2>1. /\ \A r \in Request :
             \/ request'[r] = request[r]
             \/ request'[r].pc = "dead"
        /\ crashes' = crashes + 1 /\ UNCHANGED <<store, overlapped>>
    BY <1>3, RestartMoves DEF BaseInv
  <2>2. UNCHANGED <<import, source, staging, envelope, lifecycle, revision>>
    BY <2>1 DEF store, catalogue
  <2>3. \A r \in Request : SecuredOK(r)'
    BY <2>1, <2>2 DEF WholeInv, SecuredOK, Importing, Securing, HasEnvelope
  <2>4. EnvelopesOK' /\ RecordOK'
    BY <2>2 DEF WholeInv, EnvelopesOK, RecordOK, HasEnvelope, Has
  <2>5. ~overlapped' => \A r \in Request : InTurn(r)'
    BY <2>1, <2>2 DEF WholeInv, InTurn, Importing, Securing
  <2>6. crashes' # 0
    BY <2>1 DEF BaseInv, BoundsOK
  <2> QED BY <2>3, <2>4, <2>5, <2>6 DEF WholeInv
<1>4. CASE Reconcile
  <2>1. /\ UNCHANGED <<import, source, envelope, revision, request, crashes,
                        overlapped>>
        /\ \A p \in Representation :
             /\ staging'[p] = "activated" => staging[p] = "activated"
             /\ Has(p, "activated")' <=> Has(p, "activated")
    <3>1. CASE ReconcileReads \/ Scan \/ \E p \in Representation : ReconcileErases(p)
      BY <1>4, <3>1 DEF ReconcileReads, Scan, ReconcileErases, store, catalogue, Has
    <3>2. ASSUME NEW p \in Representation, Quarantine(p)
          PROVE  \A q \in Representation :
                   /\ staging'[q] = "activated" => staging[q] = "activated"
                   /\ Has(q, "activated")' <=> Has(q, "activated")
      BY <3>2, LogHas DEF Quarantine, BaseInv, TypeOK, Event
    <3>3. CASE \E p \in Representation : Quarantine(p)
      BY <3>2, <3>3 DEF Quarantine
    <3> QED BY <1>4, <3>1, <3>3 DEF Reconcile
  <2> QED BY <2>1 DEF WholeInv, SecuredOK, EnvelopesOK, RecordOK, InTurn,
                      RevisionCounts, HasEnvelope
<1>5. CASE UNCHANGED vars
  BY <1>5 DEF vars, store, catalogue, host, WholeInv, SecuredOK, EnvelopesOK,
              RecordOK, InTurn, RevisionCounts, HasEnvelope, Has
<1> QED BY <1>1, <1>2, <1>3, <1>4, <1>5 DEF Next

(* An import that is reported activated has both its representations and   *)
(* the case a source that names them; until two requests overlap, one that *)
(* is reported cancelled stays so, and unless one dies the import has moved *)
(* the evidence revision once, and only if it is activated: for any number *)
(* of requests, and of processes that replace one another (importText(),   *)
(* cancelTextImport() and activateArtifactSource()).                       *)
THEOREM ActivatedImportsAreWhole == Spec => []ImportIsWhole
<1>1. Init => BaseInv /\ WholeInv
  BY BaseInitial, WholeInitial
<1>2. BaseInv /\ WholeInv /\ [Next]_vars => BaseInv' /\ WholeInv'
  BY BaseStep, WholeStep
<1>3. BaseInv /\ WholeInv => ImportIsWhole
  <2> SUFFICES ASSUME BaseInv, WholeInv
               PROVE  ImportIsWhole
    OBVIOUS
  <2>1. TypeOK
    BY DEF BaseInv
  <2>2. "original" \in Representation
    BY DEF Representation
  <2>3. import = "activated" =>
          source /\ \A p \in Representation : Has(p, "activated")
    BY <2>2 DEF WholeInv, EnvelopesOK, RecordOK
  <2>4. ~overlapped =>
          \A r \in Request :
            request[r].kind = "cancel" /\ request[r].pc = "answered" =>
              import = "cancelled"
    BY DEF WholeInv, InTurn
  <2>5. ~overlapped /\ crashes = 0 /\ (\A r \in Request : ~Underway(r)) =>
          revision = IF import = "activated" THEN 1 ELSE 0
    BY DEF WholeInv, RevisionCounts, Underway, Ended
  <2> QED BY <2>1, <2>3, <2>4, <2>5 DEF ImportIsWhole
<1> QED BY <1>1, <1>2, <1>3, PTL DEF Spec
-----------------------------------------------------------------------------
(* What is active can be read, and the lifecycle is one story.             *)

(* Nothing that is in a log leaves it. *)
Grows ==
  \A p \in Representation :
    \A i \in DOMAIN lifecycle[p] :
      i \in DOMAIN lifecycle'[p] /\ lifecycle'[p][i] = lifecycle[p][i]

(* An event that may follow what is there goes on with the story. *)
LEMMA StoryGoesOn ==
  ASSUME TypeOK, NEW p \in Representation, NEW event \in Event, Log(p, event),
         \A q \in Representation : StoryOK(q),
         event \in {"activated", "quarantined"} =>
           \A i \in DOMAIN lifecycle[p] : lifecycle[p][i] = "quarantined",
         event = "deleted" =>
           /\ Len(lifecycle[p]) > 0
           /\ lifecycle[p][Len(lifecycle[p])] = "deletion-requested"
  PROVE  /\ Grows
         /\ \A q \in Representation : StoryOK(q)'
<1>1. /\ lifecycle' \in [Representation -> Seq(Event)]
      /\ Len(lifecycle[p]) \in Nat
      /\ DOMAIN lifecycle[p] = 1 .. Len(lifecycle[p])
      /\ DOMAIN lifecycle'[p] = 1 .. Len(lifecycle[p]) + 1
      /\ lifecycle'[p][Len(lifecycle[p]) + 1] = event
      /\ \A i \in 1 .. Len(lifecycle[p]) : lifecycle'[p][i] = lifecycle[p][i]
      /\ \A q \in Representation \ {p} : lifecycle'[q] = lifecycle[q]
  BY LogAdds DEF TypeOK
<1>2. Grows
  BY <1>1 DEF Grows
<1>3. ASSUME NEW q \in Representation, q # p
      PROVE  StoryOK(q)'
  BY <1>1, <1>3 DEF StoryOK
<1>4. StoryOK(p)'
  <2>1. StoryOK(p)
    OBVIOUS
  <2>2. ASSUME NEW i \in 1 .. Len(lifecycle[p])
        PROVE  /\ lifecycle'[p][i] \in {"activated", "quarantined"} =>
                    \A j \in 1 .. i - 1 : lifecycle'[p][j] = "quarantined"
               /\ lifecycle'[p][i] = "deleted" =>
                    i > 1 /\ lifecycle'[p][i - 1] = "deletion-requested"
    <3>1. \A j \in 1 .. i - 1 : j \in 1 .. Len(lifecycle[p])
      BY <1>1
    <3>2. i > 1 => i - 1 \in 1 .. Len(lifecycle[p])
      BY <1>1
    <3> QED BY <1>1, <2>1, <3>1, <3>2 DEF StoryOK
  <2>3. /\ event \in {"activated", "quarantined"} =>
             \A j \in 1 .. Len(lifecycle[p]) : lifecycle'[p][j] = "quarantined"
        /\ event = "deleted" =>
             /\ Len(lifecycle[p]) + 1 > 1
             /\ lifecycle'[p][Len(lifecycle[p])] = "deletion-requested"
    BY <1>1
  <2>4. \A i \in DOMAIN lifecycle'[p] :
          i \in 1 .. Len(lifecycle[p]) \/ i = Len(lifecycle[p]) + 1
    BY <1>1
  <2> QED BY <1>1, <2>2, <2>3, <2>4 DEF StoryOK
<1> QED BY <1>2, <1>3, <1>4

(* What has been asked to be deleted remains so. *)
LEMMA AskedStays ==
  ASSUME Grows, NEW p \in Representation, Asked(p)
  PROVE  Asked(p)'
BY DEF Grows, Asked, Has

(* An event that is added to the log of a representation with an envelope, *)
(* or with which it gets one, keeps that log's part of the invariant.      *)
LEMMA LogStays ==
  ASSUME TypeOK, NEW p \in Representation,
         NEW event \in Event \ {"quarantined"}, Log(p, event),
         \A q \in Representation : LogOK(q),
         HasEnvelope(p)' /\ staging'[p] = "activated",
         \A q \in Representation \ {p} :
           envelope'[q] = envelope[q] /\ staging'[q] = staging[q]
  PROVE  \A q \in Representation : LogOK(q)'
<1>1. /\ lifecycle'[p] \in Seq(Event)
      /\ Len(lifecycle[p]) \in Nat
      /\ Len(lifecycle'[p]) = Len(lifecycle[p]) + 1
      /\ lifecycle'[p][Len(lifecycle[p]) + 1] = event
      /\ \A q \in Representation \ {p} : lifecycle'[q] = lifecycle[q]
  BY LogAdds DEF TypeOK
<1>2. lifecycle'[p] # << >> /\ lifecycle'[p][Len(lifecycle'[p])] # "quarantined"
  BY <1>1
<1>3. LogOK(p)'
  BY <1>2 DEF LogOK
<1>4. \A q \in Representation \ {p} : LogOK(q)'
  BY <1>1 DEF LogOK, HasEnvelope
<1> QED BY <1>3, <1>4

(* Without an envelope nothing but quarantines has happened. *)
LEMMA NothingYet ==
  ASSUME NEW p \in Representation, LogOK(p), ~HasEnvelope(p)
  PROVE  /\ ~Asked(p) /\ ~Has(p, "deleted")
         /\ \A i \in DOMAIN lifecycle[p] : lifecycle[p][i] = "quarantined"
BY DEF LogOK, Asked, Has

(* It is enough to look at the request that moves and at what it changes:  *)
(* the process serves, and until two requests overlap no other is under    *)
(* way.                                                                    *)
LEMMA KeptHolds ==
  ASSUME BaseInv, KeptInv, NEW r \in Request, Underway(r), Moves(r),
         UNCHANGED host, Grows, HandleOK(r)',
         \A p \in Representation :
           /\ LogOK(p)' /\ ObjectOK(p)' /\ StoryOK(p)'
           /\ HasEnvelope(p) => HasEnvelope(p)'
           /\ p \in object => p \in object' \/ Asked(p)',
         ~overlapped => GoneOK(r)' /\ DeletedIsGone'
  PROVE  KeptInv'
<1>1. \A q \in Request \ {r} : request'[q] = request[q]
  BY DEF Moves
<1>2. \A q \in Request : HandleOK(q)'
  <2> SUFFICES ASSUME NEW q \in Request, q # r
               PROVE  HandleOK(q)'
    OBVIOUS
  <2>1. HandleOK(q) /\ request'[q] = request[q] /\ request[q].rep \in Representation
    BY <1>1 DEF KeptInv, BaseInv, TypeOK, RequestState
  <2>2. PICK p \in Representation : p = request[q].rep
    BY <2>1
  <2>3. Asked(p) => Asked(p)'
    BY AskedStays
  <2> QED BY <2>1, <2>2, <2>3 DEF HandleOK, Grows
<1>3. startup.pc = "up" /\ startup' = startup
  BY DEF KeptInv, StartupOK, host
<1>4. StartupOK'
  BY <1>3 DEF StartupOK
<1>5. ~overlapped => \A q \in Request : GoneOK(q)'
  BY <1>1 DEF BaseInv, Alone, Underway, Ended, GoneOK, Securing
<1> QED BY <1>2, <1>4, <1>5 DEF KeptInv, host

(* A step that leaves the artifacts alone. *)
LEMMA KeptAside ==
  ASSUME BaseInv, KeptInv, NEW r \in Request, Underway(r), Moves(r),
         UNCHANGED <<staging, envelope, lifecycle, object, host>>,
         HandleOK(r)', ~overlapped => GoneOK(r)'
  PROVE  KeptInv'
<1>1. Grows
  BY DEF Grows
<1>2. \A p \in Representation :
        /\ LogOK(p)' /\ ObjectOK(p)' /\ StoryOK(p)'
        /\ HasEnvelope(p) => HasEnvelope(p)'
        /\ p \in object => p \in object' \/ Asked(p)'
  BY DEF KeptInv, LogOK, ObjectOK, StoryOK, HasEnvelope, Asked, Has
<1>3. ~overlapped => DeletedIsGone'
  BY DEF KeptInv, DeletedIsGone, Has
<1> QED BY <1>1, <1>2, <1>3, KeptHolds

(* A step of an import keeps the invariant. *)
LEMMA ImportKeeps ==
  ASSUME BaseInv, KeptInv, NEW r \in Request, Import(r)
  PROVE  KeptInv'
<1>1. /\ TypeOK /\ Underway(r) /\ Moves(r) /\ UNCHANGED host
      /\ KindOK(r) /\ HandleOK(r) /\ request[r].rep \in Representation
  BY ImportMoves DEF BaseInv, KeptInv, TypeOK, RequestState
<1>2. PICK p \in Representation : p = request[r].rep
  BY <1>1
<1>3. LogOK(p) /\ ObjectOK(p) /\ (~overlapped => GoneOK(r))
  BY DEF KeptInv
<1>4. ~request[r].asked
  BY <1>1 DEF HandleOK, Underway, Ended
<1>5. ASSUME UNCHANGED <<staging, envelope, lifecycle, object>>,
             ~request'[r].asked,
             request'[r].pc \in Places \ ({"ask", "put-envelope", "stage", "stat",
                                         "create", "raced", "activate"} \cup Deleting)
      PROVE  KeptInv'
  BY <1>1, <1>5, KeptAside DEF HandleOK, GoneOK, Securing, Deleting
<1>6. CASE ImportReads(r)
  <2>1. UNCHANGED <<staging, envelope, lifecycle, object>>
    BY <1>6 DEF ImportReads, store, catalogue
  <2>2. request'[r].pc \in {"answered", "refused", "secure"} /\ ~request'[r].asked
    <3>1. CASE \E pc \in {"answered", "refused"} : Goto(r, pc)
      BY <1>1, <1>4, <3>1, Goes, AllPlaces
    <3>2. CASE \E n \in {1, 2} :
                 request' = [request EXCEPT ![r].pc = "secure", ![r].ordinal = n]
      BY <1>1, <1>4, <3>2 DEF TypeOK, RequestState
    <3> QED BY <1>6, <3>1, <3>2 DEF ImportReads
  <2> QED BY <1>5, <2>1, <2>2, AllPlaces DEF Deleting
<1>7. CASE SecureReads(r)
  <2>1. UNCHANGED <<staging, envelope, lifecycle, object>>
    BY <1>7 DEF SecureReads, store, catalogue
  <2>2. PICK pc \in {"put-staging", "read-revision", "stat", "stage", "refused"} :
          Goto(r, pc) /\ (pc \in {"stat", "stage"} => ~HasEnvelope(p))
    BY <1>2, <1>7 DEF SecureReads, Secured, HasEnvelope
  <2>3. /\ request'[r].pc = pc /\ request'[r].rep = p
        /\ request'[r].asked = request[r].asked
    BY <1>1, <1>2, <2>2, Goes, AllPlaces
  <2>4. HandleOK(r)' /\ (~overlapped => GoneOK(r)')
    BY <1>4, <2>1, <2>2, <2>3
       DEF HandleOK, GoneOK, Securing, Deleting, HasEnvelope
  <2> QED BY <1>1, <2>1, <2>4, KeptAside
<1>8. CASE StageArtifact(r)
  <2>1. /\ request[r].pc = "stage"
        /\ UNCHANGED <<object, envelope, lifecycle>>
    BY <1>8 DEF StageArtifact
  <2>2. PICK pc \in {"stat", "refused"} : Goto(r, pc)
    BY <1>8 DEF StageArtifact
  <2>3. /\ request'[r].pc = pc /\ request'[r].rep = p
        /\ request'[r].asked = request[r].asked
    BY <1>1, <1>2, <2>2, Goes, AllPlaces
  <2>4. HandleOK(r)' /\ (~overlapped => GoneOK(r)' /\ DeletedIsGone')
    BY <1>2, <1>3, <1>4, <2>1, <2>3
       DEF HandleOK, GoneOK, Securing, Deleting, HasEnvelope, KeptInv,
           DeletedIsGone, Has
  <2>5. \A q \in Representation :
          staging'[q] = "activated" <=> staging[q] = "activated"
    BY <1>1, <1>8 DEF StageArtifact, TypeOK
  <2>6. \A q \in Representation :
          /\ LogOK(q)' /\ ObjectOK(q)' /\ StoryOK(q)'
          /\ HasEnvelope(q) => HasEnvelope(q)'
          /\ q \in object => q \in object' \/ Asked(q)'
    BY <2>1, <2>5 DEF KeptInv, LogOK, ObjectOK, StoryOK, HasEnvelope, Asked, Has
  <2>7. Grows
    BY <2>1 DEF Grows
  <2> QED BY <1>1, <2>4, <2>6, <2>7, KeptHolds
<1>9. CASE StatObject(r)
  <2>1. /\ UNCHANGED <<staging, envelope, lifecycle, object>>
        /\ request[r].pc = "stat"
    BY <1>9 DEF StatObject, store, catalogue
  <2>2. PICK pc \in {"activate", "create"} :
          Goto(r, pc) /\ (pc = "activate" => p \in object)
    BY <1>2, <1>9 DEF StatObject
  <2>3. /\ request'[r].pc = pc /\ request'[r].rep = p
        /\ request'[r].asked = request[r].asked
    BY <1>1, <1>2, <2>2, Goes, AllPlaces
  <2>4. HandleOK(r)' /\ (~overlapped => GoneOK(r)')
    BY <1>2, <1>3, <1>4, <2>1, <2>2, <2>3
       DEF HandleOK, GoneOK, Securing, Deleting, HasEnvelope
  <2> QED BY <1>1, <2>1, <2>4, KeptAside
<1>10. CASE CreateObject(r)
  <2>1. /\ UNCHANGED <<staging, envelope, lifecycle>> /\ request[r].pc = "create"
        /\ object' = object \cup {p}
    BY <1>2, <1>10 DEF CreateObject, catalogue
  <2>2. PICK pc \in {"activate", "raced"} : Goto(r, pc)
    BY <1>10 DEF CreateObject
  <2>3. /\ request'[r].pc = pc /\ request'[r].rep = p
        /\ request'[r].asked = request[r].asked
    BY <1>1, <1>2, <2>2, Goes, AllPlaces
  <2>4. HandleOK(r)' /\ (~overlapped => GoneOK(r)')
    BY <1>2, <1>3, <1>4, <2>1, <2>3
       DEF HandleOK, GoneOK, Securing, Deleting, HasEnvelope
  <2>5. ~overlapped => ~Has(p, "deleted")
    BY <1>2, <1>3, <2>1, NothingYet DEF GoneOK, Securing
  <2>6. ~overlapped => DeletedIsGone'
    BY <2>1, <2>5 DEF KeptInv, DeletedIsGone, Has
  <2>7. \A q \in Representation :
          /\ LogOK(q)' /\ ObjectOK(q)' /\ StoryOK(q)'
          /\ HasEnvelope(q) => HasEnvelope(q)'
          /\ q \in object => q \in object' \/ Asked(q)'
    BY <2>1 DEF KeptInv, LogOK, ObjectOK, StoryOK, HasEnvelope, Asked, Has
  <2>8. Grows
    BY <2>1 DEF Grows
  <2> QED BY <1>1, <2>4, <2>6, <2>7, <2>8, KeptHolds
<1>11. CASE StatRaced(r)
  <2>1. /\ UNCHANGED <<staging, envelope, lifecycle, object>>
        /\ request[r].pc = "raced"
    BY <1>11 DEF StatRaced, store, catalogue
  <2>2. PICK pc \in {"activate", "refused"} :
          Goto(r, pc) /\ (pc = "activate" => p \in object)
    BY <1>2, <1>11 DEF StatRaced
  <2>3. /\ request'[r].pc = pc /\ request'[r].rep = p
        /\ request'[r].asked = request[r].asked
    BY <1>1, <1>2, <2>2, Goes, AllPlaces
  <2>4. HandleOK(r)' /\ (~overlapped => GoneOK(r)')
    BY <1>2, <1>3, <1>4, <2>1, <2>2, <2>3
       DEF HandleOK, GoneOK, Securing, Deleting, HasEnvelope
  <2> QED BY <1>1, <2>1, <2>4, KeptAside
<1>12. CASE ActivateSource(r)
  <2>1. request[r].pc = "activate" /\ UNCHANGED object
    BY <1>12 DEF ActivateSource
  <2>2. PICK pc \in {"put-staging", "read-revision", "refused"} : Goto(r, pc)
    BY <1>12 DEF ActivateSource, Secured
  <2>3. request'[r].pc = pc /\ request'[r].asked = request[r].asked
    BY <1>1, <2>2, Goes, AllPlaces
  <2>4. HandleOK(r)' /\ GoneOK(r)'
    BY <1>4, <2>3 DEF HandleOK, GoneOK, Securing, Deleting
  <2>5. CASE UNCHANGED <<staging, envelope, lifecycle>>
    BY <1>1, <2>1, <2>4, <2>5, KeptAside
  <2>6. CASE ~UNCHANGED <<staging, envelope, lifecycle>>
    <3>1. /\ staging[p] # "activated"
          /\ staging' = [staging EXCEPT ![p] = "activated"]
          /\ envelope' = [envelope EXCEPT ![p] = "pending"]
          /\ Log(p, "activated")
      BY <1>2, <1>12, <2>6 DEF ActivateSource
    <3>2. /\ staging'[p] = "activated" /\ HasEnvelope(p)'
          /\ \A q \in Representation \ {p} :
               envelope'[q] = envelope[q] /\ staging'[q] = staging[q]
      BY <1>1, <3>1 DEF TypeOK, HasEnvelope
    <3>3. ~HasEnvelope(p) /\ "activated" \in Event \ {"quarantined"}
      BY <1>3, <3>1 DEF LogOK, Event
    <3>4. \A i \in DOMAIN lifecycle[p] : lifecycle[p][i] = "quarantined"
      BY <1>3, <3>3, NothingYet
    <3>5. Grows /\ \A q \in Representation : StoryOK(q)'
      BY <1>1, <3>1, <3>3, <3>4, StoryGoesOn DEF KeptInv
    <3>6. \A q \in Representation : LogOK(q)'
      BY <1>1, <3>1, <3>2, <3>3, LogStays DEF KeptInv
    <3>7. \A q \in Representation, e \in Event \ {"activated"} :
            Has(q, e)' <=> Has(q, e)
      BY <1>1, <3>1, LogHas DEF TypeOK, Event
    <3>8. \A q \in Representation : Asked(q)' <=> Asked(q)
      BY <3>7 DEF Asked, Event
    <3>9. p \in object \/ Asked(p)
      BY <1>1, <1>2, <2>1 DEF HandleOK
    <3>10. \A q \in Representation :
             /\ ObjectOK(q)'
             /\ HasEnvelope(q) => HasEnvelope(q)'
             /\ q \in object => q \in object' \/ Asked(q)'
      BY <2>1, <3>2, <3>8, <3>9 DEF KeptInv, ObjectOK, HasEnvelope
    <3>11. ~overlapped => DeletedIsGone'
      BY <2>1, <3>7 DEF KeptInv, DeletedIsGone, Event
    <3> QED BY <1>1, <2>4, <3>5, <3>6, <3>10, <3>11, KeptHolds
  <2> QED BY <2>5, <2>6
<1>13. CASE CheckCancelled(r)
  <2>1. UNCHANGED <<staging, envelope, lifecycle, object>>
    BY <1>13 DEF CheckCancelled, store, catalogue
  <2>2. request'[r].pc \in {"refused", "secure"} /\ ~request'[r].asked
    <3>1. CASE Goto(r, "refused")
      BY <1>1, <1>4, <3>1, Goes, AllPlaces
    <3>2. CASE request' = [request EXCEPT ![r].pc = "secure", ![r].rep = "canonical"]
      BY <1>1, <1>4, <3>2 DEF TypeOK, RequestState
    <3> QED BY <1>13, <3>1, <3>2 DEF CheckCancelled
  <2> QED BY <1>5, <2>1, <2>2, AllPlaces DEF Deleting
<1>14. CASE ReadRevision(r)
  <2>1. UNCHANGED <<staging, envelope, lifecycle, object>>
    BY <1>14 DEF ReadRevision, store, catalogue
  <2>2. request'[r].pc = "put-activated" /\ ~request'[r].asked
    BY <1>1, <1>4, <1>14 DEF ReadRevision, TypeOK, RequestState
  <2> QED BY <1>5, <2>1, <2>2, AllPlaces DEF Deleting
<1>15. CASE PutStaging(r) \/ PutActivated(r) \/ AdvanceRevision(r)
  <2>1. UNCHANGED <<staging, envelope, lifecycle, object>>
    BY <1>15 DEF PutStaging, PutActivated, AdvanceRevision
  <2>2. PICK pc \in {"check-cancelled", "advance", "answered", "refused"} : Goto(r, pc)
    BY <1>15 DEF PutStaging, PutActivated, AdvanceRevision
  <2>3. request'[r].pc = pc /\ ~request'[r].asked
    BY <1>1, <1>4, <2>2, Goes, AllPlaces
  <2> QED BY <1>5, <2>1, <2>3, AllPlaces DEF Deleting
<1> QED BY <1>6, <1>7, <1>8, <1>9, <1>10, <1>11, <1>12, <1>13, <1>14, <1>15
        DEF Import

(* So does a step of any other request. *)
LEMMA AdministerKeeps ==
  ASSUME BaseInv, KeptInv, NEW r \in Request, Administer(r)
  PROVE  KeptInv'
<1>1. /\ TypeOK /\ Underway(r) /\ Moves(r) /\ UNCHANGED host
      /\ KindOK(r) /\ HandleOK(r) /\ request[r].rep \in Representation
  BY AdministerMoves DEF BaseInv, KeptInv, TypeOK, RequestState
<1>2. PICK p \in Representation : p = request[r].rep
  BY <1>1
<1>3. LogOK(p) /\ ObjectOK(p) /\ (~overlapped => GoneOK(r))
  BY DEF KeptInv
<1>4. ~request[r].asked
  BY <1>1 DEF HandleOK, Underway, Ended
<1>5. ASSUME UNCHANGED <<staging, envelope, lifecycle, object>>,
             NEW pc \in {"put-cancelled", "answered", "refused", "ask",
                         "put-envelope"},
             Goto(r, pc), pc \in {"ask", "put-envelope"} => HasEnvelope(p)
      PROVE  KeptInv'
  <2>1. request'[r].pc = pc /\ request'[r].rep = p /\ ~request'[r].asked
    BY <1>1, <1>2, <1>4, <1>5, Goes, AllPlaces
  <2> QED BY <1>1, <1>5, <2>1, KeptAside
             DEF HandleOK, GoneOK, Securing, Deleting, HasEnvelope
(* An event that a request adds to the log of a representation that has an *)
(* envelope and keeps it.                                                  *)
<1>6. ASSUME NEW event \in {"deletion-requested", "deleted", "key-rewrapped"},
             NEW pc \in {"erase", "answered"}, Goto(r, pc), Log(p, event),
             HasEnvelope(p), UNCHANGED <<staging, object>>,
             \A q \in Representation : HasEnvelope(q)' <=> HasEnvelope(q),
             pc = "erase" =>
               event = "deletion-requested" /\ Len(lifecycle[p]) = request[r].seen,
             \A q \in Representation \ {p} : envelope'[q] = envelope[q],
             event = "deleted" =>
               /\ Len(lifecycle[p]) > 0
               /\ lifecycle[p][Len(lifecycle[p])] = "deletion-requested"
               /\ ~overlapped => p \notin object
      PROVE  KeptInv'
  <2>1. /\ request'[r].pc = pc /\ request'[r].rep = p
        /\ request'[r].asked = request[r].asked
        /\ request'[r].seen = request[r].seen
    BY <1>1, <1>2, <1>6, Goes, AllPlaces
  <2>2. event \in Event \ {"quarantined"} /\ event \in Event
    BY DEF Event
  <2>3. Grows /\ \A q \in Representation : StoryOK(q)'
    BY <1>1, <1>6, <2>2, StoryGoesOn DEF KeptInv
  <2>4. staging[p] = "activated"
    BY <1>3, <1>6 DEF LogOK
  <2>5. \A q \in Representation : LogOK(q)'
    BY <1>1, <1>6, <2>2, <2>4, LogStays DEF KeptInv
  <2>6. \A q \in Representation : Asked(q) => Asked(q)'
    BY <2>3, AskedStays
  <2>7. \A q \in Representation :
          /\ ObjectOK(q)'
          /\ HasEnvelope(q) => HasEnvelope(q)'
          /\ q \in object => q \in object' \/ Asked(q)'
    BY <1>6, <2>6 DEF KeptInv, ObjectOK
  <2>8. /\ DOMAIN lifecycle'[p] = 1 .. Len(lifecycle[p]) + 1
        /\ Len(lifecycle[p]) \in Nat
        /\ lifecycle'[p][Len(lifecycle[p]) + 1] = event
    BY <1>1, <1>6, <2>2, LogAdds DEF TypeOK
  <2>9. HandleOK(r)' /\ GoneOK(r)'
    BY <1>4, <1>6, <2>1, <2>8 DEF HandleOK, GoneOK, Securing, Deleting
  <2>10. ~overlapped => DeletedIsGone'
    <3>1. \A q \in Representation :
            Has(q, "deleted")' => Has(q, "deleted") \/ (q = p /\ event = "deleted")
      BY <1>1, <1>6, <2>2, LogHas DEF TypeOK, Event
    <3> QED BY <1>6, <3>1 DEF KeptInv, DeletedIsGone
  <2> QED BY <1>1, <2>3, <2>5, <2>7, <2>9, <2>10, KeptHolds
<1>7. CASE CancelReads(r) \/ PutCancelled(r) \/ DeleteReads(r) \/ RewrapReads(r)
             \/ FetchObject(r)
  <2>1. UNCHANGED <<staging, envelope, lifecycle, object>>
    BY <1>7 DEF CancelReads, PutCancelled, DeleteReads, RewrapReads, FetchObject,
                store, catalogue
  <2>2. PICK pc \in {"put-cancelled", "answered", "refused", "ask", "put-envelope"} :
          Goto(r, pc) /\ (pc \in {"ask", "put-envelope"} => HasEnvelope(p))
    BY <1>2, <1>7 DEF CancelReads, PutCancelled, DeleteReads, RewrapReads,
                      FetchObject, HasEnvelope
  <2> QED BY <1>5, <2>1, <2>2
<1>8. CASE AskDeletion(r)
  <2>1. /\ request[r].pc = "ask" /\ UNCHANGED <<staging, object, envelope>>
        /\ \/ /\ Len(lifecycle[p]) = request[r].seen
              /\ Log(p, "deletion-requested") /\ Goto(r, "erase")
           \/ UNCHANGED lifecycle /\ Goto(r, "refused")
    BY <1>2, <1>8 DEF AskDeletion, AppendLifecycle
  <2>2. HasEnvelope(p)
    BY <1>1, <1>2, <2>1 DEF HandleOK
  <2> QED BY <1>5, <1>6, <2>1, <2>2 DEF HasEnvelope
<1>9. CASE DeleteObject(r)
  <2>1. /\ request[r].pc = "erase" /\ object' = object \ {p} /\ Goto(r, "verify")
        /\ UNCHANGED <<staging, envelope, lifecycle>>
    BY <1>2, <1>9 DEF DeleteObject, catalogue
  <2>2. /\ request'[r].pc = "verify" /\ request'[r].rep = p
        /\ request'[r].asked = request[r].asked
        /\ request'[r].seen = request[r].seen
    BY <1>1, <1>2, <2>1, Goes, AllPlaces
  <2>3. HasEnvelope(p) /\ Asked(p)
    BY <1>1, <1>2, <2>1 DEF HandleOK, Deleting, Asked, Has
  <2>4. HandleOK(r)' /\ GoneOK(r)'
    BY <1>1, <1>2, <1>4, <2>1, <2>2
       DEF HandleOK, GoneOK, Securing, Deleting, HasEnvelope
  <2>5. \A q \in Representation :
          /\ LogOK(q)' /\ ObjectOK(q)' /\ StoryOK(q)'
          /\ HasEnvelope(q) => HasEnvelope(q)'
          /\ q \in object => q \in object' \/ Asked(q)'
    BY <2>1, <2>3 DEF KeptInv, LogOK, ObjectOK, StoryOK, HasEnvelope, Asked, Has
  <2>6. Grows /\ (~overlapped => DeletedIsGone')
    BY <2>1 DEF Grows, KeptInv, DeletedIsGone, Has
  <2> QED BY <1>1, <2>4, <2>5, <2>6, KeptHolds
<1>10. CASE VerifyDeleted(r)
  <2>1. UNCHANGED <<staging, envelope, lifecycle, object>> /\ request[r].pc = "verify"
    BY <1>10 DEF VerifyDeleted, store, catalogue
  <2>2. PICK pc \in {"tombstone", "refused"} :
          Goto(r, pc) /\ (pc = "tombstone" => p \notin object)
    BY <1>2, <1>10 DEF VerifyDeleted
  <2>3. /\ request'[r].pc = pc /\ request'[r].rep = p
        /\ request'[r].asked = request[r].asked
        /\ request'[r].seen = request[r].seen
    BY <1>1, <1>2, <2>2, Goes, AllPlaces
  <2>4. HandleOK(r)' /\ GoneOK(r)'
    BY <1>1, <1>2, <1>4, <2>1, <2>2, <2>3
       DEF HandleOK, GoneOK, Securing, Deleting, HasEnvelope
  <2> QED BY <1>1, <2>1, <2>4, KeptAside
<1>11. CASE Tombstone(r)
  <2>1. /\ request[r].pc = "tombstone" /\ UNCHANGED <<staging, object, envelope>>
        /\ \/ /\ Len(lifecycle[p]) = request[r].seen + 1
              /\ Log(p, "deleted") /\ Goto(r, "answered")
           \/ UNCHANGED lifecycle /\ Goto(r, "refused")
    BY <1>2, <1>11 DEF Tombstone, AppendLifecycle
  <2>2. /\ HasEnvelope(p) /\ request[r].seen \in Nat
        /\ lifecycle[p][request[r].seen + 1] = "deletion-requested"
        /\ ~overlapped => p \notin object
    BY <1>1, <1>2, <1>3, <2>1 DEF HandleOK, GoneOK, Deleting, TypeOK, RequestState
  <2> QED BY <1>5, <1>6, <2>1, <2>2 DEF HasEnvelope
<1>12. CASE PutEnvelope(r)
  <2>1. /\ request[r].pc = "put-envelope" /\ UNCHANGED <<staging, object>>
        /\ envelope' = [envelope EXCEPT ![p] = "rewrapped"]
        /\ Log(p, "key-rewrapped") /\ Goto(r, "answered")
    BY <1>2, <1>12 DEF PutEnvelope
  <2>2. HasEnvelope(p)
    BY <1>1, <1>2, <2>1 DEF HandleOK
  <2>3. /\ \A q \in Representation : HasEnvelope(q)' <=> HasEnvelope(q)
        /\ \A q \in Representation \ {p} : envelope'[q] = envelope[q]
    BY <1>1, <2>1, <2>2 DEF HasEnvelope, TypeOK
  <2> QED BY <1>6, <2>1, <2>2, <2>3
<1>13. CASE ReadCase(r)
  <2>1. UNCHANGED <<staging, envelope, lifecycle, object>> /\ Reads(r, "read")
    BY <1>13 DEF ReadCase, store, catalogue
  <2>2. PICK pc \in {"fetch", "refused"}, asked \in BOOLEAN :
          /\ request' = [request EXCEPT ![r].pc = pc, ![r].asked = asked]
          /\ pc = "fetch" => ~asked
    <3>1. Asked(p) \in BOOLEAN /\ (Readable(p) => ~Asked(p))
      BY DEF Asked, Has, Readable
    <3> QED BY <1>2, <1>13, <3>1 DEF ReadCase
  <2>3. /\ request'[r].pc = pc /\ request'[r].kind = "read"
        /\ request'[r].asked = asked
    BY <1>1, <2>1, <2>2 DEF Reads, TypeOK, RequestState
  <2>4. HandleOK(r)' /\ GoneOK(r)'
    BY <2>2, <2>3 DEF HandleOK, GoneOK, Securing, Deleting
  <2> QED BY <1>1, <2>1, <2>4, KeptAside
<1> QED BY <1>7, <1>8, <1>9, <1>10, <1>11, <1>12, <1>13 DEF Administer

(* So does the process, as long as it is the only one: the reconciliation  *)
(* works while no request is under way.                                    *)
LEMMA HostKeeps ==
  ASSUME BaseInv, KeptInv, ~Rolling, Restart \/ Reconcile
  PROVE  KeptInv'
<1>1. CASE Restart
  <2>1. /\ \A r \in Request :
             \/ request'[r] = request[r]
             \/ /\ Underway(r) /\ request'[r].pc = "dead"
                /\ request'[r].asked = request[r].asked
        /\ \A r \in Request : ~Underway(r)'
        /\ startup'.pc = "reads"
        /\ UNCHANGED <<store, overlapped>>
    BY <1>1, RestartMoves DEF BaseInv, Serving, TypeOK, RequestState
  <2>2. UNCHANGED <<staging, envelope, lifecycle, object>>
    BY <2>1 DEF store, catalogue
  <2>3. \A r \in Request : ~request'[r].asked \/ request'[r] = request[r]
    BY <2>1 DEF KeptInv, HandleOK, Underway, Ended
  <2>4. \A r \in Request : request'[r].pc \in Ended \cup {"idle"}
    BY <2>1 DEF Underway
  <2>5. \A r \in Request : HandleOK(r)' /\ GoneOK(r)'
    BY <2>3, <2>4 DEF KeptInv, HandleOK, GoneOK, Securing, Deleting, Ended
  <2>6. StartupOK'
    BY <2>1 DEF StartupOK
  <2> QED BY <2>1, <2>2, <2>5, <2>6
          DEF KeptInv, LogOK, ObjectOK, StoryOK, HasEnvelope, Asked, Has,
              DeletedIsGone
<1>2. ASSUME Reconcile
      PROVE  /\ UNCHANGED <<request, overlapped, envelope>>
             /\ startup.pc # "up"
             /\ \A r \in Request : ~Underway(r)
  BY <1>2 DEF Reconcile, ReconcileReads, ReconcileErases, Quarantine, Scan, store,
              catalogue, KeptInv, StartupOK
<1>3. ASSUME Reconcile
      PROVE  \A r \in Request : HandleOK(r)' /\ GoneOK(r)'
  BY <1>2, <1>3 DEF KeptInv, HandleOK, GoneOK, Underway, Ended, Securing, Deleting
<1>4. ASSUME Reconcile, UNCHANGED <<staging, lifecycle, object>>, StartupOK'
      PROVE  KeptInv'
  BY <1>2, <1>3, <1>4 DEF KeptInv, LogOK, ObjectOK, StoryOK, HasEnvelope, Asked,
                          Has, DeletedIsGone
<1>5. CASE ReconcileReads
  <2>1. PICK expired \in SUBSET {p \in Representation : Unreferenced(p)} :
          startup' = [pc |-> "erase", todo |-> expired,
                      active |-> {p \in Representation :
                                    envelope[p] # "none" /\ Readable(p)}]
    BY <1>5 DEF ReconcileReads
  <2>2. Reconcile /\ UNCHANGED <<staging, envelope, lifecycle, object, request>>
    BY <1>5 DEF Reconcile, ReconcileReads, store, catalogue
  <2>3. StartupOK'
    BY <1>2, <2>1, <2>2 DEF StartupOK, Unreferenced, Readable, HasEnvelope, Asked,
                            Has, Underway
  <2> QED BY <1>4, <2>2, <2>3
<1>6. CASE Scan
  <2>1. Reconcile /\ UNCHANGED <<staging, envelope, lifecycle, object, request>>
    BY <1>6 DEF Reconcile, Scan, store, catalogue
  <2>2. startup.active \subseteq Representation
    BY DEF BaseInv, TypeOK
  <2>3. startup.active \subseteq object
    BY <1>6, <2>2 DEF Scan, KeptInv, StartupOK, ObjectOK
  <2>4. startup'.pc = "up"
    BY <1>6, <2>3 DEF Scan, BaseInv, TypeOK
  <2>5. StartupOK'
    BY <2>4 DEF StartupOK
  <2> QED BY <1>4, <2>1, <2>5
<1>7. ASSUME NEW p \in Representation, ReconcileErases(p)
      PROVE  KeptInv'
  <2>1. /\ Reconcile /\ UNCHANGED <<staging, envelope, lifecycle, request>>
        /\ object' = object \ {p} /\ startup.pc = "erase" /\ p \in startup.todo
    BY <1>7 DEF Reconcile, ReconcileErases, store, catalogue
  <2>2. ~HasEnvelope(p)
    BY <2>1 DEF KeptInv, StartupOK
  <2>3. /\ startup'.todo = startup.todo /\ startup'.active = startup.active
        /\ startup'.pc = "quarantine"
    BY <1>7 DEF ReconcileErases, BaseInv, TypeOK
  <2>4. StartupOK'
    BY <1>2, <2>1, <2>3 DEF KeptInv, StartupOK, HasEnvelope, Asked, Has, Underway
  <2> QED BY <1>2, <1>3, <2>1, <2>2, <2>4
          DEF KeptInv, LogOK, ObjectOK, StoryOK, HasEnvelope, Asked, Has,
              DeletedIsGone
<1>8. ASSUME NEW p \in Representation, Quarantine(p)
      PROVE  KeptInv'
  <2>1. /\ Reconcile /\ UNCHANGED <<envelope, object, request>>
        /\ staging' = [staging EXCEPT ![p] = "quarantined"]
        /\ Log(p, "quarantined")
        /\ startup.pc = "quarantine" /\ p \in startup.todo
    BY <1>8 DEF Reconcile, Quarantine
  <2>2. ~HasEnvelope(p) /\ LogOK(p) /\ TypeOK /\ "quarantined" \in Event
    BY <2>1 DEF KeptInv, BaseInv, StartupOK, Event
  <2>3. \A i \in DOMAIN lifecycle[p] : lifecycle[p][i] = "quarantined"
    BY <2>2, NothingYet
  <2>4. Grows /\ \A q \in Representation : StoryOK(q)'
    BY <2>1, <2>2, <2>3, StoryGoesOn DEF KeptInv
  <2>5. \A q \in Representation, e \in Event \ {"quarantined"} :
          Has(q, e)' <=> Has(q, e)
    BY <2>1, <2>2, LogHas DEF TypeOK
  <2>6. \A q \in Representation : /\ Asked(q)' <=> Asked(q)
                                  /\ Has(q, "deleted")' <=> Has(q, "deleted")
    BY <2>5 DEF Asked, Event
  <2>7. \A q \in Representation : HasEnvelope(q)' <=> HasEnvelope(q)
    BY <2>1 DEF HasEnvelope
  <2>8. LogOK(p)'
    <3>1. /\ DOMAIN lifecycle[p] = 1 .. Len(lifecycle[p])
          /\ Len(lifecycle[p]) \in Nat
          /\ DOMAIN lifecycle'[p] = 1 .. Len(lifecycle[p]) + 1
          /\ lifecycle'[p][Len(lifecycle[p]) + 1] = "quarantined"
          /\ \A i \in 1 .. Len(lifecycle[p]) : lifecycle'[p][i] = lifecycle[p][i]
      BY <2>1, <2>2, LogAdds DEF TypeOK
    <3>2. \A i \in DOMAIN lifecycle'[p] : lifecycle'[p][i] = "quarantined"
      BY <2>3, <3>1
    <3>3. staging'[p] = "quarantined"
      BY <2>1, <2>2 DEF TypeOK
    <3> QED BY <2>2, <2>7, <3>2, <3>3 DEF LogOK
  <2>9. ASSUME NEW q \in Representation, q # p
        PROVE  LogOK(q)'
    <3>1. lifecycle'[q] = lifecycle[q]
      BY <2>1, <2>2, <2>9, LogAdds DEF TypeOK
    <3>2. staging'[q] = staging[q]
      BY <2>1, <2>2, <2>9 DEF TypeOK
    <3> QED BY <2>1, <3>1, <3>2 DEF KeptInv, LogOK, HasEnvelope
  <2>10. \A q \in Representation : LogOK(q)' /\ ObjectOK(q)'
    BY <2>1, <2>6, <2>7, <2>8, <2>9 DEF KeptInv, ObjectOK
  <2>11. /\ startup'.todo \subseteq startup.todo /\ startup'.active = startup.active
         /\ startup'.pc = "erase"
    BY <1>8 DEF Quarantine, BaseInv, TypeOK
  <2>12. startup.todo \subseteq Representation /\ startup.active \subseteq Representation
    BY DEF BaseInv, TypeOK
  <2>13. StartupOK'
    BY <1>2, <2>1, <2>6, <2>7, <2>11, <2>12 DEF KeptInv, StartupOK, Underway
  <2> QED BY <1>2, <1>3, <2>1, <2>4, <2>6, <2>10, <2>13 DEF KeptInv, DeletedIsGone
<1> QED BY <1>1, <1>5, <1>6, <1>7, <1>8 DEF Reconcile

(* It holds at the start. *)
LEMMA KeptInitial ==
  ASSUME Init
  PROVE  KeptInv
<1>1. \A r \in Request : request[r].pc = "idle" /\ ~request[r].asked
  BY DEF Init, NoRequest
<1>2. \A p \in Representation : lifecycle[p] = << >> /\ ~HasEnvelope(p)
  BY DEF Init, HasEnvelope
<1>3. \A p \in Representation : DOMAIN lifecycle[p] = {}
  BY <1>2
<1>4. \A p \in Representation : LogOK(p) /\ ObjectOK(p) /\ StoryOK(p)
  BY <1>2, <1>3 DEF Init, LogOK, ObjectOK, StoryOK
<1>5. DeletedIsGone
  BY DEF Init, DeletedIsGone
<1>6. \A r \in Request : HandleOK(r) /\ GoneOK(r)
  BY <1>1 DEF HandleOK, GoneOK, Securing, Deleting
<1>7. StartupOK
  BY DEF Init, StartupOK, Serving
<1> QED BY <1>4, <1>5, <1>6, <1>7 DEF KeptInv

(* Every step keeps it. *)
LEMMA KeptStep ==
  ASSUME BaseInv, KeptInv, ~Rolling, [Next]_vars
  PROVE  KeptInv'
<1>1. ASSUME NEW r \in Request, Begin(r)
      PROVE  KeptInv'
  <2>1. /\ Moves(r) /\ request'[r].pc = "reads" /\ ~request'[r].asked
        /\ overlapped' = (overlapped \/ \E q \in Request : Underway(q))
        /\ UNCHANGED <<store, startup, crashes>>
    BY <1>1, BeginMoves
  <2>2. UNCHANGED <<staging, envelope, lifecycle, object>> /\ startup.pc = "up"
    BY <1>1, <2>1 DEF store, catalogue, Begin
  <2>3. \A q \in Request : HandleOK(q)'
    BY <2>1, <2>2 DEF KeptInv, HandleOK, Moves, Deleting, HasEnvelope, Asked, Has
  <2>4. ~overlapped' => ~overlapped
    BY <2>1 DEF BaseInv, BoundsOK
  <2>5. ~overlapped' => DeletedIsGone' /\ \A q \in Request : GoneOK(q)'
    BY <2>1, <2>2, <2>4 DEF KeptInv, GoneOK, Moves, Securing, HasEnvelope, Has,
                            DeletedIsGone
  <2>6. StartupOK'
    BY <2>1, <2>2 DEF StartupOK
  <2> QED BY <2>2, <2>3, <2>5, <2>6
          DEF KeptInv, LogOK, ObjectOK, StoryOK, HasEnvelope, Asked, Has
<1>2. CASE UNCHANGED vars
  BY <1>2 DEF vars, store, catalogue, host, KeptInv, HandleOK, GoneOK, StartupOK,
              Underway, LogOK, ObjectOK, StoryOK, HasEnvelope, Asked, Has,
              DeletedIsGone
<1> QED BY <1>1, <1>2, ImportKeeps, AdministerKeeps, HostKeeps DEF Next

(* In the one process the service is written for, the invariant holds.     *)
LEMMA KeptInvariant ==
  ASSUME ~Rolling
  PROVE  Spec => [](BaseInv /\ KeptInv)
<1>1. Init => BaseInv /\ KeptInv
  BY BaseInitial, KeptInitial
<1>2. BaseInv /\ KeptInv /\ [Next]_vars => BaseInv' /\ KeptInv'
  BY BaseStep, KeptStep
<1> QED BY <1>1, <1>2, PTL DEF Spec

(* What is active can be read and the service starts again after any       *)
(* crash: no reconciliation and no refused deletion takes an object away   *)
(* before its deletion has been requested (reconcile(), delete() and       *)
(* secureSource() of artifact-service.ts), if no process serves while      *)
(* another one starts.                                                     *)
THEOREM ActiveContentIsKept ==
  ASSUME ~Rolling
  PROVE  Spec => []ContentIsKept
<1>1. BaseInv /\ KeptInv => ContentIsKept
  <2> SUFFICES ASSUME BaseInv, KeptInv
               PROVE  ContentIsKept
    OBVIOUS
  <2>1. \A p \in Representation : HasEnvelope(p) /\ ~Asked(p) => p \in object /\ Readable(p)
    BY DEF KeptInv, ObjectOK, LogOK, Readable
  <2> QED BY <2>1 DEF KeptInv, StartupOK, ContentIsKept, HasEnvelope
<1> QED BY <1>1, KeptInvariant, PTL

(* The lifecycle of a representation is one story: activated once, after   *)
(* whatever quarantines; a tombstone follows its own request; and nothing  *)
(* is read that had been asked to be deleted (appendArtifactLifecycle(),   *)
(* activateArtifactSource() and readSource()), on the same condition.      *)
THEOREM LifecyclesAreStories ==
  ASSUME ~Rolling
  PROVE  Spec => []LifecycleIsOneStory
<1>1. BaseInv /\ KeptInv => LifecycleIsOneStory
  <2> SUFFICES ASSUME BaseInv, KeptInv
               PROVE  LifecycleIsOneStory
    OBVIOUS
  <2>1. \A r \in Request :
          request[r].kind = "read" /\ request[r].pc = "answered" => ~request[r].asked
    BY DEF KeptInv, HandleOK
  <2>2. ~overlapped => \A p \in Representation :
          \A i \in DOMAIN lifecycle[p] : lifecycle[p][i] = "deleted" => p \notin object
    BY DEF KeptInv, DeletedIsGone, Has
  <2>3. \A p \in Representation : StoryOK(p)
    BY DEF KeptInv
  <2> QED BY <2>1, <2>2, <2>3 DEF LifecycleIsOneStory, StoryOK
<1> QED BY <1>1, KeptInvariant, PTL
=============================================================================
