------------------------- MODULE EvidenceArtifacts -------------------------
(***************************************************************************)
(* The secure artifact store of the evidence product and the text import   *)
(* that fills it: importText() and cancelTextImport() of                   *)
(* ingestion-service.ts, and secureSource(), readSource(), rewrap(),       *)
(* delete() and reconcile() of artifact-service.ts, on the PostgreSQL      *)
(* product repository and an object store.                                 *)
(*                                                                         *)
(* One import command is followed.  It stores two representations of a     *)
(* text, the original and the canonical one, each of them with a staging   *)
(* row, an encrypted object, an envelope and a log of its lifecycle.  Any  *)
(* number of requests work on them, step by step; a step is one call of    *)
(* the repository or of the object store.  (The repository's methods are   *)
(* transactions that lock the rows they test.)  What is encrypted, the     *)
(* audit log and the limits on the size and the rate of imports are left   *)
(* out.                                                                    *)
(***************************************************************************)
EXTENDS Integers, Sequences, FiniteSets

CONSTANTS
  Request,     \* the HTTP requests
  NewVersion,  \* whether the import's intent is a new version of an artifact
  Rolling,     \* whether another process starts while this one serves
  MaxCrashes   \* a bound on the restarts of the process

ASSUME ArtifactAssumption ==
  /\ NewVersion \in BOOLEAN
  /\ Rolling \in BOOLEAN
  /\ MaxCrashes \in Nat

Representation == {"original", "canonical"}

Event == {"quarantined", "activated", "key-rewrapped", "deletion-requested",
          "deleted"}

VARIABLES
  import,      \* the state of the text import record
  source,      \* whether the source row is there
  staging,     \* the state of the staging row of every representation
  object,      \* the representations whose staged object is in the store
  envelope,    \* the envelope: the pending one of the staging, or a later one
  lifecycle,   \* the lifecycle events of every representation
  revision,    \* how often the import moved the workspace's evidence revision
  request,     \* what every request is doing
  startup,     \* what is left of the reconciliation at the start, if any
  crashes,
  overlapped   \* whether two requests were ever under way at once

catalogue == <<import, source, staging, envelope, lifecycle, revision>>
store == <<catalogue, object>>
host == <<startup, crashes, overlapped>>
vars == <<store, request, host>>

-----------------------------------------------------------------------------

Ended == {"answered", "refused", "dead"}

Underway(r) == request[r].pc \notin Ended \cup {"idle"}

NoRequest == [pc |-> "idle", kind |-> "none", rep |-> "original", ordinal |-> 1,
              seen |-> 0, asked |-> FALSE]

RequestState ==
  [pc : {"idle", "reads", "secure", "stage", "stat", "create", "raced",
         "activate", "put-staging", "check-cancelled", "read-revision",
         "put-activated", "advance", "put-cancelled", "ask", "erase", "verify",
         "tombstone", "put-envelope", "fetch"} \cup Ended,
   kind : {"none", "import", "cancel", "delete", "rewrap", "read"},
   rep : Representation,
   ordinal : {1, 2},     \* which version ordinal the import has computed
   seen : Nat,           \* the revision the request expects
   asked : BOOLEAN]      \* deletion had been requested when the read began

TypeOK ==
  /\ import \in {"none", "staging", "activated", "cancelled"}
  /\ source \in BOOLEAN
  /\ staging \in [Representation -> {"none", "staging", "activated", "quarantined"}]
  /\ object \subseteq Representation
  /\ envelope \in [Representation -> {"none", "pending", "rewrapped"}]
  /\ lifecycle \in [Representation -> Seq(Event)]
  /\ revision \in Nat
  /\ request \in [Request -> RequestState]
  /\ startup \in [pc : {"reads", "erase", "quarantine", "up", "refused"},
                  todo : SUBSET Representation,      \* still to be quarantined
                  active : SUBSET Representation]    \* still to be scanned

Serving == [pc |-> "up", todo |-> {}, active |-> {}]

Init ==
  /\ import = "none"
  /\ source = FALSE
  /\ staging = [p \in Representation |-> "none"]
  /\ object = {}
  /\ envelope = [p \in Representation |-> "none"]
  /\ lifecycle = [p \in Representation |-> << >>]
  /\ revision = 0
  /\ request = [r \in Request |-> NoRequest]
  /\ startup = Serving
  /\ crashes = 0
  /\ overlapped = FALSE

Goto(r, pc) == request' = [request EXCEPT ![r].pc = pc]

Has(p, event) == \E i \in DOMAIN lifecycle[p] : lifecycle[p][i] = event

Asked(p) == Has(p, "deletion-requested") \/ Has(p, "deleted")

Log(p, event) == lifecycle' = [lifecycle EXCEPT ![p] = Append(@, event)]

(* Mutant of Readable: what happened last is all that counts. *)
ReadableAtLast(p) ==
  LET log == lifecycle[p] IN
  log # << >> =>
    log[Len(log)] \notin {"deletion-requested", "deleted", "quarantined"}

(* lifecycleLatest() says active. *)
Readable(p) ==
  LET log == lifecycle[p] IN
  /\ ~Asked(p)
  /\ log # << >> => log[Len(log)] # "quarantined"

-----------------------------------------------------------------------------
(* A request arrives.  Whoever deletes sends the lifecycle revision that   *)
(* was shown.                                                              *)

Begin(r) ==
  /\ request[r].pc = "idle"
  /\ startup.pc = "up" \/ Rolling
  /\ \E kind \in {"import", "cancel", "delete", "rewrap", "read"},
        p \in Representation :
       /\ kind \in {"import", "cancel"} => p = "original"
       /\ kind = "read" => p = "canonical"
       /\ request' = [request EXCEPT
                        ![r] = [NoRequest EXCEPT
                                  !.pc = "reads", !.kind = kind, !.rep = p,
                                  !.seen = IF kind = "delete" THEN Len(lifecycle[p])
                                           ELSE 0]]
  /\ overlapped' = (overlapped \/ \E q \in Request : Underway(q))
  /\ UNCHANGED <<store, startup, crashes>>

Reads(r, kind) == request[r].pc = "reads" /\ request[r].kind = kind

(* Mutant of ImportReads: an import that is over is imported again. *)
ImportReadsAgain(r) ==
  /\ Reads(r, "import")
  /\ request' = [request EXCEPT
                   ![r].pc = "secure",
                   ![r].ordinal = IF source /\ import = "none" THEN 2 ELSE 1]
  /\ UNCHANGED <<store, host>>

(* The source is the next version after those of the artifact, unless an   *)
(* import record names it: the first activation has added a version.       *)
ImportReads(r) ==
  /\ Reads(r, "import")
  /\ \/ import = "activated" /\ Goto(r, "answered")
     \/ import = "cancelled" /\ Goto(r, "refused")
     \/ /\ import \in {"none", "staging"}
        /\ IF NewVersion /\ source
           THEN Goto(r, "refused")
           ELSE request' = [request EXCEPT
                              ![r].pc = "secure",
                              ![r].ordinal = IF source /\ import = "none" THEN 2 ELSE 1]
  /\ UNCHANGED <<store, host>>

-----------------------------------------------------------------------------
(* secureSource(): once for each representation, in this order.            *)

Secured(r, p) == IF p = "original" THEN "put-staging" ELSE "read-revision"

(* A source of another ordinal has other identities, which the command     *)
(* key, staged before, refuses.                                            *)
SecureReads(r) ==
  LET p == request[r].rep IN
  /\ request[r].pc = "secure"
  /\ Goto(r, IF request[r].ordinal = 2 THEN "refused"
             ELSE IF envelope[p] # "none" THEN Secured(r, p)
             ELSE IF staging[p] # "none" THEN "stat" ELSE "stage")
  /\ UNCHANGED <<store, host>>

(* One that was staged meanwhile is taken over, or runs into the unique    *)
(* key if its transaction was still open.                                  *)
StageArtifact(r) ==
  LET p == request[r].rep IN
  /\ request[r].pc = "stage"
  /\ \/ staging[p] = "none" /\ staging' = [staging EXCEPT ![p] = "staging"]
        /\ Goto(r, "stat")
     \/ staging[p] # "none" /\ UNCHANGED staging
        /\ (Goto(r, "stat") \/ Goto(r, "refused"))
  /\ UNCHANGED <<import, source, object, envelope, lifecycle, revision, host>>

(* Every staging has its own object key, so an object that is there is the *)
(* right one.                                                              *)
StatObject(r) ==
  /\ request[r].pc = "stat"
  /\ Goto(r, IF request[r].rep \in object THEN "activate" ELSE "create")
  /\ UNCHANGED <<store, host>>

CreateObject(r) ==
  /\ request[r].pc = "create"
  /\ object' = object \cup {request[r].rep}
  /\ Goto(r, IF request[r].rep \in object THEN "raced" ELSE "activate")
  /\ UNCHANGED <<catalogue, host>>

StatRaced(r) ==
  /\ request[r].pc = "raced"
  /\ Goto(r, IF request[r].rep \in object THEN "activate" ELSE "refused")
  /\ UNCHANGED <<store, host>>

(* Mutant of ActivateSource: a staging that is activated is again. *)
ActivateSourceAgain(r) ==
  LET p == request[r].rep IN
  /\ request[r].pc = "activate"
  /\ IF envelope[p] = "rewrapped"
     THEN /\ Goto(r, "refused")
          /\ UNCHANGED <<source, staging, envelope, lifecycle>>
     ELSE /\ source' = TRUE
          /\ staging' = [staging EXCEPT ![p] = "activated"]
          /\ envelope' = [envelope EXCEPT ![p] = "pending"]
          /\ Log(p, "activated")
          /\ Goto(r, Secured(r, p))
  /\ UNCHANGED <<import, object, revision, host>>

(* activateArtifactSource(): the staging is activated, whatever state it   *)
(* was in; one that has been is compared, and a new wrapping of its key    *)
(* makes the comparison fail.                                              *)
ActivateSource(r) ==
  LET p == request[r].rep IN
  /\ request[r].pc = "activate"
  /\ IF envelope[p] = "rewrapped"
     THEN /\ Goto(r, "refused")
          /\ UNCHANGED <<source, staging, envelope, lifecycle>>
     ELSE /\ IF staging[p] = "activated"
             THEN UNCHANGED <<source, staging, envelope, lifecycle>>
             ELSE /\ source' = TRUE
                  /\ staging' = [staging EXCEPT ![p] = "activated"]
                  /\ envelope' = [envelope EXCEPT ![p] = "pending"]
                  /\ Log(p, "activated")
          /\ Goto(r, Secured(r, p))
  /\ UNCHANGED <<import, object, revision, host>>

-----------------------------------------------------------------------------
(* The rest of importText(), and cancelTextImport().                       *)

PutStaging(r) ==
  /\ request[r].pc = "put-staging"
  /\ import' = "staging"
  /\ Goto(r, "check-cancelled")
  /\ UNCHANGED <<source, object, staging, envelope, lifecycle, revision, host>>

CheckCancelled(r) ==
  /\ request[r].pc = "check-cancelled"
  /\ IF import = "cancelled" THEN Goto(r, "refused")
     ELSE request' = [request EXCEPT ![r].pc = "secure", ![r].rep = "canonical"]
  /\ UNCHANGED <<store, host>>

ReadRevision(r) ==
  /\ request[r].pc = "read-revision"
  /\ request' = [request EXCEPT ![r].pc = "put-activated", ![r].seen = revision]
  /\ UNCHANGED <<store, host>>

PutActivated(r) ==
  /\ request[r].pc = "put-activated"
  /\ import' = "activated"
  /\ Goto(r, "advance")
  /\ UNCHANGED <<source, object, staging, envelope, lifecycle, revision, host>>

AdvanceRevision(r) ==
  /\ request[r].pc = "advance"
  /\ IF revision = request[r].seen
     THEN revision' = revision + 1 /\ Goto(r, "answered")
     ELSE UNCHANGED revision /\ Goto(r, "refused")
  /\ UNCHANGED <<import, source, object, staging, envelope, lifecycle, host>>

CancelReads(r) ==
  /\ Reads(r, "cancel")
  /\ Goto(r, CASE import = "staging" -> "put-cancelled"
               [] import = "cancelled" -> "answered"
               [] OTHER -> "refused")
  /\ UNCHANGED <<store, host>>

PutCancelled(r) ==
  /\ request[r].pc = "put-cancelled"
  /\ import' = "cancelled"
  /\ Goto(r, "answered")
  /\ UNCHANGED <<source, object, staging, envelope, lifecycle, revision, host>>

-----------------------------------------------------------------------------
(* delete(), rewrap() and readSource().                                    *)

DeleteReads(r) ==
  LET p == request[r].rep IN
  /\ Reads(r, "delete")
  /\ Goto(r, IF envelope[p] # "none" /\ Len(lifecycle[p]) = request[r].seen
             THEN "ask" ELSE "refused")
  /\ UNCHANGED <<store, host>>

(* Mutant of AppendLifecycle: the expected revision is not compared. *)
AppendLifecycleAnyway(r, event, expected, next) ==
  /\ Log(request[r].rep, event)
  /\ Goto(r, next)
  /\ UNCHANGED <<import, source, object, staging, envelope, revision, host>>

(* appendArtifactLifecycle(), at an expected revision. *)
AppendLifecycle(r, event, expected, next) ==
  LET p == request[r].rep IN
  /\ IF Len(lifecycle[p]) = expected
     THEN Log(p, event) /\ Goto(r, next)
     ELSE UNCHANGED lifecycle /\ Goto(r, "refused")
  /\ UNCHANGED <<import, source, object, staging, envelope, revision, host>>

AskDeletion(r) ==
  /\ request[r].pc = "ask"
  /\ AppendLifecycle(r, "deletion-requested", request[r].seen, "erase")

DeleteObject(r) ==
  /\ request[r].pc = "erase"
  /\ object' = object \ {request[r].rep}
  /\ Goto(r, "verify")
  /\ UNCHANGED <<catalogue, host>>

VerifyDeleted(r) ==
  /\ request[r].pc = "verify"
  /\ Goto(r, IF request[r].rep \in object THEN "refused" ELSE "tombstone")
  /\ UNCHANGED <<store, host>>

Tombstone(r) ==
  /\ request[r].pc = "tombstone"
  /\ AppendLifecycle(r, "deleted", request[r].seen + 1, "answered")

RewrapReads(r) ==
  /\ Reads(r, "rewrap")
  /\ Goto(r, IF envelope[request[r].rep] # "none" THEN "put-envelope" ELSE "refused")
  /\ UNCHANGED <<store, host>>

(* updateArtifactEnvelope(): only the key is wrapped anew.  It locks the   *)
(* envelope and not the representation, so that an append which it         *)
(* overlaps does not see its event: that append counts as the earlier one. *)
PutEnvelope(r) ==
  LET p == request[r].rep IN
  /\ request[r].pc = "put-envelope"
  /\ envelope' = [envelope EXCEPT ![p] = "rewrapped"]
  /\ Log(p, "key-rewrapped")
  /\ Goto(r, "answered")
  /\ UNCHANGED <<import, source, object, staging, revision, host>>

(* Who reads the case reads its sources, each through its canonical text. *)
ReadCase(r) ==
  LET p == request[r].rep IN
  /\ Reads(r, "read")
  /\ request' = [request EXCEPT
                   ![r].pc = IF source /\ envelope[p] # "none" /\ Readable(p)
                             THEN "fetch" ELSE "refused",
                   ![r].asked = Asked(p)]
  /\ UNCHANGED <<store, host>>

FetchObject(r) ==
  /\ request[r].pc = "fetch"
  /\ Goto(r, IF request[r].rep \in object THEN "answered" ELSE "refused")
  /\ UNCHANGED <<store, host>>

-----------------------------------------------------------------------------
(* The process dies, or goes on if it is replaced while it serves, and a   *)
(* new one starts: it reconciles the stagings that have expired, scans the *)
(* objects and then serves.                                                *)

Restart ==
  /\ crashes < MaxCrashes
  /\ crashes' = crashes + 1
  /\ \E goesOn \in IF Rolling THEN BOOLEAN ELSE {FALSE} :
       request' = [r \in Request |->
                     IF Underway(r) /\ ~goesOn THEN [request[r] EXCEPT !.pc = "dead"]
                     ELSE request[r]]
  /\ startup' = [Serving EXCEPT !.pc = "reads"]
  /\ UNCHANGED <<store, overlapped>>

(* Mutant of Unreferenced: the representation may be active. *)
UnreferencedStaged(p) == staging[p] # "none"

Unreferenced(p) == staging[p] # "none" /\ envelope[p] = "none"

ReconcileReads ==
  /\ startup.pc = "reads"
  /\ \E expired \in SUBSET {p \in Representation : Unreferenced(p)} :
       startup' = [pc |-> "erase", todo |-> expired,
                   active |-> {p \in Representation : envelope[p] # "none" /\ Readable(p)}]
  /\ UNCHANGED <<store, request, crashes, overlapped>>

ReconcileErases(p) ==
  /\ startup.pc = "erase" /\ p \in startup.todo
  /\ p = "canonical" => "original" \notin startup.todo
  /\ object' = object \ {p}
  /\ startup' = [startup EXCEPT !.pc = "quarantine"]
  /\ UNCHANGED <<catalogue, request, crashes, overlapped>>

Quarantine(p) ==
  /\ startup.pc = "quarantine" /\ p \in startup.todo
  /\ p = "canonical" => "original" \notin startup.todo
  /\ staging' = [staging EXCEPT ![p] = "quarantined"]
  /\ Log(p, "quarantined")
  /\ startup' = [startup EXCEPT !.pc = "erase", !.todo = @ \ {p}]
  /\ UNCHANGED <<import, source, object, envelope, revision, request, crashes,
                 overlapped>>

Scan ==
  /\ startup.pc = "erase" /\ startup.todo = {}
  /\ startup' = [startup EXCEPT
                   !.pc = IF startup.active \subseteq object THEN "up" ELSE "refused"]
  /\ UNCHANGED <<store, request, crashes, overlapped>>

-----------------------------------------------------------------------------

Import(r) ==
  \/ ImportReads(r) \/ SecureReads(r) \/ StageArtifact(r) \/ StatObject(r)
  \/ CreateObject(r) \/ StatRaced(r) \/ ActivateSource(r) \/ PutStaging(r)
  \/ CheckCancelled(r) \/ ReadRevision(r) \/ PutActivated(r)
  \/ AdvanceRevision(r)

Administer(r) ==
  \/ CancelReads(r) \/ PutCancelled(r)
  \/ DeleteReads(r) \/ AskDeletion(r) \/ DeleteObject(r) \/ VerifyDeleted(r)
  \/ Tombstone(r)
  \/ RewrapReads(r) \/ PutEnvelope(r)
  \/ ReadCase(r) \/ FetchObject(r)

Reconcile ==
  \/ ReconcileReads \/ Scan
  \/ \E p \in Representation : ReconcileErases(p) \/ Quarantine(p)

Next ==
  \/ \E r \in Request : Begin(r) \/ Import(r) \/ Administer(r)
  \/ Restart \/ Reconcile

Spec == Init /\ [][Next]_vars

-----------------------------------------------------------------------------
(***************************************************************************)
(* Properties.                                                             *)
(***************************************************************************)

(* An import that is reported activated has both its representations, and  *)
(* the case a source that names them, whatever retries, cancellations and  *)
(* crashes came before.  While calls follow one another, one that is       *)
(* reported cancelled stays so, and if none dies the import has moved the  *)
(* evidence revision once, and only if it is activated.                    *)
ImportIsWhole ==
  /\ TypeOK
  /\ import = "activated" =>
       source /\ \A p \in Representation : Has(p, "activated")
  /\ ~overlapped =>
       /\ \A r \in Request :
            request[r].kind = "cancel" /\ request[r].pc = "answered" =>
              import = "cancelled"
       /\ crashes = 0 /\ (\A r \in Request : ~Underway(r)) =>
            revision = IF import = "activated" THEN 1 ELSE 0

(* What is active can be read: no reconciliation and no deletion that was  *)
(* refused takes away the object of a representation before its deletion   *)
(* has been requested, so the service starts again after any crash.        *)
ContentIsKept ==
  /\ \A p \in Representation :
       envelope[p] # "none" /\ ~Asked(p) => p \in object /\ Readable(p)
  /\ startup.pc # "refused"

(* The lifecycle of a representation reads as one story: it was activated  *)
(* once, after whatever quarantines; nothing is read that had been asked   *)
(* to be deleted, not even when its key is wrapped anew in between; and a  *)
(* tombstone follows the request of its own deletion with nothing in       *)
(* between, the object being gone while calls follow one another.          *)
LifecycleIsOneStory ==
  /\ \A r \in Request :
       request[r].kind = "read" /\ request[r].pc = "answered" => ~request[r].asked
  /\ \A p \in Representation :
       LET log == lifecycle[p] IN
       \A i \in DOMAIN log :
         /\ log[i] \in {"activated", "quarantined"} =>
              \A j \in 1 .. i - 1 : log[j] = "quarantined"
         /\ log[i] = "deleted" =>
              /\ i > 1 /\ log[i - 1] = "deletion-requested"
              /\ ~overlapped => p \notin object

(* "A half-import is never queryable" (ADR-0038, section 2).               *)
NoHalfImport == source => \A p \in Representation : envelope[p] # "none"

(* "Deleted tombstones do not regain objects" (ADR-0037, section 7).       *)
TombstonesStayEmpty ==
  \A p \in Representation : Has(p, "deleted") => p \notin object

(* "Failure leaves staging for exact retry" (ADR-0038, section 2): a retry *)
(* on its own is not refused, unless the import was cancelled.             *)
RetrySucceeds ==
  \A r \in Request :
    ~overlapped /\ request[r].kind = "import" /\ request[r].pc = "refused" =>
      import = "cancelled"
=============================================================================
