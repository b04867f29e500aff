---------------------------- MODULE OutboxStore ----------------------------
(***************************************************************************)
(* The outbox methods of the aggregate repository (packages/core,          *)
(* repository.ts; packages/adapter-memory, repository.ts).  Each method    *)
(* copies the store, changes the copy and publishes it in one assignment,  *)
(* so it is one atomic operator here.                                      *)
(*                                                                         *)
(* availableAt is an instant in the code and is only ever compared with    *)
(* the clock of a drain; it is kept here as the time still to wait, "due   *)
(* in", which Tick of OutboxDrain counts down while the entry is unsettled. *)
(***************************************************************************)
EXTENDS Integers

CONSTANT Key      \* request keys; an event has the key of its execution

VARIABLE outbox     \* one delivery record for each event

OutboxStatus == {"absent", "pending", "claimed", "delivered", "failed"}

OutboxRecord == [status : OutboxStatus, attemptCount : Nat, dueIn : Int]

OutboxTypeOK == outbox \in [Key -> OutboxRecord]

NoRecord == [status |-> "absent", attemptCount |-> 0, dueIn |-> 0]

NewRecord == [status |-> "pending", attemptCount |-> 0, dueIn |-> 0]

OutboxInit == outbox = [e \in Key |-> NoRecord]

(* commit() writes one pending record for each event of the commit. *)
Publish(events) ==
  outbox' = [e \in Key |-> IF e \in events THEN NewRecord ELSE outbox[e]]

(* Mutant of Due: an expired lease is never taken over. *)
DueOnlyPending(e, age) ==
  outbox[e].status = "pending" /\ outbox[e].dueIn + age <= 0

(* Due: pending, or leased past its expiry, when the drain read the clock, *)
(* which is an age ago.                                                    *)
Due(e, age) ==
  outbox[e].status \in {"pending", "claimed"} /\ outbox[e].dueIn + age <= 0

(* Mutant of LeaseOutbox: the attempt is not counted when it is leased. *)
LeaseOutboxUncounted(batch, leaseFor) ==
  outbox' = [e \in Key |->
               IF e \in batch
               THEN [outbox[e] EXCEPT !.status = "claimed", !.dueIn = leaseFor]
               ELSE outbox[e]]

(* leaseOutbox(): the chosen due entries, each with its attempt counted. *)
LeaseOutbox(batch, leaseFor) ==
  outbox' = [e \in Key |->
               IF e \in batch
               THEN [status |-> "claimed",
                     attemptCount |-> outbox[e].attemptCount + 1,
                     dueIn |-> leaseFor]
               ELSE outbox[e]]

(* markOutboxDelivered(): a delivered entry stays as it is, a claimed one is *)
(* settled, anything else is refused.  When a settled entry was due is not   *)
(* told apart.                                                               *)
DeliveredRefused(e) == outbox[e].status \notin {"delivered", "claimed"}

MarkOutboxDelivered(e) ==
  /\ ~DeliveredRefused(e)
  /\ outbox' = [outbox EXCEPT ![e].status = "delivered", ![e].dueIn = 0]

(* Mutant of FailedRefused: only an entry that was never published refuses. *)
FailedRefusedAbsent(e, retry) == outbox[e].status = "absent"

(* markOutboxFailed(): giving up on a failed entry is idempotent; a claimed *)
(* entry goes back to pending when the caller retries, else to failed;      *)
(* delivered and pending entries refuse.                                    *)
FailedRefused(e, retry) ==
  ~ \/ outbox[e].status = "claimed"
    \/ outbox[e].status = "failed" /\ ~retry

MarkOutboxFailed(e, retry, retryIn) ==
  /\ ~FailedRefused(e, retry)
  /\ outbox' = IF outbox[e].status = "failed"
               THEN outbox
               ELSE [outbox EXCEPT
                       ![e].status = IF retry THEN "pending" ELSE "failed",
                       ![e].dueIn = IF retry THEN retryIn ELSE 0]

(* Mutant of RedriveOutbox: the attempts start again from none. *)
RedriveOutboxFromScratch(e) ==
  /\ outbox[e].status = "failed"
  /\ outbox' = [outbox EXCEPT ![e] = NewRecord]

(* redriveOutbox(): only a failed entry, which keeps its attempt count. *)
RedriveOutbox(e) ==
  /\ outbox[e].status = "failed"
  /\ outbox' = [outbox EXCEPT ![e].status = "pending", ![e].dueIn = 0]

=============================================================================
