---------------------------- MODULE OutboxDrain ----------------------------
(***************************************************************************)
(* drainOutbox() and redriveOutbox() of packages/core, outbox.ts: several  *)
(* drains run at once, each leases one batch, calls the dispatcher for one *)
(* event after the other and settles each outcome.  A drain may crash at   *)
(* any point and leaves its leases behind.                                 *)
(***************************************************************************)
EXTENDS OutboxStore, FiniteSets

CONSTANTS
  Drain,         \* calls of drainOutbox() that may be under way together
  Turn,          \* the place of each event by occurredAt, then eventId
  Limit,         \* entries leased by one call
  LeaseTimeout,  \* how long a lease lasts, and the delay before a retry
  MaxFaults      \* bound: drains that die and operator redrives

ASSUME OutboxAssumption ==
  /\ Turn \in [Key -> Nat]
  /\ \A e, f \in Key : Turn[e] = Turn[f] => e = f
  /\ Limit \in Nat \ {0}
  /\ LeaseTimeout \in Nat \ {0}
  /\ MaxFaults \in Nat

VARIABLES
  drain,      \* the local state of each drain
  served,     \* the attempts of an event for which the dispatcher was called
  accepted,   \* events the dispatcher accepted at least once
  crashes,    \* drains that died so far
  redrives    \* redrives so far

drainVars == <<outbox, drain, served, accepted, crashes, redrives>>

(* An age beyond which drains are not told apart: a lease or a retry from  *)
(* then on has run out for every drain that asks for a lease.              *)
Old == 2 * LeaseTimeout

(* leased[e] is the attempt count of the entry as it was leased, 0 when the *)
(* entry is not (or no longer) in the batch.  age is the time since the     *)
(* drain read the clock.                                                    *)
DrainState ==
  [pc : {"idle", "lease", "deliver", "settle"},
   age : 0 .. Old,
   leased : [Key -> Nat],
   verdict : BOOLEAN]

NoLease == [e \in Key |-> 0]

IdleDrain ==
  [pc |-> "idle", age |-> 0, leased |-> NoLease, verdict |-> FALSE]

DrainTypeOK ==
  /\ OutboxTypeOK
  /\ drain \in [Drain -> DrainState]
  /\ served \in [Key -> SUBSET (Nat \ {0})]
  /\ accepted \in SUBSET Key
  /\ crashes \in 0 .. MaxFaults
  /\ redrives \in 0 .. MaxFaults

DrainInit ==
  /\ OutboxInit
  /\ drain = [d \in Drain |-> IdleDrain]
  /\ served = [e \in Key |-> {}]
  /\ accepted = {}
  /\ crashes = 0
  /\ redrives = 0

-----------------------------------------------------------------------------

Batch(d) == {e \in Key : drain[d].leased[e] > 0}

(* The batch is served in order. *)
IsNext(d, e) == e \in Batch(d) /\ \A f \in Batch(d) : Turn[e] <= Turn[f]

(* Time left of an interval that began when the drain read the clock. *)
Left(d) == LeaseTimeout - drain[d].age

(* The default retry policy: the first attempt is retried, a later one is not. *)
Retries(d, e) == drain[d].leased[e] <= 1

(* Entries a lease takes: the first Limit due entries, or all if fewer. *)
LeaseBatch(batch, age) ==
  LET due == {e \in Key : Due(e, age)}
  IN  /\ batch \subseteq due
      /\ \A e \in batch, f \in due \ batch : Turn[e] < Turn[f]
      /\ \/ batch = due /\ Cardinality(due) <= Limit
         \/ Cardinality(batch) = Limit

(* The event is taken off the batch; the call returns after the last one. *)
Settled(d, e) ==
  LET rest == [drain[d].leased EXCEPT ![e] = 0]
  IN  drain' = [drain EXCEPT ![d] =
                  IF rest = NoLease
                  THEN IdleDrain
                  ELSE [@ EXCEPT !.pc = "deliver", !.leased = rest]]

-----------------------------------------------------------------------------

(* An execution commits with this event. *)
ExecutionCommits(e) ==
  /\ outbox[e].status = "absent"
  /\ Publish({e})
  /\ UNCHANGED <<drain, served, accepted, crashes, redrives>>

(* drainOutbox() is called and reads the clock. *)
Start(d) ==
  /\ drain[d].pc = "idle"
  /\ drain' = [drain EXCEPT ![d] = [IdleDrain EXCEPT !.pc = "lease"]]
  /\ UNCHANGED <<outbox, served, accepted, crashes, redrives>>

Lease(d) ==
  /\ drain[d].pc = "lease"
  /\ \E batch \in SUBSET Key :
       /\ LeaseBatch(batch, drain[d].age)
       /\ LeaseOutbox(batch, Left(d))
       /\ drain' = [drain EXCEPT ![d] =
                      IF batch = {}
                      THEN IdleDrain
                      ELSE [@ EXCEPT
                              !.pc = "deliver",
                              !.leased = [e \in Key |->
                                            IF e \in batch
                                            THEN outbox[e].attemptCount + 1
                                            ELSE 0]]]
  /\ UNCHANGED <<served, accepted, crashes, redrives>>

(* dispatcher.deliver() is called and resolves or rejects. *)
Deliver(d, e, verdict) ==
  /\ drain[d].pc = "deliver"
  /\ IsNext(d, e)
  /\ drain' = [drain EXCEPT ![d].pc = "settle", ![d].verdict = verdict]
  /\ served' = [served EXCEPT ![e] = @ \cup {drain[d].leased[e]}]
  /\ accepted' = IF verdict THEN accepted \cup {e} ELSE accepted
  /\ UNCHANGED <<outbox, crashes, redrives>>

(* Mutant of SettleDelivered: a call that rejected is settled as well. *)
SettleDeliveredAnyway(d, e) ==
  /\ drain[d].pc = "settle"
  /\ IsNext(d, e)
  /\ MarkOutboxDelivered(e)
  /\ Settled(d, e)
  /\ UNCHANGED <<served, accepted, crashes, redrives>>

SettleDelivered(d, e) ==
  /\ drain[d].pc = "settle" /\ drain[d].verdict
  /\ IsNext(d, e)
  /\ MarkOutboxDelivered(e)
  /\ Settled(d, e)
  /\ UNCHANGED <<served, accepted, crashes, redrives>>

SettleFailed(d, e) ==
  /\ drain[d].pc = "settle" /\ ~drain[d].verdict
  /\ IsNext(d, e)
  /\ MarkOutboxFailed(e, Retries(d, e), Left(d))
  /\ Settled(d, e)
  /\ UNCHANGED <<served, accepted, crashes, redrives>>

(* The repository refuses the settlement: drainOutbox() rejects and leaves *)
(* the rest of its batch leased.                                           *)
SettleRefused(d, e) ==
  /\ drain[d].pc = "settle"
  /\ IsNext(d, e)
  /\ IF drain[d].verdict THEN DeliveredRefused(e) ELSE FailedRefused(e, Retries(d, e))
  /\ drain' = [drain EXCEPT ![d] = IdleDrain]
  /\ UNCHANGED <<outbox, served, accepted, crashes, redrives>>

(* The process dies: nothing of the drain survives but what it stored. *)
DrainCrash(d) ==
  /\ drain[d].pc # "idle"
  /\ crashes + redrives < MaxFaults
  /\ crashes' = crashes + 1
  /\ drain' = [drain EXCEPT ![d] = IdleDrain]
  /\ UNCHANGED <<outbox, served, accepted, redrives>>

(* An operator redrives a failed entry. *)
Redrive(e) ==
  /\ crashes + redrives < MaxFaults
  /\ redrives' = redrives + 1
  /\ RedriveOutbox(e)
  /\ UNCHANGED <<drain, served, accepted, crashes>>

(* Time passes, while anything still waits for it.  Bound: a drain asks for *)
(* its lease within LeaseTimeout of reading the clock.                      *)
Tick ==
  LET waiting == {e \in Key : /\ outbox[e].status \in {"pending", "claimed"}
                              /\ outbox[e].dueIn > -LeaseTimeout}
      ageing == {d \in Drain : drain[d].pc # "idle" /\ drain[d].age < Old}
  IN
  /\ waiting # {} \/ ageing # {}
  /\ \A d \in Drain : drain[d].pc = "lease" => drain[d].age < LeaseTimeout
  /\ outbox' = [e \in Key |-> IF e \in waiting
                              THEN [outbox[e] EXCEPT !.dueIn = @ - 1]
                              ELSE outbox[e]]
  /\ drain' = [d \in Drain |-> IF d \in ageing
                                THEN [drain[d] EXCEPT !.age = @ + 1]
                                ELSE drain[d]]
  /\ UNCHANGED <<served, accepted, crashes, redrives>>

DrainStep(d) ==
  \/ Start(d)
  \/ Lease(d)
  \/ \E e \in Key : \/ \E verdict \in BOOLEAN : Deliver(d, e, verdict)
                      \/ SettleDelivered(d, e)
                      \/ SettleFailed(d, e)
                      \/ SettleRefused(d, e)

(* Everything but the commits, which are steps of the engine. *)
Delivery ==
  \/ \E e \in Key : Redrive(e)
  \/ \E d \in Drain : DrainStep(d) \/ DrainCrash(d)
  \/ Tick

DrainNext == Delivery \/ \E e \in Key : ExecutionCommits(e)

DrainSpec == DrainInit /\ [][DrainNext]_drainVars

(* Drains run to their end and are called again, and time passes.  Commits, *)
(* crashes and redrives need not happen.                                    *)
DrainFairness ==
  /\ WF_drainVars(Tick)
  /\ \A d \in Drain : WF_drainVars(DrainStep(d))

FairDrainSpec == DrainSpec /\ DrainFairness

-----------------------------------------------------------------------------
(***************************************************************************)
(* Properties.                                                             *)
(***************************************************************************)

(* An entry is recorded as delivered only if the dispatcher accepted it:   *)
(* no refusal, crash or stale settlement ever settles an undelivered event *)
(* (settle, outbox.ts).                                                    *)
DeliveredWasAccepted ==
  \A e \in Key : outbox[e].status = "delivered" => e \in accepted

(* A delivered entry never changes again: a slow drain whose lease ran out *)
(* cannot fail or re-lease what another drain has settled, nor can a       *)
(* redrive (markOutboxFailed, leaseOutbox, redriveOutbox).                 *)
DeliveredIsFinal ==
  [][\A e \in Key :
       outbox[e].status = "delivered" => outbox'[e].status = "delivered"]_drainVars

(* The attempt count never under-reports: every call of the dispatcher is  *)
(* for an attempt of its own, one the record has counted, whatever crashes *)
(* or redrives came between (ADR-0018, "the attempt count increments when  *)
(* the lease is taken").                                                   *)
EveryCallCounted ==
  /\ \A e \in Key : \A n \in served[e] : n <= outbox[e].attemptCount
  /\ \A d \in Drain, e \in Key :
       drain[d].pc = "deliver" /\ e \in Batch(d) => drain[d].leased[e] \notin served[e]

(* No two drains hold the same attempt of an event, so of the drains that  *)
(* still believe they hold a lease at most one holds the current one.      *)
OneHolderPerAttempt ==
  \A d1, d2 \in Drain : d1 # d2 =>
    \A e \in Batch(d1) \cap Batch(d2) : drain[d1].leased[e] # drain[d2].leased[e]

(* Nothing is called uncounted: each call of the dispatcher has an attempt  *)
(* of its own, which one drain holds.                                      *)
CallsAreAccounted == DrainTypeOK /\ EveryCallCounted /\ OneHolderPerAttempt

Unsettled == {e \in Key : outbox[e].status \in {"pending", "claimed"}}

(* Whatever is published is settled in the end, as delivered or as failed  *)
(* after its retry: no crash, refused settlement or stale lease strands an *)
(* event, and the drains work the outbox off (ADR-0018, "a timeout needs   *)
(* no such path").                                                         *)
EventuallySettled == Unsettled # {} ~> Unsettled = {}

(* "No event is delivered twice within one lease window" (ADR-0033 section *)
(* 10, gate 1): two drains that have both called the dispatcher for an     *)
(* event do not both hold a lease that has not run out.                    *)
DeliveredOncePerWindow ==
  \A d1, d2 \in Drain : d1 # d2 =>
    \A e \in Key :
      (\A d \in {d1, d2} : drain[d].pc = "settle" /\ IsNext(d, e))
        => \E d \in {d1, d2} : drain[d].age >= LeaseTimeout

=============================================================================
