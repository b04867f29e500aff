-------------------------- MODULE EngineWithDrains --------------------------
(***************************************************************************)
(* The engine and the drains over one repository: calls of execute() and   *)
(* the operator (ExecutionEngine) write the events of their commits into   *)
(* the outbox, and calls of drainOutbox() and redriveOutbox()              *)
(* (OutboxDrain) lease and settle them.  They share outbox and nothing     *)
(* else, so a step of the system is a step of one side that leaves the     *)
(* variables of the other alone.                                           *)
(***************************************************************************)
EXTENDS ExecutionEngine, OutboxDrain

engine == <<execution, attempt, modelCall, history, memory,
            pc, run, dispatched, operator>>

drains == <<drain, served, accepted, crashes, redrives>>

SystemInit == Init /\ DrainInit

(* What OutboxDrain takes as ExecutionCommits is a step of the engine here. *)
SystemNext ==
  \/ Next /\ UNCHANGED drains
  \/ Delivery /\ UNCHANGED engine

SystemSpec == SystemInit /\ [][SystemNext]_<<vars, drainVars>>

-----------------------------------------------------------------------------
(***************************************************************************)
(* Properties.                                                             *)
(***************************************************************************)

(* Nothing reaches the dispatcher before its execution has committed, nor  *)
(* for an execution that was blocked, failed or discharged meanwhile, or   *)
(* whose commit has no event; and what is recorded as delivered was        *)
(* accepted for such a commit (ADR-0018; commit(), leaseOutbox()).         *)
CalledForCommits ==
  \A k \in Key :
    /\ served[k] # {} =>
         execution[k].status = "committed" /\ execution[k].commit.event
    /\ outbox[k].status = "delivered" => k \in accepted /\ served[k] # {}

(* The events of the commits are what the drains have to do: a committed   *)
(* execution's event is in the outbox until it is settled, and stays there *)
(* as settled; nobody redrives or leases what was never published.         *)
EveryEventIsKept ==
  \A k \in Key :
    outbox[k].status # "absent"
      <=> execution[k].status = "committed" /\ execution[k].commit.event

=============================================================================
