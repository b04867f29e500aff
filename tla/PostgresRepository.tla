------------------------- MODULE PostgresRepository -------------------------
(***************************************************************************)
(* The PostgreSQL adapter of the aggregate repository (adapter-postgres,   *)
(* repository.ts): the methods that ExecutionRepository and OutboxStore    *)
(* give as one atomic step each are transactions here, READ COMMITTED, of  *)
(* several statements.  A method reads the rows it needs without locking   *)
(* them, decides whether it is refused, writes row by row and commits.  A  *)
(* write waits for the row's lock, and only a conditional write looks      *)
(* again at what the row holds by then.                                    *)
(*                                                                         *)
(* One memory identity for each entity, one model call and one event for   *)
(* each execution; attempt rows, documents and evidence are left out: they *)
(* are written by transactions that hold the rows below.                   *)
(***************************************************************************)
EXTENDS Naturals, Sequences, FiniteSets

CONSTANTS
  Key,       \* request keys, and so executions
  Entity,    \* state streams
  Request,   \* [Key -> entity and expected revision]: what each key asks for
  Client,    \* pooled connections
  MaxOps,    \* bound: transactions that are begun
  None

(* A commit either advances the state or leaves it, and either writes the  *)
(* memory record, of which it read a version, or does not.                 *)
Commit == [advances : BOOLEAN, memory : Nat \cup {None}]

ASSUME PostgresAssumption ==
  /\ Request \in [Key -> [entity : Entity, expectedRevision : Nat]]
  /\ MaxOps \in Nat
  /\ None \notin Nat \cup Commit

VARIABLES
  execution,  \* status of each execution row
  commitRow,  \* execution_commits: the memory version read, or None
  history,    \* state_heads and state_transitions: the executions behind
              \* revisions 1, 2, ... of each entity
  memory,     \* record_version of the entity's memory record, 0 if none
  call,       \* whether the model call of the execution is reserved
  outbox,     \* status of the event of each execution
  tx,         \* the transaction each connection is in
  ops,        \* transactions begun so far
  granted,    \* history: how often an insert was reported as the first one
  contested   \* history: keys on which two transactions were open at once

tables == <<execution, commitRow, history, memory, call, outbox>>

vars == <<tables, tx, ops, granted, contested>>

Terminal == {"committed", "failed"}

NoCommit == [advances |-> FALSE, memory |-> None]

Insert == {"accept", "reserve", "commit"}

Kind == Insert \cup {"attempt", "terminal", "lease", "delivered", "retry",
                     "giveUp", "redrive"}

Row == ({"execution", "commit", "call", "event"} \X Key)
         \cup ({"head", "memory"} \X Entity)

Transaction ==
  [pc : {"idle", "begun", "write"}, kind : Kind \cup {None},
   key : Key \cup {None}, commit : Commit,
   todo : Seq(Row), holds : SUBSET Row]

Idle == [pc |-> "idle", kind |-> None, key |-> None, commit |-> NoCommit,
         todo |-> << >>, holds |-> {}]

TypeOK ==
  /\ execution \in [Key -> {"absent", "running"} \cup Terminal]
  /\ commitRow \in [Key -> Commit \cup {None}]
  /\ history \in [Entity -> Seq(Key)]
  /\ memory \in [Entity -> Nat]
  /\ call \in [Key -> BOOLEAN]
  /\ outbox \in [Key -> {"absent", "pending", "claimed", "delivered", "failed"}]
  /\ tx \in [Client -> Transaction]
  /\ \A c, d \in Client : c # d => tx[c].holds \cap tx[d].holds = {}
  /\ ops \in 0 .. MaxOps
  /\ granted \in [Insert \X Key -> Nat]
  /\ contested \subseteq Key

Init ==
  /\ execution = [k \in Key |-> "absent"]
  /\ commitRow = [k \in Key |-> None]
  /\ history = [e \in Entity |-> << >>]
  /\ memory = [e \in Entity |-> 0]
  /\ call = [k \in Key |-> FALSE]
  /\ outbox = [k \in Key |-> "absent"]
  /\ tx = [c \in Client |-> Idle]
  /\ ops = 0
  /\ granted = [i \in Insert \X Key |-> 0]
  /\ contested = {}

EntityOf(k) == Request[k].entity

Mutable(k) == execution[k] \notin Terminal \cup {"absent"}

-----------------------------------------------------------------------------
(* withWriteTransaction(): BEGIN, the statements, COMMIT or ROLLBACK.      *)

(* What a caller of the method can know: an attempt, a reservation, a      *)
(* commit and a terminal outcome follow an accept(), what a commit writes  *)
(* follows a loadContext(), and an event is settled by who leased it.      *)
CanCall(kind, k) ==
  CASE kind = "accept" -> TRUE
    [] kind \in {"attempt", "reserve", "terminal", "commit"} ->
         execution[k] # "absent"
    [] OTHER -> outbox[k] # "absent"

Prepared(kind, k) ==
  IF kind # "commit" THEN {NoCommit}
  ELSE [advances : BOOLEAN, memory : (0 .. memory[EntityOf(k)]) \cup {None}]

Begin(c, kind, k) ==
  /\ tx[c].pc = "idle"
  /\ ops < MaxOps
  /\ CanCall(kind, k)
  /\ \E commit \in Prepared(kind, k) :
       tx' = [tx EXCEPT ![c] = [pc |-> "begun", kind |-> kind, key |-> k,
                                commit |-> commit, todo |-> << >>,
                                holds |-> {}]]
  /\ ops' = ops + 1
  /\ contested' = IF \E d \in Client \ {c} : tx[d].pc # "idle" /\ tx[d].key = k
                  THEN contested \cup {k} ELSE contested
  /\ UNCHANGED <<tables, granted>>

(* What each method decides from the rows it reads. *)
AttemptRefused(k) == ~Mutable(k)

ReserveRefused(k) == ~Mutable(k) \/ call[k]

CommitRefused(k) ==
  \/ commitRow[k] # None
  \/ ~Mutable(k)
  \/ Len(history[EntityOf(k)]) # Request[k].expectedRevision

(* Mutant of TerminalRefused: markTerminal() does not look at the status. *)
TerminalRefusedNever(k) == FALSE

TerminalRefused(k) == ~Mutable(k)

NothingToLease(k) == outbox[k] \notin {"pending", "claimed"}

DeliveredRefused(k) == outbox[k] # "claimed"

FailedRefused(k) == outbox[k] # "claimed"

RedriveRefused(k) == outbox[k] # "failed"

Refused(kind, k) ==
  CASE kind = "accept" -> FALSE
    [] kind = "attempt" -> AttemptRefused(k)
    [] kind = "reserve" -> ReserveRefused(k)
    [] kind = "commit" -> CommitRefused(k)
    [] kind = "terminal" -> TerminalRefused(k)
    [] kind = "lease" -> NothingToLease(k)
    [] kind = "delivered" -> DeliveredRefused(k)
    [] kind \in {"retry", "giveUp"} -> FailedRefused(k)
    [] kind = "redrive" -> RedriveRefused(k)

(* The rows it writes, in the order of its statements. *)
Writes(kind, k, commit) ==
  CASE kind \in {"accept", "attempt", "terminal"} -> << <<"execution", k>> >>
    [] kind = "reserve" -> << <<"call", k>> >>
    [] kind = "commit" ->
         (IF commit.memory = None THEN << >>
          ELSE << <<"memory", EntityOf(k)>> >>)
         \o (IF commit.advances THEN << <<"head", EntityOf(k)>> >> ELSE << >>)
         \o << <<"event", k>>, <<"commit", k>>, <<"execution", k>> >>
    [] OTHER -> << <<"event", k>> >>

Rollback(c) ==
  /\ tx' = [tx EXCEPT ![c] = Idle]
  /\ UNCHANGED <<tables, ops, granted, contested>>

(* The SELECTs of a method, and what it decides on them.  An attempt that  *)
(* is recorded already is not written again, nor is the status.            *)
Read(c) ==
  LET kind == tx[c].kind
      k == tx[c].key
  IN
  /\ tx[c].pc = "begun"
  /\ kind # "lease"
  /\ \/ /\ Refused(kind, k) \/ kind = "attempt"
        /\ Rollback(c)
     \/ /\ ~Refused(kind, k)
        /\ tx' = [tx EXCEPT ![c].pc = "write",
                            ![c].todo = Writes(kind, k, tx[c].commit)]
        /\ UNCHANGED <<tables, ops, granted, contested>>

Free(c, row) == \A d \in Client \ {c} : row \notin tx[d].holds

(* leaseOutbox(): one statement locks the rows that are due, skipping the  *)
(* locked ones, and looks at them under the lock.  A lease may be expired  *)
(* at any time.                                                            *)
LeaseOutbox(c) ==
  LET k == tx[c].key IN
  /\ tx[c].pc = "begun"
  /\ tx[c].kind = "lease"
  /\ IF Refused("lease", k) \/ ~Free(c, <<"event", k>>) THEN Rollback(c)
     ELSE /\ tx' = [tx EXCEPT ![c].pc = "write",
                              ![c].holds = {<<"event", k>>}]
          /\ UNCHANGED <<tables, ops, granted, contested>>

(* Mutant of Stale: the head is updated whatever revision it is at. *)
StaleAnyHead(c, row) ==
  LET k == tx[c].key
      e == EntityOf(k)
  IN
  CASE row[1] = "memory" -> memory[e] # tx[c].commit.memory
    [] row[1] = "commit" -> commitRow[k] # None
    [] row[1] = "call" -> call[k]
    [] OTHER -> FALSE

(* Mutant of Stale: the memory record is updated at any version. *)
StaleAnyMemory(c, row) ==
  LET k == tx[c].key
      e == EntityOf(k)
  IN
  CASE row[1] = "head" -> Len(history[e]) # Request[k].expectedRevision
    [] row[1] = "commit" -> commitRow[k] # None
    [] row[1] = "call" -> call[k]
    [] OTHER -> FALSE

(* Mutant of Stale: commit rows are not unique. *)
StaleAnyCommit(c, row) ==
  LET k == tx[c].key
      e == EntityOf(k)
  IN
  CASE row[1] = "head" -> Len(history[e]) # Request[k].expectedRevision
    [] row[1] = "memory" -> memory[e] # tx[c].commit.memory
    [] row[1] = "call" -> call[k]
    [] OTHER -> FALSE

(* Mutant of Stale: reservations are not unique. *)
StaleAnyCall(c, row) ==
  LET k == tx[c].key
      e == EntityOf(k)
  IN
  CASE row[1] = "head" -> Len(history[e]) # Request[k].expectedRevision
    [] row[1] = "memory" -> memory[e] # tx[c].commit.memory
    [] row[1] = "commit" -> commitRow[k] # None
    [] OTHER -> FALSE

(* What a conditional write finds under the lock: #casStateHead() compares *)
(* the revision, #writeMemoryRecord() the version (an INSERT the unique    *)
(* index); the rows of a commit and a reservation are unique.  Updates of  *)
(* executions and of the outbox are not conditional.                       *)
Stale(c, row) ==
  LET k == tx[c].key
      e == EntityOf(k)
  IN
  CASE row[1] = "head" -> Len(history[e]) # Request[k].expectedRevision
    [] row[1] = "memory" -> memory[e] # tx[c].commit.memory
    [] row[1] = "commit" -> commitRow[k] # None
    [] row[1] = "call" -> call[k]
    [] OTHER -> FALSE

Write(c) ==
  LET row == Head(tx[c].todo) IN
  /\ tx[c].pc = "write"
  /\ tx[c].todo # << >>
  /\ Free(c, row)
  /\ IF Stale(c, row) THEN Rollback(c)
     ELSE /\ tx' = [tx EXCEPT ![c].todo = Tail(@), ![c].holds = @ \cup {row}]
          /\ UNCHANGED <<tables, ops, granted, contested>>

(* A lock timeout, a statement timeout, a lost connection. *)
Abort(c) ==
  /\ tx[c].pc = "write"
  /\ Rollback(c)

(* INSERT ... ON CONFLICT DO NOTHING leaves an existing execution alone.   *)
Status(kind, old) ==
  CASE kind = "accept" -> IF old = "absent" THEN "running" ELSE old
    [] kind = "attempt" -> "running"
    [] kind = "terminal" -> "failed"
    [] kind = "commit" -> "committed"
    [] OTHER -> old

Delivery(kind, old) ==
  CASE kind \in {"commit", "retry", "redrive"} -> "pending"
    [] kind = "lease" -> "claimed"
    [] kind = "delivered" -> "delivered"
    [] kind = "giveUp" -> "failed"
    [] OTHER -> old

(* COMMIT: what was written becomes visible at once. *)
Publish(c) ==
  LET kind == tx[c].kind
      k == tx[c].key
      e == EntityOf(k)
      commit == tx[c].commit
      first == kind \in Insert /\ (kind = "accept" => execution[k] = "absent")
  IN
  /\ tx[c].pc = "write"
  /\ tx[c].todo = << >>
  /\ execution' = [execution EXCEPT ![k] = Status(kind, @)]
  /\ outbox' = [outbox EXCEPT ![k] = Delivery(kind, @)]
  /\ call' = [call EXCEPT ![k] = @ \/ kind = "reserve"]
  /\ commitRow' = IF kind = "commit" THEN [commitRow EXCEPT ![k] = commit]
                  ELSE commitRow
  /\ history' = IF commit.advances THEN [history EXCEPT ![e] = Append(@, k)]
                ELSE history
  /\ memory' = IF commit.memory # None THEN [memory EXCEPT ![e] = @ + 1]
               ELSE memory
  /\ granted' = IF first THEN [granted EXCEPT ![<<kind, k>>] = @ + 1] ELSE granted
  /\ tx' = [tx EXCEPT ![c] = Idle]
  /\ UNCHANGED <<ops, contested>>

-----------------------------------------------------------------------------

Next ==
  \E c \in Client :
    \/ \E kind \in Kind, k \in Key : Begin(c, kind, k)
    \/ Read(c) \/ LeaseOutbox(c) \/ Write(c) \/ Abort(c) \/ Publish(c)

Spec == Init /\ [][Next]_vars

-----------------------------------------------------------------------------
(***************************************************************************)
(* Properties.                                                             *)
(***************************************************************************)

(* The revisions of an entity form one line, each made by an execution     *)
(* that expected the one before: "concurrent writers lose with             *)
(* CONFLICT_STATE_REVISION and roll back cleanly under READ COMMITTED".    *)
LinearHistory ==
  \A e \in Entity : \A i \in 1 .. Len(history[e]) :
    /\ commitRow[history[e][i]] # None
    /\ Request[history[e][i]] = [entity |-> e, expectedRevision |-> i - 1]

(* Two commits never write the memory record from the same version, and    *)
(* the record's version counts the commits that wrote it.                  *)
NoLostMemoryUpdate ==
  \A e \in Entity :
    LET writers == {k \in Key : EntityOf(k) = e /\ commitRow[k] # None
                                  /\ commitRow[k].memory # None}
    IN {commitRow[k].memory : k \in writers} = 0 .. memory[e] - 1
       /\ Cardinality(writers) = memory[e]

(* No commit overwrites another: of the state, and of the memory.          *)
NoLostUpdate == TypeOK /\ LinearHistory /\ NoLostMemoryUpdate

(* One caller is told that the execution is new, one that the model call   *)
(* is its own to send, one that it committed, although accept() alone      *)
(* tests and inserts in one statement.                                     *)
GrantedOnce == \A i \in Insert \X Key : granted[i] <= 1

(* The effects of a commit are there as a whole or not at all: the commit  *)
(* row, its revision and its event.                                        *)
CommitIsWhole ==
  \A k \in Key :
    /\ commitRow[k] # None <=> outbox[k] # "absent"
    /\ (\E i \in DOMAIN history[EntityOf(k)] : history[EntityOf(k)][i] = k)
         <=> commitRow[k] # None /\ commitRow[k].advances
    /\ k \notin contested => (commitRow[k] # None <=> execution[k] = "committed")

(* As long as no two transactions on it were open at once, a terminal      *)
(* execution is never changed again, and a delivered event stays so.       *)
UncontestedIsFinal ==
  [][\A k \in Key \ contested' :
       /\ execution[k] \in Terminal => execution'[k] = execution[k]
       /\ outbox[k] = "delivered" => outbox'[k] = "delivered"]_vars

(* "A terminal execution cannot be mutated" (assertMutableExecution()),    *)
(* "concurrency safety comes from explicit conditional writes, not from    *)
(* the isolation level" (ADR-0033, section 4).                             *)
TerminalIsFinal ==
  [][\A k \in Key :
       execution[k] \in Terminal => execution'[k] = execution[k]]_vars
=============================================================================
