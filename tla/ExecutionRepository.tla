------------------------ MODULE ExecutionRepository ------------------------
(***************************************************************************)
(* The execution methods of the aggregate repository (packages/core,       *)
(* repository.ts, as packages/adapter-memory implements it; the SQLite     *)
(* adapter runs each method in one BEGIN IMMEDIATE transaction).  A method *)
(* either throws and changes nothing or publishes its whole change at once,*)
(* so each is a pair of operators here: the error it throws in the current *)
(* state (None if it does not throw) and the change it makes.              *)
(*                                                                         *)
(* One namespace: an execution id is derived from the namespace and the    *)
(* request key alone, so an execution is named by its request key.  One    *)
(* memory identity and at most one domain event per execution.             *)
(***************************************************************************)
EXTENDS OutboxStore, Sequences, FiniteSets

CONSTANTS
  Entity,     \* state streams
  Request,    \* what the request fingerprint covers
  Caller,     \* calls of execute(), each with model-call ids of its own
  Instant,    \* clock readings
  Response,   \* what a model answers: the classes below that may occur
  MaxRepair,  \* largest repair budget of a policy
  None

(* What the response pipeline and the token budget tell apart. *)
ResponseClass == {"valid", "repairable", "unrepairable", "oversized"}

VARIABLES
  execution,  \* execution rows
  attempt,    \* attempt rows of each execution
  modelCall,  \* model-call rows of each execution, by logical call key
  history,    \* for each entity the executions behind revisions 1, 2, ...
  memory      \* record version of the entity's memory record, 0 if none
              \* and outbox, of OutboxStore

repository == <<execution, attempt, modelCall, history, memory, outbox>>

Terminal == {"committed", "blocked", "conflicted", "cancelled", "failed"}

Stage == {"loading", "calling-model", "validating", "interpreting",
          "evaluating", "preparing-commit"}

Status == {"absent", "accepted"} \cup Stage \cup Terminal

Error == {"CONFLICT_STATE_REVISION", "CONFLICT_MEMORY_VERSION", "CANCELLED",
          "TIMEOUT", "EVALUATION_BLOCKED", "MODEL_UNAVAILABLE",
          "RESUME_EVIDENCE_UNAVAILABLE", "MODEL_INVALID_RESPONSE",
          "BUDGET_EXCEEDED", "DOMAIN_INVALID_RESULT",
          "PERSISTENCE_CORRUPTION", "INVALID_REQUEST", "OPERATOR_DISCHARGE"}

(* 0 stands for 'model:0' (primary), n for 'repair:n'. *)
CallKey == 0 .. MaxRepair

Attempt == [number : Nat \ {0}, stage : Stage, at : Instant]

CallRecord ==
  [status : {"none", "reserved", "succeeded", "failed", "ambiguous"},
   id : Caller \cup {None},
   response : Response \cup {None},
   error : Error \cup {None}]

NoCall == [status |-> "none", id |-> None, response |-> None, error |-> None]

(* The content of a prepared commit that its operation digest covers:      *)
(* whether it advances the state, the version of the memory record it read *)
(* (None if it does not write it), the id a created record gets, whether   *)
(* it emits an event, and committedAt.                                     *)
Prepared ==
  [advances : BOOLEAN,
   memory : Nat \cup {None},
   memoryId : Caller \cup {None},
   event : BOOLEAN,
   at : Instant]

NoCommit ==
  [advances |-> FALSE, memory |-> None, memoryId |-> None, event |-> FALSE,
   at |-> None]

ASSUME RepositoryAssumption ==
  /\ Response \subseteq ResponseClass
  /\ Request \subseteq [entity : Entity, expectedRevision : Nat]
  /\ MaxRepair \in Nat
  /\ None \notin Request /\ None \notin Caller /\ None \notin Instant
  /\ None \notin Key /\ None \notin Nat /\ None \notin ResponseClass \cup Error

ExecutionRecord ==
  [status : Status,
   request : Request \cup {None},
   readable : BOOLEAN,
   error : Error \cup {None},
   updatedAt : Instant \cup {None},
   commit : Prepared \cup {NoCommit}]

NoExecution ==
  [status |-> "absent", request |-> None, readable |-> FALSE,
   error |-> None, updatedAt |-> None, commit |-> NoCommit]

RepositoryTypeOK ==
  /\ execution \in [Key -> ExecutionRecord]
  /\ attempt \in [Key -> SUBSET Attempt]
  /\ modelCall \in [Key -> [CallKey -> CallRecord]]
  /\ history \in [Entity -> Seq(Key)]
  /\ memory \in [Entity -> Nat]
  /\ OutboxTypeOK

RepositoryInit ==
  /\ execution = [k \in Key |-> NoExecution]
  /\ attempt = [k \in Key |-> {}]
  /\ modelCall = [k \in Key |-> [c \in CallKey |-> NoCall]]
  /\ history = [e \in Entity |-> << >>]
  /\ memory = [e \in Entity |-> 0]
  /\ OutboxInit

-----------------------------------------------------------------------------

Exists(k) == execution[k].status # "absent"

Mutable(k) == Exists(k) /\ execution[k].status \notin Terminal

(* Mutant of MutableError: a terminal execution may be written to. *)
MutableErrorExists(k) == IF ~Exists(k) THEN "INVALID_REQUEST" ELSE None

(* The error of a write to an execution that must not be terminal. *)
MutableError(k) ==
  IF ~Exists(k) THEN "INVALID_REQUEST"
  ELSE IF Mutable(k) THEN None ELSE "PERSISTENCE_CORRUPTION"

Revision(e) == Len(history[e])

(* accept(), when the request key is new. *)
Accept(k, request, readable, at) ==
  /\ execution' = [execution EXCEPT ![k] =
                     [status |-> "accepted", request |-> request,
                      readable |-> readable, error |-> None,
                      updatedAt |-> at, commit |-> NoCommit]]
  /\ UNCHANGED <<attempt, modelCall, history, memory, outbox>>

(* appendAttempt(): keyed by attempt number and stage.  Repeating a row is *)
(* idempotent and leaves the execution's status alone.                     *)
SameAttempt(k, a) == {b \in attempt[k] : b.number = a.number /\ b.stage = a.stage}

AttemptError(k, a) ==
  IF MutableError(k) # None THEN MutableError(k)
  ELSE IF SameAttempt(k, a) \subseteq {a} THEN None
  ELSE "PERSISTENCE_CORRUPTION"

AppendAttempt(k, a) ==
  /\ attempt' = [attempt EXCEPT ![k] = @ \cup {a}]
  /\ execution' = IF SameAttempt(k, a) = {}
                  THEN [execution EXCEPT ![k].status = a.stage,
                                         ![k].updatedAt = a.at]
                  ELSE execution
  /\ UNCHANGED <<modelCall, history, memory, outbox>>

(* reserveModelCall(): a logical key is reserved once; another reservation *)
(* of it has another model-call id and is divergent.                       *)
(* Mutant of ReserveError: a reservation of another call is joined. *)
ReserveErrorShared(k, c, id) == MutableError(k)

ReserveError(k, c, id) ==
  IF MutableError(k) # None THEN MutableError(k)
  ELSE IF modelCall[k][c].status = "none" \/ modelCall[k][c].id = id THEN None
  ELSE "PERSISTENCE_CORRUPTION"

ReserveModelCall(k, c, id) ==
  /\ modelCall' = IF modelCall[k][c].status = "none"
                  THEN [modelCall EXCEPT ![k][c] =
                          [NoCall EXCEPT !.status = "reserved", !.id = id]]
                  ELSE modelCall
  /\ UNCHANGED <<execution, attempt, history, memory, outbox>>

(* completeModelCall() and failModelCall(): by model-call id, whether or   *)
(* not the execution is still mutable.                                     *)
CompleteError(k, c, id, response) ==
  LET call == modelCall[k][c] IN
  IF call.id # id THEN "INVALID_REQUEST"
  ELSE IF \/ call.status = "reserved"
          \/ call.status = "succeeded" /\ call.response = response
  THEN None
  ELSE "PERSISTENCE_CORRUPTION"

CompleteModelCall(k, c, response) ==
  /\ modelCall' = [modelCall EXCEPT ![k][c].status = "succeeded",
                                    ![k][c].response = response]
  /\ UNCHANGED <<execution, attempt, history, memory, outbox>>

FailError(k, c, id, error, ambiguous) ==
  LET call == modelCall[k][c]
      status == IF ambiguous THEN "ambiguous" ELSE "failed"
  IN
  IF call.id # id THEN "INVALID_REQUEST"
  ELSE IF \/ call.status = "reserved"
          \/ call.status = status /\ call.error = error
  THEN None
  ELSE "PERSISTENCE_CORRUPTION"

FailModelCall(k, c, error, ambiguous) ==
  /\ modelCall' = [modelCall EXCEPT
                     ![k][c].status = IF ambiguous THEN "ambiguous" ELSE "failed",
                     ![k][c].error = error]
  /\ UNCHANGED <<execution, attempt, history, memory, outbox>>

(* loadContext(): the state head must be where the request expects it. *)
LoadError(request) ==
  IF Revision(request.entity) # request.expectedRevision
  THEN "CONFLICT_STATE_REVISION" ELSE None

(* loadResumeState(): the last attempt number. *)
LastAttempt(k) ==
  CHOOSE n \in {0} \cup {a.number : a \in attempt[k]} :
    \A a \in attempt[k] : a.number <= n

(* The state head must be where the request expects it, and the memory     *)
(* record where the prepared write read it (created, or at that version).  *)
StateErrorUnchecked(k) == None  \* Mutant of StateError: no compare-and-swap

StateError(k) ==
  LET request == execution[k].request IN
  IF Revision(request.entity) # request.expectedRevision
  THEN "CONFLICT_STATE_REVISION" ELSE None

MemoryErrorUnchecked(k, p) == None  \* Mutant of MemoryError

MemoryError(k, p) ==
  IF p.memory = None \/ p.memory = memory[execution[k].request.entity] THEN None
  ELSE IF p.memory = 0 THEN "PERSISTENCE_CORRUPTION"
  ELSE "CONFLICT_MEMORY_VERSION"

(* commit(): the checks in the order the method makes them.  A commit that *)
(* repeats the stored one is idempotent.                                   *)
CommitError(k, p) ==
  LET commit == execution[k].commit IN
  IF ~Exists(k) THEN "INVALID_REQUEST"
  ELSE IF commit # NoCommit THEN
    IF commit = p THEN None ELSE "PERSISTENCE_CORRUPTION"
  ELSE IF ~Mutable(k) THEN "PERSISTENCE_CORRUPTION"
  ELSE IF StateError(k) # None THEN StateError(k)
  ELSE MemoryError(k, p)

Commit(k, p) ==
  LET entity == execution[k].request.entity IN
  /\ execution[k].commit = NoCommit
  /\ execution' = [execution EXCEPT ![k].status = "committed",
                                    ![k].updatedAt = p.at,
                                    ![k].commit = p]
  /\ history' = IF p.advances
                THEN [history EXCEPT ![entity] = Append(@, k)]
                ELSE history
  /\ memory' = IF p.memory # None
               THEN [memory EXCEPT ![entity] = @ + 1]
               ELSE memory
  /\ Publish(IF p.event THEN {k} ELSE {})
  /\ UNCHANGED <<attempt, modelCall>>

(* markTerminal(): repeating the same outcome is idempotent, any other on  *)
(* a terminal execution is refused.                                        *)
(* Mutant of TerminalError: the last outcome recorded wins. *)
TerminalErrorLastWins(k, status, error, at) ==
  IF ~Exists(k) THEN "INVALID_REQUEST" ELSE None

TerminalError(k, status, error, at) ==
  IF ~Exists(k) THEN "INVALID_REQUEST"
  ELSE IF Mutable(k) THEN None
  ELSE IF /\ execution[k].status = status
          /\ execution[k].error = error
          /\ execution[k].updatedAt = at
  THEN None
  ELSE "PERSISTENCE_CORRUPTION"

MarkTerminal(k, status, error, at) ==
  /\ execution' = [execution EXCEPT ![k].status = status,
                                    ![k].error = error,
                                    ![k].updatedAt = at]
  /\ UNCHANGED <<attempt, modelCall, history, memory, outbox>>

-----------------------------------------------------------------------------
(***************************************************************************)
(* Properties of the repository, whoever uses it.                          *)
(***************************************************************************)

(* A terminal execution is never changed again: not by a slower call on    *)
(* the same key, not by a late discharge (assertMutableExecution).         *)
TerminalIsFinal ==
  [][\A k \in Key :
       execution[k].status \in Terminal => execution'[k] = execution[k]]_repository

(* The revisions of an entity form one line: the execution behind revision *)
(* i + 1 is committed and expected revision i, so no state is overwritten  *)
(* by a call that had not read it ("two writers on one state revision      *)
(* yield exactly one commit").                                             *)
LinearHistory ==
  \A e \in Entity : \A i \in 1 .. Len(history[e]) :
    LET record == execution[history[e][i]] IN
    /\ record.status = "committed"
    /\ record.request = [entity |-> e, expectedRevision |-> i - 1]

(* Two commits never write the memory record from the same version, not    *)
(* even those that leave the revision where it was and so pass the state   *)
(* check together.                                                         *)
NoLostMemoryUpdate ==
  \A k1, k2 \in Key :
    LET c1 == execution[k1].commit
        c2 == execution[k2].commit
    IN
    /\ k1 # k2
    /\ c1 # NoCommit /\ c2 # NoCommit
    /\ execution[k1].request.entity = execution[k2].request.entity
    /\ c1.memory # None
    => c1.memory # c2.memory

(* State and events come from commits alone: an execution that is not      *)
(* committed has advanced no history and published nothing ("invalid or    *)
(* blocked candidates cannot mutate canonical data").                      *)
NoEffectWithoutCommit ==
  \A k \in Key :
    LET commit == execution[k].commit IN
    /\ commit # NoCommit <=> execution[k].status = "committed"
    /\ (\E e \in Entity : \E i \in 1 .. Len(history[e]) : history[e][i] = k)
         <=> commit # NoCommit /\ commit.advances
    /\ outbox[k].status # "absent" <=> commit # NoCommit /\ commit.event

(* What the executions claim and what they have changed agree.             *)
HistoryIsWhole == LinearHistory /\ NoEffectWithoutCommit

=============================================================================
