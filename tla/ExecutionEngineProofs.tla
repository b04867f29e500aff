----------------------- MODULE ExecutionEngineProofs -----------------------
(***************************************************************************)
(* Proofs about ExecutionEngine and OutboxDrain, each alone and both over   *)
(* one outbox (EngineWithDrains), for every set of callers, keys, entities, *)
(* requests, policies, instants and drains, every repair budget, and any    *)
(* number of crashes, discharges and redrives.                              *)
(*   - What the methods of ExecutionRepository preserve, whoever calls them *)
(*     and in whatever order.                                               *)
(*   - execute() and the operator's discharge change the repository by      *)
(*     these methods only; what follows for its callers.                    *)
(*   - The drains, whatever commits.                                        *)
(*   - Together: each side's steps are what the other takes them for.       *)
(***************************************************************************)
EXTENDS EngineWithDrains, TLAPS

-----------------------------------------------------------------------------
(* First layer: the methods of the repository.                              *)
-----------------------------------------------------------------------------

(* Nothing that is prepared is mistaken for no commit. *)
LEMMA PreparedIsCommit == NoCommit \notin Prepared
BY RepositoryAssumption DEF NoCommit, Prepared

(* The methods that write to executions, with an argument they accept. *)
Accepts(k) ==
  \E request \in Request, readable \in BOOLEAN, at \in Instant :
    ~Exists(k) /\ Accept(k, request, readable, at)

AppendsAttempt(k) ==
  \E a \in Attempt : AttemptError(k, a) = None /\ AppendAttempt(k, a)

Reserves(k) ==
  \E c \in CallKey, id \in Caller :
    ReserveError(k, c, id) = None /\ ReserveModelCall(k, c, id)

Completes(k) ==
  \E c \in CallKey, id \in Caller, response \in Response :
    CompleteError(k, c, id, response) = None /\ CompleteModelCall(k, c, response)

Fails(k) ==
  \E c \in CallKey, id \in Caller, error \in Error :
    /\ FailError(k, c, id, error, FALSE) = None
    /\ FailModelCall(k, c, error, FALSE)

Commits(k) ==
  \E p \in Prepared : CommitError(k, p) = None /\ Commit(k, p)

MarksTerminal(k) ==
  \E status \in Terminal \ {"committed"}, error \in Error, at \in Instant :
    TerminalError(k, status, error, at) = None /\ MarkTerminal(k, status, error, at)

(* All but the commit. *)
PlainMethod(k) ==
  \/ Accepts(k) \/ AppendsAttempt(k) \/ MarksTerminal(k)
  \/ Reserves(k) \/ Completes(k) \/ Fails(k)

Method(k) == PlainMethod(k) \/ Commits(k)

RepositoryStep == (\E k \in Key : Method(k)) \/ UNCHANGED repository

(* The attempt numbers of an execution have a largest one. *)
LastAttemptExists ==
  \A k \in Key : \E n \in {0} \cup {a.number : a \in attempt[k]} :
    \A a \in attempt[k] : a.number <= n

RequestKept == \A k \in Key : Exists(k) => execution[k].request \in Request

RepositoryOK == RepositoryTypeOK /\ LastAttemptExists /\ RequestKept

LEMMA LastAttemptType ==
  ASSUME RepositoryOK, NEW k \in Key
  PROVE  LastAttempt(k) \in Nat
<1>1. PICK n \in {0} \cup {a.number : a \in attempt[k]} :
        \A a \in attempt[k] : a.number <= n
  BY DEF RepositoryOK, LastAttemptExists
<1>2. LastAttempt(k) \in {0} \cup {a.number : a \in attempt[k]}
  BY <1>1 DEF LastAttempt
<1> QED
  BY <1>2 DEF RepositoryOK, RepositoryTypeOK, Attempt

(* What each method does to the execution it is called for. *)
LEMMA AcceptType ==
  ASSUME RepositoryTypeOK, NEW k \in Key, Accepts(k)
  PROVE  /\ execution' \in [Key -> ExecutionRecord]
         /\ execution'[k].request \in Request
         /\ execution'[k].status = "accepted"
         /\ execution'[k].commit = NoCommit
         /\ \A j \in Key \ {k} : execution'[j] = execution[j]
<1>1. PICK request \in Request, readable \in BOOLEAN, at \in Instant :
        Accept(k, request, readable, at)
  BY DEF Accepts
<1> DEFINE record == [status |-> "accepted", request |-> request,
                      readable |-> readable, error |-> None,
                      updatedAt |-> at, commit |-> NoCommit]
<1>2. record \in ExecutionRecord
  BY DEF ExecutionRecord, Status
<1>3. execution' = [execution EXCEPT ![k] = record]
  BY <1>1 DEF Accept
<1> QED
  BY <1>2, <1>3 DEF RepositoryTypeOK

LEMMA AppendType ==
  ASSUME RepositoryTypeOK, NEW k \in Key, AppendsAttempt(k)
  PROVE  /\ execution' \in [Key -> ExecutionRecord]
         /\ attempt' \in [Key -> SUBSET Attempt]
         /\ Mutable(k) /\ Mutable(k)'
         /\ execution'[k].request = execution[k].request
         /\ execution'[k].commit = execution[k].commit
         /\ \A j \in Key \ {k} : execution'[j] = execution[j]
<1>1. PICK a \in Attempt : AttemptError(k, a) = None /\ AppendAttempt(k, a)
  BY DEF AppendsAttempt
<1>2. Mutable(k)
  BY <1>1, RepositoryAssumption
     DEF AttemptError, MutableError, Error
<1>3. attempt' \in [Key -> SUBSET Attempt]
  BY <1>1 DEF AppendAttempt, RepositoryTypeOK
<1> DEFINE record == [execution[k] EXCEPT !.status = a.stage, !.updatedAt = a.at]
<1>4. record \in ExecutionRecord
  BY DEF RepositoryTypeOK, ExecutionRecord, Status, Attempt
<1>5. \/ execution' = execution
      \/ execution' = [execution EXCEPT ![k] = record]
  BY <1>1 DEF AppendAttempt, RepositoryTypeOK
<1>6. a.stage \in Stage /\ Stage \cap Terminal = {} /\ "absent" \notin Stage
  BY DEF Attempt, Stage, Terminal
<1>7. execution' \in [Key -> ExecutionRecord]
  BY <1>4, <1>5 DEF RepositoryTypeOK
<1>8. /\ record.request = execution[k].request
      /\ record.commit = execution[k].commit
      /\ record.status = a.stage
  BY DEF RepositoryTypeOK, ExecutionRecord
<1> QED
  BY <1>2, <1>3, <1>5, <1>6, <1>7, <1>8 DEF RepositoryTypeOK, Mutable, Exists

LEMMA CommitType ==
  ASSUME RepositoryTypeOK, RequestKept, NEW k \in Key,
         NEW p \in Prepared, CommitError(k, p) = None, Commit(k, p)
  PROVE  /\ execution' \in [Key -> ExecutionRecord]
         /\ Mutable(k)
         /\ StateError(k) = None /\ MemoryError(k, p) = None
         /\ execution[k].request \in Request
         /\ execution'[k].request = execution[k].request
         /\ execution'[k].status = "committed"
         /\ execution'[k].commit = p
         /\ \A j \in Key \ {k} : execution'[j] = execution[j]
<1> DEFINE record == [execution[k] EXCEPT !.status = "committed",
                                          !.updatedAt = p.at, !.commit = p]
<1>1. execution[k].commit = NoCommit
  BY DEF Commit
<1>2. Mutable(k) /\ StateError(k) = None /\ MemoryError(k, p) = None
  BY <1>1, RepositoryAssumption DEF CommitError, Error
<1>3. execution[k].request \in Request
  BY <1>2 DEF Mutable, RequestKept
<1>4. record \in ExecutionRecord
  <2>1. p.at \in Instant
    BY DEF Prepared
  <2>2. "committed" \in Status /\ execution[k] \in ExecutionRecord
    BY DEF RepositoryTypeOK, Status, Terminal
  <2> QED
    BY <2>1, <2>2 DEF ExecutionRecord
<1>5. execution' = [execution EXCEPT ![k] = record]
  BY DEF Commit
<1>6. /\ record.request = execution[k].request
      /\ record.status = "committed"
      /\ record.commit = p
  BY DEF RepositoryTypeOK, ExecutionRecord
<1> QED
  BY <1>2, <1>3, <1>4, <1>5, <1>6 DEF RepositoryTypeOK

(* Repeating the outcome of a terminal execution leaves it as it is. *)
LEMMA TerminalType ==
  ASSUME RepositoryTypeOK, NEW k \in Key,
         NEW status \in Terminal, NEW error \in Error, NEW at \in Instant,
         TerminalError(k, status, error, at) = None,
         MarkTerminal(k, status, error, at)
  PROVE  /\ execution' \in [Key -> ExecutionRecord]
         /\ Exists(k)
         /\ ~Mutable(k) => execution' = execution
         /\ execution'[k].request = execution[k].request
         /\ execution'[k].commit = execution[k].commit
         /\ execution'[k].status = status
         /\ \A j \in Key \ {k} : execution'[j] = execution[j]
<1> DEFINE record == [execution[k] EXCEPT !.status = status, !.error = error,
                                          !.updatedAt = at]
<1>1. Exists(k)
  BY RepositoryAssumption DEF TerminalError, Error
<1>2. record \in ExecutionRecord
  <2>1. status \in Status /\ execution[k] \in ExecutionRecord
    BY DEF RepositoryTypeOK, Status
  <2> QED
    BY <2>1 DEF ExecutionRecord
<1>3. execution' = [execution EXCEPT ![k] = record]
  BY DEF MarkTerminal
<1>4. /\ record.request = execution[k].request
      /\ record.commit = execution[k].commit
      /\ record.status = status
  BY DEF RepositoryTypeOK, ExecutionRecord
<1>5. ASSUME ~Mutable(k) PROVE execution' = execution
  <2>1. /\ execution[k].status = status
        /\ execution[k].error = error
        /\ execution[k].updatedAt = at
    BY <1>1, <1>5, RepositoryAssumption DEF TerminalError, Error
  <2>2. record = execution[k]
    BY <2>1 DEF RepositoryTypeOK, ExecutionRecord
  <2> QED
    BY <1>3, <2>2 DEF RepositoryTypeOK
<1> QED
  BY <1>1, <1>2, <1>3, <1>4, <1>5 DEF RepositoryTypeOK

(* A recorded response stays what it is. *)
LEMMA CallType ==
  ASSUME RepositoryTypeOK, NEW k \in Key,
         Reserves(k) \/ Completes(k) \/ Fails(k)
  PROVE  /\ modelCall' \in [Key -> [CallKey -> CallRecord]]
         /\ UNCHANGED <<execution, attempt, history, memory, outbox>>
         /\ \A j \in Key, c \in CallKey :
              modelCall[j][c].status = "succeeded"
                => modelCall'[j][c] = modelCall[j][c]
<1> USE DEF RepositoryTypeOK
<1> DEFINE Written(c, record) ==
      modelCall' = [modelCall EXCEPT ![k] = [@ EXCEPT ![c] = record]]
<1>1. ASSUME Reserves(k)
      PROVE  \/ modelCall' = modelCall
             \/ \E c \in CallKey, record \in CallRecord :
                  modelCall[k][c].status # "succeeded" /\ Written(c, record)
  <2>1. PICK c \in CallKey, id \in Caller : ReserveModelCall(k, c, id)
    BY <1>1 DEF Reserves
  <2> DEFINE record == [NoCall EXCEPT !.status = "reserved", !.id = id]
  <2>2. record \in CallRecord
    BY DEF NoCall, CallRecord
  <2>3. \/ modelCall' = modelCall
        \/ modelCall[k][c].status = "none" /\ Written(c, record)
    BY <2>1 DEF ReserveModelCall
  <2> QED
    BY <2>2, <2>3
<1>2. ASSUME Completes(k)
      PROVE  \/ modelCall' = modelCall
             \/ \E c \in CallKey, record \in CallRecord :
                  modelCall[k][c].status # "succeeded" /\ Written(c, record)
  <2>1. PICK c \in CallKey, id \in Caller, response \in Response :
          /\ CompleteError(k, c, id, response) = None
          /\ CompleteModelCall(k, c, response)
    BY <1>2 DEF Completes
  <2> DEFINE record == [modelCall[k][c] EXCEPT !.status = "succeeded",
                                               !.response = response]
  <2>2. record \in CallRecord
    <3>1. modelCall[k][c] \in CallRecord
      OBVIOUS
    <3> QED
      BY <3>1 DEF CallRecord
  <2>3. Written(c, record)
    BY <2>1 DEF CompleteModelCall
  <2>4. CASE modelCall[k][c].status = "succeeded"
    <3>1. modelCall[k][c].response = response
      BY <2>1, <2>4, RepositoryAssumption DEF CompleteError, Error
    <3>2. record = modelCall[k][c]
      BY <2>4, <3>1 DEF CallRecord
    <3> QED
      BY <2>3, <3>2
  <2> QED
    BY <2>2, <2>3, <2>4
<1>3. ASSUME Fails(k)
      PROVE  \/ modelCall' = modelCall
             \/ \E c \in CallKey, record \in CallRecord :
                  modelCall[k][c].status # "succeeded" /\ Written(c, record)
  <2>1. PICK c \in CallKey, id \in Caller, error \in Error :
          /\ FailError(k, c, id, error, FALSE) = None
          /\ FailModelCall(k, c, error, FALSE)
    BY <1>3 DEF Fails
  <2> DEFINE record == [modelCall[k][c] EXCEPT !.status = "failed", !.error = error]
  <2>2. record \in CallRecord
    <3>1. modelCall[k][c] \in CallRecord
      OBVIOUS
    <3> QED
      BY <3>1 DEF CallRecord
  <2>3. Written(c, record)
    BY <2>1 DEF FailModelCall
  <2>4. modelCall[k][c].status # "succeeded"
    BY <2>1, RepositoryAssumption DEF FailError, Error
  <2> QED
    BY <2>2, <2>3, <2>4
<1>4. UNCHANGED <<execution, attempt, history, memory, outbox>>
  BY DEF Reserves, Completes, Fails, ReserveModelCall, CompleteModelCall, FailModelCall
<1>5. \/ modelCall' = modelCall
      \/ \E c \in CallKey, record \in CallRecord :
           modelCall[k][c].status # "succeeded" /\ Written(c, record)
  BY <1>1, <1>2, <1>3
<1>6. CASE modelCall' = modelCall
  BY <1>4, <1>6
<1>7. ASSUME NEW c \in CallKey, NEW record \in CallRecord,
             modelCall[k][c].status # "succeeded", Written(c, record)
      PROVE  /\ modelCall' \in [Key -> [CallKey -> CallRecord]]
             /\ \A j \in Key, b \in CallKey :
                  modelCall[j][b].status = "succeeded"
                    => modelCall'[j][b] = modelCall[j][b]
  BY <1>7
<1> QED
  BY <1>4, <1>5, <1>6, <1>7

-----------------------------------------------------------------------------

LEMMA InitOK == RepositoryInit => RepositoryOK
<1> SUFFICES ASSUME RepositoryInit PROVE RepositoryOK
  OBVIOUS
<1> USE DEF RepositoryInit
<1>1. NoExecution \in ExecutionRecord
  BY DEF NoExecution, ExecutionRecord, Status
<1>2. NoCall \in CallRecord
  BY DEF NoCall, CallRecord
<1>3. OutboxTypeOK
  BY DEF OutboxInit, OutboxTypeOK, NoRecord,
         OutboxRecord, OutboxStatus
<1>4. RepositoryTypeOK
  BY <1>1, <1>2, <1>3 DEF RepositoryTypeOK
<1>5. LastAttemptExists
  BY DEF LastAttemptExists
<1>6. RequestKept
  BY DEF RequestKept, Exists, NoExecution
<1> QED
  BY <1>4, <1>5, <1>6 DEF RepositoryOK

(* Every method keeps the repository well-typed. *)
LEMMA StepOK == RepositoryOK /\ RepositoryStep => RepositoryOK'
<1> SUFFICES ASSUME RepositoryOK, RepositoryStep PROVE RepositoryOK'
  OBVIOUS
<1> USE DEF RepositoryOK
<1>1. ASSUME NEW k \in Key, Accepts(k) PROVE RepositoryOK'
  <2>1. UNCHANGED <<attempt, modelCall, history, memory, outbox>>
    BY <1>1 DEF Accepts, Accept
  <2>2. RequestKept'
    BY <1>1, AcceptType DEF RequestKept, Exists
  <2> QED
    BY <1>1, <2>1, <2>2, AcceptType
       DEF RepositoryTypeOK, LastAttemptExists, OutboxTypeOK
<1>2. ASSUME NEW k \in Key, AppendsAttempt(k) PROVE RepositoryOK'
  <2>1. UNCHANGED <<modelCall, history, memory, outbox>>
    BY <1>2 DEF AppendsAttempt, AppendAttempt
  <2>2. RequestKept'
    BY <1>2, AppendType DEF RequestKept, Exists, Mutable
  <2>3. PICK a \in Attempt : attempt' = [attempt EXCEPT ![k] = @ \cup {a}]
    BY <1>2 DEF AppendsAttempt, AppendAttempt
  <2>4. ASSUME NEW j \in Key
        PROVE  \E n \in {0} \cup {b.number : b \in attempt'[j]} :
                 \A b \in attempt'[j] : b.number <= n
    <3>1. PICK n \in {0} \cup {b.number : b \in attempt[j]} :
            \A b \in attempt[j] : b.number <= n
      BY DEF LastAttemptExists
    <3>2. attempt'[j] = attempt[j] \/ attempt'[j] = attempt[j] \cup {a}
      BY <2>3 DEF RepositoryTypeOK
    <3>3. n \in Nat /\ a.number \in Nat /\ (\A b \in attempt[j] : b.number \in Nat)
      BY <3>1 DEF RepositoryTypeOK, Attempt
    <3>4. CASE attempt'[j] = attempt[j]
      BY <3>1, <3>4
    <3>5. CASE attempt'[j] = attempt[j] \cup {a} /\ a.number <= n
      BY <3>1, <3>5
    <3>6. CASE attempt'[j] = attempt[j] \cup {a} /\ n <= a.number
      <4>1. \A b \in attempt'[j] : b.number <= a.number
        BY <3>1, <3>3, <3>6
      <4> QED
        BY <4>1, <3>6
    <3> QED
      BY <3>2, <3>3, <3>4, <3>5, <3>6
  <2> QED
    BY <1>2, <2>1, <2>2, <2>4, AppendType
       DEF RepositoryTypeOK, LastAttemptExists, OutboxTypeOK
<1>3. ASSUME NEW k \in Key, Commits(k) PROVE RepositoryOK'
  <2> PICK p \in Prepared : CommitError(k, p) = None /\ Commit(k, p)
    BY <1>3 DEF Commits
  <2> DEFINE entity == execution[k].request.entity
  <2>1. entity \in Entity
    BY CommitType, RepositoryAssumption
  <2>2. history' \in [Entity -> Seq(Key)]
    BY <2>1 DEF Commit, RepositoryTypeOK
  <2>3. memory' \in [Entity -> Nat]
    BY <2>1 DEF Commit, RepositoryTypeOK
  <2>4. OutboxTypeOK'
    BY DEF Commit, RepositoryTypeOK, OutboxTypeOK, Publish,
           NewRecord, OutboxRecord, OutboxStatus
  <2>5. RequestKept'
    BY CommitType DEF RequestKept, Exists
  <2>6. UNCHANGED <<attempt, modelCall>>
    BY DEF Commit
  <2> QED
    BY <2>2, <2>3, <2>4, <2>5, <2>6, CommitType
       DEF RepositoryTypeOK, LastAttemptExists
<1>4. ASSUME NEW k \in Key, MarksTerminal(k) PROVE RepositoryOK'
  <2>1. UNCHANGED <<attempt, modelCall, history, memory, outbox>>
    BY <1>4 DEF MarksTerminal, MarkTerminal
  <2>2. execution' \in [Key -> ExecutionRecord] /\ RequestKept'
    BY <1>4, TerminalType DEF MarksTerminal, RequestKept, Exists
  <2> QED
    BY <2>1, <2>2 DEF RepositoryTypeOK, LastAttemptExists, OutboxTypeOK
<1>5. ASSUME NEW k \in Key, Reserves(k) \/ Completes(k) \/ Fails(k)
      PROVE  RepositoryOK'
  BY <1>5, CallType
     DEF RepositoryTypeOK, LastAttemptExists, RequestKept, Exists, OutboxTypeOK
<1>6. CASE UNCHANGED repository
  BY <1>6 DEF repository, RepositoryTypeOK, LastAttemptExists, RequestKept, Exists,
              OutboxTypeOK
<1> QED
  BY <1>1, <1>2, <1>3, <1>4, <1>5, <1>6 DEF RepositoryStep, Method, PlainMethod

(* No method changes a terminal execution (assertMutableExecution).  *)
LEMMA TerminalStep ==
  ASSUME RepositoryOK, RepositoryStep, NEW k \in Key,
         execution[k].status \in Terminal
  PROVE  execution'[k] = execution[k]
<1> USE DEF RepositoryOK
<1>1. Exists(k) /\ ~Mutable(k)
  BY DEF Exists, Mutable, Terminal
<1>2. ASSUME NEW j \in Key, Accepts(j) PROVE execution'[k] = execution[k]
  BY <1>1, <1>2, AcceptType DEF Accepts
<1>3. ASSUME NEW j \in Key, AppendsAttempt(j) PROVE execution'[k] = execution[k]
  BY <1>1, <1>3, AppendType
<1>4. ASSUME NEW j \in Key, Commits(j) PROVE execution'[k] = execution[k]
  BY <1>1, <1>4, CommitType DEF Commits
<1>5. ASSUME NEW j \in Key, MarksTerminal(j) PROVE execution'[k] = execution[k]
  BY <1>1, <1>5, TerminalType DEF MarksTerminal
<1>6. ASSUME NEW j \in Key, Reserves(j) \/ Completes(j) \/ Fails(j)
      PROVE  execution'[k] = execution[k]
  BY <1>6, CallType
<1> QED
  BY <1>2, <1>3, <1>4, <1>5, <1>6 DEF RepositoryStep, Method, PlainMethod, repository

-----------------------------------------------------------------------------
(* A committed write to the memory record started from an older version    *)
(* than the record's: no later commit can start from the same one.         *)
MemoryRead ==
  \A k \in Key :
    LET commit == execution[k].commit IN
    commit # NoCommit /\ commit.memory # None
      => commit.memory < memory[execution[k].request.entity]

Consistent ==
  LinearHistory /\ NoLostMemoryUpdate /\ NoEffectWithoutCommit /\ MemoryRead

(* Steps that commit nothing leave what the properties speak of alone. *)
CommitsUntouched ==
  /\ UNCHANGED <<history, memory, outbox>>
  /\ \A k \in Key :
       /\ execution'[k].commit = execution[k].commit
       /\ execution[k].status = "committed" <=> execution'[k].status = "committed"
       /\ execution[k].commit # NoCommit
            => execution'[k].request = execution[k].request

LEMMA UntouchedConsistent ==
  ASSUME RepositoryOK, Consistent, CommitsUntouched
  PROVE  Consistent'
<1> USE DEF Consistent, CommitsUntouched
<1>1. NoEffectWithoutCommit'
  BY DEF NoEffectWithoutCommit
<1>2. NoLostMemoryUpdate' /\ MemoryRead'
  BY DEF NoLostMemoryUpdate, MemoryRead
<1>3. LinearHistory'
  <2> SUFFICES ASSUME NEW e \in Entity, NEW i \in 1 .. Len(history[e])
               PROVE  LET record == execution'[history[e][i]] IN
                      /\ record.status = "committed"
                      /\ record.request = [entity |-> e, expectedRevision |-> i - 1]
    BY DEF LinearHistory
  <2>1. history[e][i] \in Key
    BY DEF RepositoryOK, RepositoryTypeOK
  <2>2. execution[history[e][i]].commit # NoCommit
    BY <2>1 DEF LinearHistory, NoEffectWithoutCommit
  <2> QED
    BY <2>1, <2>2 DEF LinearHistory
<1> QED
  BY <1>1, <1>2, <1>3

(* A commit extends the history at the revision its request expected and   *)
(* the memory record at the version it had read.                           *)
LEMMA CommitConsistent ==
  ASSUME RepositoryOK, Consistent, NEW k \in Key, Commits(k)
  PROVE  Consistent'
<1> USE DEF Consistent, RepositoryOK
<1> PICK p \in Prepared : CommitError(k, p) = None /\ Commit(k, p)
  BY DEF Commits
<1> DEFINE request == execution[k].request
           entity == request.entity
<1>1. /\ Mutable(k)
      /\ request \in Request /\ entity \in Entity
      /\ execution'[k].request = request
      /\ execution'[k].status = "committed"
      /\ execution'[k].commit = p /\ p # NoCommit
      /\ \A j \in Key \ {k} : execution'[j] = execution[j]
  BY CommitType, PreparedIsCommit, RepositoryAssumption
<1>2. execution[k].commit = NoCommit /\ execution[k].status # "committed"
  BY DEF Commit, NoEffectWithoutCommit
<1>3. Len(history[entity]) = request.expectedRevision
  BY CommitType, RepositoryAssumption DEF StateError, Error, Revision
<1>4. p.memory # None => p.memory = memory[entity]
  BY CommitType, RepositoryAssumption DEF MemoryError, Error
<1>5. history' = IF p.advances
                 THEN [history EXCEPT ![entity] = Append(@, k)] ELSE history
  BY DEF Commit
<1>6. memory' = IF p.memory # None
                THEN [memory EXCEPT ![entity] = @ + 1] ELSE memory
  BY DEF Commit
<1>7. ASSUME NEW e \in Entity, NEW i \in 1 .. Len(history'[e])
      PROVE  \/ i \in 1 .. Len(history[e]) /\ history'[e][i] = history[e][i]
             \/ /\ p.advances /\ e = entity
                /\ i = Len(history[entity]) + 1 /\ history'[e][i] = k
  BY <1>1, <1>5, <1>7 DEF RepositoryTypeOK
<1>8. ASSUME NEW e \in Entity, NEW i \in 1 .. Len(history[e])
      PROVE  /\ history[e][i] \in Key \ {k}
             /\ i \in 1 .. Len(history'[e])
             /\ history'[e][i] = history[e][i]
  <2>0. execution[history[e][i]].status = "committed"
    BY <1>8 DEF LinearHistory
  <2>1. history[e][i] \in Key /\ history[e][i] # k
    <3>1. history[e] \in Seq(Key)
      BY DEF RepositoryTypeOK
    <3> QED
      BY <1>2, <1>8, <2>0, <3>1
  <2> QED
    BY <1>1, <1>5, <1>8, <2>1 DEF RepositoryTypeOK
<1>9. LinearHistory'
  <2> SUFFICES ASSUME NEW e \in Entity, NEW i \in 1 .. Len(history'[e])
               PROVE  LET record == execution'[history'[e][i]] IN
                      /\ record.status = "committed"
                      /\ record.request = [entity |-> e, expectedRevision |-> i - 1]
    BY DEF LinearHistory
  <2>1. CASE i \in 1 .. Len(history[e]) /\ history'[e][i] = history[e][i]
    BY <1>1, <1>8, <2>1 DEF LinearHistory
  <2>2. CASE /\ p.advances /\ e = entity
             /\ i = Len(history[entity]) + 1 /\ history'[e][i] = k
    <3>1. i - 1 = request.expectedRevision
      BY <1>1, <1>3, <2>2 DEF RepositoryTypeOK
    <3>2. request = [entity |-> e, expectedRevision |-> i - 1]
      BY <1>1, <2>2, <3>1, RepositoryAssumption
    <3> QED
      BY <1>1, <2>2, <3>2
  <2> QED
    BY <1>7, <2>1, <2>2
<1>10. MemoryRead'
  <2> SUFFICES ASSUME NEW j \in Key,
                      execution'[j].commit # NoCommit, execution'[j].commit.memory # None
               PROVE  execution'[j].commit.memory
                        < memory'[execution'[j].request.entity]
    BY DEF MemoryRead
  <2>1. CASE j = k
    BY <1>1, <1>4, <1>6, <2>1 DEF RepositoryTypeOK
  <2>2. CASE j # k
    <3>1. execution[j].commit.memory < memory[execution[j].request.entity]
      BY <1>1, <2>2 DEF MemoryRead
    <3>2. /\ execution[j].request.entity \in Entity
          /\ execution[j].commit.memory \in Nat
      <4>1. execution[j].commit \in Prepared
        BY <1>1, <2>2 DEF RepositoryTypeOK, ExecutionRecord
      <4>2. execution[j].status = "committed"
        BY <1>1, <2>2 DEF NoEffectWithoutCommit
      <4>3. execution[j].request \in Request
        BY <4>2 DEF RequestKept, Exists
      <4> QED
        BY <1>1, <2>2, <4>1, <4>3, RepositoryAssumption DEF Prepared
    <3> QED
      BY <1>1, <1>6, <2>2, <3>1, <3>2 DEF RepositoryTypeOK
  <2> QED
    BY <2>1, <2>2
<1>11. NoLostMemoryUpdate'
  <2> SUFFICES ASSUME NEW k1 \in Key, NEW k2 \in Key, k1 # k2,
                      execution'[k1].commit # NoCommit, execution'[k2].commit # NoCommit,
                      execution'[k1].request.entity = execution'[k2].request.entity,
                      execution'[k1].commit.memory # None
               PROVE  execution'[k1].commit.memory # execution'[k2].commit.memory
    BY DEF NoLostMemoryUpdate
  <2>1. ASSUME NEW j \in Key \ {k}, execution[j].commit # NoCommit,
               execution[j].request.entity = entity,
               execution[j].commit.memory # None
        PROVE  execution[j].commit.memory # memory[entity]
    <3>1. /\ execution[j].commit.memory < memory[entity]
          /\ memory[entity] \in Nat
      BY <1>1, <2>1 DEF MemoryRead, RepositoryTypeOK
    <3>2. execution[j].commit.memory \in Nat
      <4>1. execution[j].commit \in Prepared
        BY <2>1 DEF RepositoryTypeOK, ExecutionRecord
      <4> QED
        BY <2>1, <4>1 DEF Prepared
    <3> QED
      BY <3>1, <3>2
  <2>2. CASE k1 = k
    BY <1>1, <1>4, <2>1, <2>2
  <2>3. CASE k2 = k
    BY <1>1, <1>4, <2>1, <2>3
  <2>4. CASE k1 # k /\ k2 # k
    BY <1>1, <2>4 DEF NoLostMemoryUpdate
  <2> QED
    BY <2>2, <2>3, <2>4
<1>12. NoEffectWithoutCommit'
  <2> SUFFICES ASSUME NEW j \in Key
               PROVE  LET commit == execution'[j].commit IN
                      /\ commit # NoCommit <=> execution'[j].status = "committed"
                      /\ (\E e \in Entity : \E i \in 1 .. Len(history'[e]) :
                            history'[e][i] = j)
                           <=> commit # NoCommit /\ commit.advances
                      /\ outbox'[j].status # "absent" <=> commit # NoCommit /\ commit.event
    BY DEF NoEffectWithoutCommit
  <2>1. outbox' = [i \in Key |-> IF i = k /\ p.event
                                 THEN NewRecord ELSE outbox[i]]
    BY DEF Commit, Publish
  <2>2. CASE j = k
    <3>1. ~ \E e \in Entity : \E i \in 1 .. Len(history[e]) : history[e][i] = k
      BY <1>8
    <3>2. (\E e \in Entity : \E i \in 1 .. Len(history'[e]) : history'[e][i] = k)
            => p.advances
      BY <1>7, <3>1
    <3>3. ASSUME p.advances
          PROVE  \E e \in Entity : \E i \in 1 .. Len(history'[e]) : history'[e][i] = k
      <4> DEFINE i == Len(history[entity]) + 1
      <4>1. i \in 1 .. Len(history'[entity]) /\ history'[entity][i] = k
        BY <1>1, <1>5, <3>3 DEF RepositoryTypeOK
      <4> QED
        BY <1>1, <4>1
    <3>4. outbox[k].status = "absent"
      BY <1>2 DEF NoEffectWithoutCommit
    <3>5. outbox'[k].status # "absent" <=> p.event
      BY <2>1, <3>4 DEF NewRecord
    <3> QED
      BY <1>1, <2>2, <3>2, <3>3, <3>5
  <2>3. CASE j # k
    <3>1. execution'[j] = execution[j] /\ outbox'[j] = outbox[j]
      BY <1>1, <2>1, <2>3
    <3>2. (\E e \in Entity : \E i \in 1 .. Len(history'[e]) : history'[e][i] = j)
            <=> (\E e \in Entity : \E i \in 1 .. Len(history[e]) : history[e][i] = j)
      BY <1>7, <1>8, <2>3
    <3> QED
      BY <3>1, <3>2 DEF NoEffectWithoutCommit
  <2> QED
    BY <2>2, <2>3
<1> QED
  BY <1>9, <1>10, <1>11, <1>12

LEMMA StepConsistent ==
  RepositoryOK /\ Consistent /\ RepositoryStep => Consistent'
<1> SUFFICES ASSUME RepositoryOK, Consistent, RepositoryStep PROVE Consistent'
  OBVIOUS
<1> USE DEF RepositoryOK
<1>1. ASSUME NEW k \in Key, Accepts(k) PROVE CommitsUntouched
  <2>1. UNCHANGED <<attempt, modelCall, history, memory, outbox>> /\ ~Exists(k)
    BY <1>1 DEF Accepts, Accept
  <2>2. execution[k].commit = NoCommit
    BY <2>1 DEF Exists, Consistent, NoEffectWithoutCommit
  <2> QED
    BY <1>1, <2>1, <2>2, AcceptType DEF CommitsUntouched, Exists
<1>2. ASSUME NEW k \in Key, AppendsAttempt(k) PROVE CommitsUntouched
  <2>1. UNCHANGED <<modelCall, history, memory, outbox>>
    BY <1>2 DEF AppendsAttempt, AppendAttempt
  <2> QED
    BY <1>2, <2>1, AppendType DEF CommitsUntouched, Mutable, Terminal
<1>3. ASSUME NEW k \in Key, MarksTerminal(k) PROVE CommitsUntouched
  <2> PICK status \in Terminal \ {"committed"}, error \in Error, at \in Instant :
        /\ TerminalError(k, status, error, at) = None
        /\ MarkTerminal(k, status, error, at)
    BY <1>3 DEF MarksTerminal
  <2>1. UNCHANGED <<attempt, modelCall, history, memory, outbox>>
    BY DEF MarkTerminal
  <2> QED
    BY <2>1, TerminalType DEF CommitsUntouched, Mutable, Terminal
<1>4. ASSUME NEW k \in Key, Reserves(k) \/ Completes(k) \/ Fails(k)
      PROVE  CommitsUntouched
  BY <1>4, CallType DEF CommitsUntouched
<1>5. CASE UNCHANGED repository
  BY <1>5, UntouchedConsistent DEF CommitsUntouched, repository
<1> QED
  BY <1>1, <1>2, <1>3, <1>4, <1>5, UntouchedConsistent, CommitConsistent
     DEF RepositoryStep, Method, PlainMethod

LEMMA InitConsistent == RepositoryInit => Consistent
BY DEF RepositoryInit, Consistent, LinearHistory, NoLostMemoryUpdate,
       NoEffectWithoutCommit, MemoryRead, NoExecution, OutboxInit,
       NoRecord

-----------------------------------------------------------------------------
(* Second layer: execute() and the operator.                                *)
-----------------------------------------------------------------------------

(* What a call has at each point of execute(). *)
RunFits(at, state) ==
  at # "idle" =>
    /\ state.key \in Key /\ state.request \in Request
    /\ state.policy \in Policy /\ state.now \in Instant
    /\ at \notin {"resume", "terminate"} \cup Ended => state.attempt \in Nat \ {0}
    /\ at \in {"resume", "loading", "load"} => state.repair = 0
    /\ at = "complete" => state.response \in Response
    /\ at = "commit" => state.prepared \in Prepared
    /\ at \in {"terminate", "fail-call"} => state.error \in Error

RunOK ==
  \A r \in Caller :
    /\ RunFits(pc[r], run[r])
    /\ pc[r] # "idle" => Exists(run[r].key)

EngineOK == TypeOK /\ RepositoryOK /\ RunOK

-----------------------------------------------------------------------------
(* An execution is never forgotten. *)
LEMMA ExistsStep ==
  ASSUME RepositoryOK, RepositoryStep, NEW k \in Key, Exists(k)
  PROVE  Exists(k)'
<1> USE DEF RepositoryOK, Exists
<1>1. ASSUME NEW j \in Key, Accepts(j) PROVE Exists(k)'
  BY <1>1, AcceptType
<1>2. ASSUME NEW j \in Key, AppendsAttempt(j) PROVE Exists(k)'
  BY <1>2, AppendType DEF Mutable
<1>3. ASSUME NEW j \in Key, Commits(j) PROVE Exists(k)'
  BY <1>3, CommitType DEF Commits
<1>4. ASSUME NEW j \in Key, MarksTerminal(j) PROVE Exists(k)'
  BY <1>4, TerminalType DEF MarksTerminal, Terminal
<1>5. ASSUME NEW j \in Key, Reserves(j) \/ Completes(j) \/ Fails(j)
      PROVE  Exists(k)'
  BY <1>5, CallType
<1> QED
  BY <1>1, <1>2, <1>3, <1>4, <1>5 DEF RepositoryStep, Method, PlainMethod, repository

(* A call moves on by itself. *)
LEMMA RunStep ==
  ASSUME EngineOK, RepositoryStep, NEW r \in Caller,
         NEW at \in Pc, NEW state \in RunState,
         pc' = [pc EXCEPT ![r] = at], run' = [run EXCEPT ![r] = state],
         RunFits(at, state),
         at # "idle" => execution'[state.key].status # "absent"
  PROVE  pc' \in [Caller -> Pc] /\ run' \in [Caller -> RunState] /\ RunOK'
<1> USE DEF EngineOK, TypeOK
<1>1. pc' \in [Caller -> Pc] /\ run' \in [Caller -> RunState]
  OBVIOUS
<1>2. ASSUME NEW s \in Caller
      PROVE  /\ RunFits(pc'[s], run'[s])
             /\ pc'[s] # "idle" => execution'[run'[s].key].status # "absent"
  <2>1. CASE s = r
    BY <2>1
  <2>2. CASE s # r
    <3>1. pc'[s] = pc[s] /\ run'[s] = run[s]
      BY <2>2
    <3> QED
      BY <3>1, ExistsStep DEF RunOK, RunFits, Exists
  <2> QED
    BY <2>1, <2>2
<1> QED
  BY <1>1, <1>2 DEF RunOK, RunFits, Exists

(* The errors the repository's methods throw. *)
LEMMA ErrorTypes ==
  ASSUME RepositoryOK, NEW k \in Key
  PROVE  /\ \A a \in Attempt : AttemptError(k, a) \in Error \cup {None}
         /\ \A c \in CallKey, id \in Caller :
              ReserveError(k, c, id) \in Error \cup {None}
         /\ \A p \in Prepared : CommitError(k, p) \in Error \cup {None}
         /\ ResumeError(k) \in Error \cup {None}
<1>1. MutableError(k) \in Error \cup {None}
  BY DEF MutableError, Error
<1>2. \A a \in Attempt : AttemptError(k, a) \in Error \cup {None}
  BY <1>1 DEF AttemptError, Error
<1>3. \A c \in CallKey, id \in Caller : ReserveError(k, c, id) \in Error \cup {None}
  BY <1>1 DEF ReserveError, Error
<1>4. \A p \in Prepared : CommitError(k, p) \in Error \cup {None}
  BY DEF CommitError, StateError, MemoryError, Error
<1>5. ResumeError(k) \in Error \cup {None}
  <2>1. 0 \in CallKey
    BY RepositoryAssumption DEF CallKey
  <2>2. modelCall[k][0].error \in Error \cup {None}
    BY <2>1 DEF RepositoryOK, RepositoryTypeOK, CallRecord
  <2>3. {"MODEL_UNAVAILABLE", "RESUME_EVIDENCE_UNAVAILABLE"} \subseteq Error
    BY DEF Error
  <2> QED
    BY <2>2, <2>3 DEF ResumeError
<1> QED
  BY <1>2, <1>3, <1>4, <1>5

LEMMA TerminalStatusType ==
  \A error \in Error : TerminalStatus(error) \in Terminal \ {"committed"}
BY DEF TerminalStatus, Terminal

-----------------------------------------------------------------------------
(* execute() and the discharge change the repository by its methods only.  *)
LEMMA StepMethods ==
  ASSUME EngineOK, [Next]_vars
  PROVE  \/ \E k \in Key : PlainMethod(k)
         \/ \E r \in Caller : CommitRun(r)
         \/ UNCHANGED repository
<1> DEFINE Goal == \/ \E k \in Key : PlainMethod(k)
                   \/ \E r \in Caller : CommitRun(r)
                   \/ UNCHANGED repository
<1> SUFFICES Goal
  OBVIOUS
<1> USE DEF EngineOK, PlainMethod
<1>1. ASSUME NEW r \in Caller, NEW k \in Key, NEW request \in Request,
             NEW policy \in Policy, NEW now \in Instant,
             Create(r, k, request, policy, now)
      PROVE  Goal
  <2>1. policy.readable \in BOOLEAN
    BY EngineAssumption
  <2> QED
    BY <1>1, <2>1 DEF Create, Accepts
<1>2. ASSUME NEW r \in Caller, NEW stage \in Stage, Enter(r, stage)
      PROVE  Goal
  <2>1. StageRow(r) \in Attempt /\ run[r].key \in Key
    BY <1>2 DEF Enter, StageRow, Attempt, RunOK, RunFits, Stage, Ended
  <2> QED
    BY <1>2, <2>1 DEF Enter, AppendsAttempt
<1>3. ASSUME NEW r \in Caller, Reserve(r) PROVE Goal
  <2>1. run[r].key \in Key /\ run[r].repair \in CallKey
    BY <1>3 DEF Reserve, RunOK, RunFits, TypeOK, RunState, CallKey
  <2> QED
    BY <1>3, <2>1 DEF Reserve, Reserves
<1>4. ASSUME NEW r \in Caller, Complete(r) PROVE Goal
  <2>1. run[r].key \in Key /\ run[r].repair \in CallKey /\ run[r].response \in Response
    BY <1>4 DEF Complete, RunOK, RunFits, TypeOK, RunState, CallKey
  <2> QED
    BY <1>4, <2>1 DEF Complete, Completes
<1>5. ASSUME NEW r \in Caller, RecordFailure(r) PROVE Goal
  <2>1. run[r].key \in Key /\ run[r].repair \in CallKey /\ run[r].error \in Error
    BY <1>5 DEF RecordFailure, RunOK, RunFits, TypeOK, RunState, CallKey
  <2> QED
    BY <1>5, <2>1 DEF RecordFailure, Fails
<1>7. ASSUME NEW r \in Caller, Terminate(r) PROVE Goal
  <2>1. run[r].key \in Key /\ run[r].error \in Error /\ run[r].now \in Instant
    BY <1>7 DEF Terminate, RunOK, RunFits
  <2> QED
    BY <1>7, <2>1, TerminalStatusType DEF Terminate, MarksTerminal
<1>8. ASSUME NEW now \in Instant, Discharge(now) PROVE Goal
  <2>1. operator \in Key /\ "failed" \in Terminal \ {"committed"}
        /\ "OPERATOR_DISCHARGE" \in Error
    BY <1>8 DEF Discharge, TypeOK, Terminal, Error
  <2> QED
    BY <1>8, <2>1 DEF Discharge, MarksTerminal
<1>9. CASE UNCHANGED vars
  BY <1>9 DEF vars, repository
<1>10. ASSUME NEW r \in Caller, Step(r) PROVE Goal
  <2>1. ASSUME \/ Resume(r) \/ ResumeRefused(r) \/ StageRefused(r)
               \/ Load(r) \/ (\E error \in Error : LoadFails(r, error))
               \/ ReserveRefused(r) \/ Dispatch(r) \/ CancelledBeforeDispatch(r)
               \/ (\E response \in Response : Respond(r, response))
               \/ (\E error \in GatewayError : GatewayFails(r, error))
               \/ CommitRefused(r) \/ TerminateRefused(r)
        PROVE  UNCHANGED repository
    BY <2>1 DEF Resume, ResumeRefused, StageRefused, Load, LoadFails, ReserveRefused,
                Dispatch, CancelledBeforeDispatch, Respond, GatewayFails,
                CommitRefused, TerminateRefused
  <2>2. ASSUME \/ EnterLoading(r) \/ EnterCallingModel(r) \/ Validate(r)
               \/ Interpret(r) \/ Evaluate(r) \/ Prepare(r)
        PROVE  \E stage \in Stage : Enter(r, stage)
    BY <2>2 DEF EnterLoading, EnterCallingModel, Validate, Interpret, Evaluate,
                Prepare, Stage
  <2> QED
    BY <1>2, <1>3, <1>4, <1>5, <1>7, <1>10, <2>1, <2>2 DEF Step
<1>11. ASSUME NEW r \in Caller, Call(r) PROVE Goal
  BY <1>1, <1>11 DEF Call, Conflict, Replay, Rejoin
<1>12. ASSUME \/ \E r \in Caller : Crash(r)
              \/ \E k \in Key : Inspect(k)
       PROVE  Goal
  BY <1>12 DEF Crash, Inspect
<1> QED
  BY <1>8, <1>9, <1>10, <1>11, <1>12 DEF Next

LEMMA StepByMethods ==
  ASSUME EngineOK, [Next]_vars
  PROVE  RepositoryStep
<1>1. ASSUME NEW r \in Caller, CommitRun(r) PROVE RepositoryStep
  <2>1. run[r].key \in Key /\ run[r].prepared \in Prepared
    BY <1>1 DEF CommitRun, EngineOK, RunOK, RunFits
  <2> QED
    BY <1>1, <2>1 DEF CommitRun, Commits, RepositoryStep, Method
<1> QED
  BY <1>1, StepMethods DEF RepositoryStep, Method

-----------------------------------------------------------------------------
RunsOK == pc' \in [Caller -> Pc] /\ run' \in [Caller -> RunState] /\ RunOK'

LEMMA ThrowOK ==
  ASSUME EngineOK, RepositoryStep, NEW r \in Caller, pc[r] # "idle",
         NEW error \in Error, Throw(r, error)
  PROVE  RunsOK
<1> USE DEF EngineOK
<1> DEFINE state == [run[r] EXCEPT !.error = error]
<1>1. state \in RunState
  BY DEF TypeOK, RunState
<1>2. RunFits("terminate", state)
  BY DEF RunOK, RunFits, TypeOK, RunState
<1>3. execution'[state.key].status # "absent"
  BY ExistsStep DEF RunOK, RunFits, Exists, TypeOK, RunState
<1>4. pc' = [pc EXCEPT ![r] = "terminate"] /\ run' = [run EXCEPT ![r] = state]
  BY DEF Throw, Goto
<1>5. "terminate" \in Pc
  BY DEF Pc
<1> QED
  BY <1>1, <1>2, <1>3, <1>4, <1>5, RunStep DEF RunsOK

LEMMA GotoOK ==
  ASSUME EngineOK, RepositoryStep, NEW r \in Caller, pc[r] # "idle",
         NEW at \in Pc, Goto(r, at), UNCHANGED run, RunFits(at, run[r])
  PROVE  RunsOK
<1> USE DEF EngineOK
<1>1. run[r] \in RunState /\ run' = [run EXCEPT ![r] = run[r]]
  BY DEF TypeOK
<1>2. execution'[run[r].key].status # "absent"
  BY ExistsStep DEF RunOK, RunFits, Exists
<1> QED
  BY <1>1, <1>2, RunStep DEF RunsOK, Goto

(* Any other update of a call that is under way. *)
LEMMA MoveOK ==
  ASSUME EngineOK, RepositoryStep, NEW r \in Caller, pc[r] # "idle",
         NEW at \in Pc, NEW state \in RunState, Goto(r, at),
         run' = [run EXCEPT ![r] = state],
         state.key = run[r].key, RunFits(at, state)
  PROVE  RunsOK
<1>1. execution'[run[r].key].status # "absent"
  BY ExistsStep DEF EngineOK, RunOK, RunFits, Exists
<1> QED
  BY <1>1, RunStep DEF RunsOK, Goto

(* The start of execute(): the run is new and the execution exists by now. *)
LEMMA CallOK ==
  ASSUME EngineOK, RepositoryStep, NEW r \in Caller, Call(r)
  PROVE  RunsOK
<1> USE DEF EngineOK
<1> PICK k \in Key, request \in Request, policy \in Policy, now \in Instant :
      \/ Create(r, k, request, policy, now)
      \/ Conflict(r, k, request, policy, now)
      \/ Replay(r, k, request, policy, now)
      \/ Rejoin(r, k, request, policy, now)
  BY DEF Call
<1> DEFINE new == NewRun(k, request, policy, now)
<1>1. NoRun \in RunState
  BY RepositoryAssumption DEF NoRun, RunState
<1>2. new \in RunState
  BY <1>1 DEF NewRun, RunState
<1>3. /\ new.key = k /\ new.request = request
      /\ new.policy = policy /\ new.now = now /\ new.repair = 0
  BY DEF NewRun, NoRun
<1>4. ASSUME Create(r, k, request, policy, now) PROVE RunsOK
  <2> DEFINE state == [new EXCEPT !.attempt = 1]
  <2>1. state \in RunState /\ state.key = k
    BY <1>2, <1>3 DEF RunState
  <2>2. RunFits("loading", state)
    BY <1>3, <2>1 DEF RunFits, Ended, NewRun, NoRun
  <2>3. execution'[k].status # "absent"
    BY <1>4 DEF Create, Accept, RepositoryOK, RepositoryTypeOK
  <2>4. "loading" \in Pc
    BY DEF Pc, Stage
  <2> QED
    BY <1>4, <2>1, <2>2, <2>3, <2>4, RunStep DEF Create, Goto, RunsOK
<1>5. ASSUME Exists(k),
             NEW outcome \in Terminal \cup {"other-request"},
             run' = [run EXCEPT ![r] = [new EXCEPT !.outcome = outcome]],
             Goto(r, "returned")
      PROVE  RunsOK
  <2> DEFINE state == [new EXCEPT !.outcome = outcome]
  <2>1. state \in RunState /\ state.key = k
    BY <1>2, <1>3 DEF RunState
  <2>2. RunFits("returned", state)
    BY <1>3, <2>1 DEF RunFits, Ended, NewRun, NoRun
  <2>3. execution'[k].status # "absent"
    BY <1>5, ExistsStep DEF Exists
  <2>4. "returned" \in Pc
    BY DEF Pc, Ended
  <2> QED
    BY <1>5, <2>1, <2>2, <2>3, <2>4, RunStep DEF Goto, RunsOK
<1>6. ASSUME Conflict(r, k, request, policy, now) PROVE RunsOK
  BY <1>5, <1>6 DEF Conflict
<1>7. ASSUME Replay(r, k, request, policy, now) PROVE RunsOK
  <2>1. execution[k].status \in Terminal /\ Exists(k)
    BY <1>7 DEF Replay, Mutable
  <2> QED
    BY <1>5, <1>7, <2>1 DEF Replay
<1>8. ASSUME Rejoin(r, k, request, policy, now) PROVE RunsOK
  <2>1. RunFits("resume", new)
    BY <1>3 DEF RunFits, Ended
  <2>2. execution'[k].status # "absent"
    BY <1>8, ExistsStep DEF Rejoin, Exists
  <2>3. "resume" \in Pc
    BY DEF Pc
  <2> QED
    BY <1>2, <1>3, <1>8, <2>1, <2>2, <2>3, RunStep DEF Rejoin, Goto, RunsOK
<1> QED
  BY <1>4, <1>6, <1>7, <1>8

LEMMA StepRunsOK ==
  ASSUME EngineOK, RepositoryStep, NEW r \in Caller, Step(r)
  PROVE  RunsOK
<1> USE DEF EngineOK
<1>0. run[r] \in RunState /\ RunFits(pc[r], run[r])
  BY DEF TypeOK, RunOK
<1>1. ASSUME Resume(r) PROVE RunsOK
  <2> DEFINE k == run[r].key
             state == [run[r] EXCEPT !.attempt = LastAttempt(k) + 1,
                                     !.resumed = (modelCall[k][0].status = "succeeded"),
                                     !.response = modelCall[k][0].response]
  <2>1. k \in Key
    BY <1>0, <1>1 DEF RunFits, Resume
  <2>2. LastAttempt(k) \in Nat
    BY <2>1, LastAttemptType
  <2>3. modelCall[k][0] \in CallRecord
    BY <2>1, RepositoryAssumption DEF RepositoryOK, RepositoryTypeOK, CallKey
  <2>4. state \in RunState
    <3>1. modelCall[k][0].response \in Response \cup {None}
      BY <2>3 DEF CallRecord
    <3>2. ASSUME NEW old \in RunState, NEW number \in Nat, NEW resumed \in BOOLEAN,
                 NEW response \in Response \cup {None}
          PROVE  [old EXCEPT !.attempt = number, !.resumed = resumed,
                             !.response = response] \in RunState
      BY DEF RunState
    <3> DEFINE resumed == (modelCall[k][0].status = "succeeded")
    <3>3. resumed \in BOOLEAN
      OBVIOUS
    <3>4. LastAttempt(k) + 1 \in Nat
      BY <2>2
    <3> HIDE DEF resumed
    <3>5. [run[r] EXCEPT !.attempt = LastAttempt(k) + 1, !.resumed = resumed,
                         !.response = modelCall[k][0].response] \in RunState
      BY <1>0, <3>1, <3>2, <3>3, <3>4
    <3> QED
      BY <3>5 DEF resumed
  <2>5. RunFits("loading", state)
    BY <1>0, <1>1, <2>1, <2>2 DEF RunFits, Resume, RunState
  <2>6. "loading" \in Pc
    BY DEF Pc, Stage
  <2>7. state.key = run[r].key
    BY <1>0 DEF RunState
  <2> QED
    BY <1>1, <2>4, <2>5, <2>6, <2>7, MoveOK DEF Resume
<1>2. ASSUME \/ ResumeRefused(r) \/ StageRefused(r)
             \/ ReserveRefused(r) \/ CommitRefused(r)
      PROVE  RunsOK
  <2>1. /\ pc[r] # "idle" /\ run[r].key \in Key
        /\ pc[r] \in Stage => StageRow(r) \in Attempt
        /\ run[r].repair \in CallKey
        /\ pc[r] = "commit" => run[r].prepared \in Prepared
    BY <1>0, <1>2
       DEF RunFits, ResumeRefused, StageRefused, ReserveRefused, CommitRefused,
           Stage, Ended, StageRow, Attempt, RunState, CallKey
  <2>2. \E error \in Error : Throw(r, error)
    BY <1>2, <2>1, ErrorTypes
       DEF ResumeRefused, StageRefused, ReserveRefused, CommitRefused
  <2> QED
    BY <2>1, <2>2, ThrowOK
<1>3. ASSUME EnterLoading(r) PROVE RunsOK
  BY <1>0, <1>3, GotoOK DEF EnterLoading, Enter, RunFits, Ended, Pc
<1>4. ASSUME Load(r) PROVE RunsOK
  <2> DEFINE state == [run[r] EXCEPT !.memory = memory[run[r].request.entity]]
  <2>1. memory[run[r].request.entity] \in Nat
    BY <1>0, <1>4, RepositoryAssumption DEF Load, RunFits, RepositoryOK, RepositoryTypeOK
  <2>2. state \in RunState /\ state.key = run[r].key
    BY <1>0, <2>1 DEF RunState
  <2>3. RunFits("calling-model", state)
    BY <1>0, <1>4 DEF RunFits, Load, Ended, RunState
  <2>4. "calling-model" \in Pc
    BY DEF Pc, Stage
  <2> QED
    BY <1>4, <2>2, <2>3, <2>4, MoveOK DEF Load
<1>5. ASSUME NEW error \in Error, LoadFails(r, error) PROVE RunsOK
  BY <1>5, ThrowOK DEF LoadFails
<1>6. ASSUME AfterResponse(r), pc[r] \in {"calling-model", "complete"} PROVE RunsOK
  <2>1. CASE Goto(r, "validating") /\ UNCHANGED run
    <3>1. RunFits("validating", run[r]) /\ "validating" \in Pc
      BY <1>0, <1>6 DEF RunFits, Ended, Pc, Stage
    <3> QED
      BY <1>6, <2>1, <3>1, GotoOK
  <2>2. CASE Throw(r, "BUDGET_EXCEEDED")
    BY <1>6, <2>2, ThrowOK DEF Error
  <2> QED
    BY <1>6, <2>1, <2>2 DEF AfterResponse, BudgetError
<1>7. ASSUME EnterCallingModel(r) PROVE RunsOK
  <2>1. CASE run[r].resumed
    BY <1>6, <1>7, <2>1 DEF EnterCallingModel, Enter
  <2>2. CASE ~run[r].resumed
    <3>1. \E at \in {"reserve", "dispatch"} : Goto(r, at)
      BY <1>7, <2>2 DEF EnterCallingModel
    <3>2. \A at \in {"reserve", "dispatch"} : RunFits(at, run[r]) /\ at \in Pc
      BY <1>0, <1>7 DEF EnterCallingModel, Enter, RunFits, Ended, Pc
    <3> QED
      BY <1>7, <2>2, <3>1, <3>2, GotoOK DEF EnterCallingModel, Enter
  <2> QED
    BY <2>1, <2>2
<1>8. ASSUME Reserve(r) PROVE RunsOK
  <2>1. \E at \in {"dispatch", "calling-model"} : Goto(r, at)
    BY <1>8 DEF Reserve
  <2>2. \A at \in {"dispatch", "calling-model"} : RunFits(at, run[r]) /\ at \in Pc
    BY <1>0, <1>8 DEF Reserve, RunFits, Ended, Pc, Stage
  <2> QED
    BY <1>8, <2>1, <2>2, GotoOK DEF Reserve
<1>9. ASSUME Dispatch(r) PROVE RunsOK
  BY <1>0, <1>9, GotoOK DEF Dispatch, RunFits, Ended, Pc
<1>10. ASSUME NEW error \in Error, pc[r] \in {"dispatch", "await"},
              run' = [run EXCEPT ![r].error = error], Goto(r, "fail-call")
       PROVE  RunsOK
  <2> DEFINE state == [run[r] EXCEPT !.error = error]
  <2>1. state \in RunState /\ state.key = run[r].key
    BY <1>0 DEF RunState
  <2>2. RunFits("fail-call", state) /\ "fail-call" \in Pc
    BY <1>0, <1>10 DEF RunFits, Ended, RunState, Pc
  <2> QED
    BY <1>10, <2>1, <2>2, MoveOK
<1>11. ASSUME CancelledBeforeDispatch(r) PROVE RunsOK
  BY <1>10, <1>11 DEF CancelledBeforeDispatch, Error
<1>12. ASSUME NEW error \in GatewayError, GatewayFails(r, error) PROVE RunsOK
  BY <1>10, <1>12 DEF GatewayFails, GatewayError, Error
<1>13. ASSUME NEW response \in Response, Respond(r, response) PROVE RunsOK
  <2> DEFINE state == [run[r] EXCEPT !.response = response]
  <2>1. state \in RunState /\ state.key = run[r].key
    BY <1>0 DEF RunState
  <2>2. RunFits("complete", state) /\ "complete" \in Pc
    BY <1>0, <1>13 DEF RunFits, Respond, Ended, RunState, Pc
  <2> QED
    BY <1>13, <2>1, <2>2, MoveOK DEF Respond
<1>14. ASSUME Complete(r) PROVE RunsOK
  BY <1>6, <1>14 DEF Complete
<1>15. ASSUME RecordFailure(r) PROVE RunsOK
  BY <1>0, <1>15, ThrowOK DEF RecordFailure, RunFits
<1>16. ASSUME Validate(r) PROVE RunsOK
  <2>1. CASE Goto(r, "interpreting") /\ UNCHANGED run
    <3>1. RunFits("interpreting", run[r]) /\ "interpreting" \in Pc
      BY <1>0, <1>16 DEF Validate, Enter, RunFits, Ended, Pc, Stage
    <3> QED
      BY <1>16, <2>1, <3>1, GotoOK DEF Validate, Enter
  <2>2. CASE Throw(r, "MODEL_INVALID_RESPONSE")
    BY <1>16, <2>2, ThrowOK DEF Validate, Enter, Error
  <2>3. CASE Repairs(r) /\ Goto(r, "reserve") /\ run' = [run EXCEPT ![r].repair = @ + 1]
    <3> DEFINE state == [run[r] EXCEPT !.repair = @ + 1]
    <3>1. run[r].repair + 1 \in 0 .. MaxRepair
      <4>1. run[r].policy.maxRepairCalls \in 0 .. MaxRepair
        BY <1>0, <1>16, EngineAssumption DEF Validate, Enter, RunFits
      <4>2. run[r].repair \in Nat
        BY <1>0, RepositoryAssumption DEF RunState
      <4> QED
        BY <2>3, <4>1, <4>2, RepositoryAssumption DEF Repairs
    <3>2. state \in RunState /\ state.key = run[r].key
      BY <1>0, <3>1 DEF RunState
    <3>3. RunFits("reserve", state) /\ "reserve" \in Pc
      BY <1>0, <1>16 DEF Validate, Enter, RunFits, Ended, RunState, Pc
    <3> QED
      BY <1>16, <2>3, <3>2, <3>3, MoveOK DEF Validate, Enter
  <2> QED
    BY <1>16, <2>1, <2>2, <2>3 DEF Validate
<1>17. ASSUME Interpret(r) PROVE RunsOK
  <2>1. CASE Goto(r, "evaluating") /\ UNCHANGED run
    <3>1. RunFits("evaluating", run[r]) /\ "evaluating" \in Pc
      BY <1>0, <1>17 DEF Interpret, Enter, RunFits, Ended, Pc, Stage
    <3> QED
      BY <1>17, <2>1, <3>1, GotoOK DEF Interpret, Enter
  <2>2. CASE \E error \in ModuleError : Throw(r, error)
    BY <1>17, <2>2, ThrowOK DEF Interpret, Enter, ModuleError, Error
  <2> QED
    BY <1>17, <2>1, <2>2 DEF Interpret
<1>18. ASSUME Evaluate(r) PROVE RunsOK
  BY <1>0, <1>18, GotoOK DEF Evaluate, Enter, RunFits, Ended, Pc, Stage
<1>19. ASSUME Prepare(r) PROVE RunsOK
  <2>1. ASSUME NEW advances \in BOOLEAN, NEW writes \in BOOLEAN,
               NEW event \in BOOLEAN,
               run' = [run EXCEPT ![r].prepared =
                         [advances |-> advances,
                          memory |-> IF writes THEN run[r].memory ELSE None,
                          memoryId |-> IF writes /\ run[r].memory = 0
                                       THEN r ELSE None,
                          event |-> event,
                          at |-> run[r].now]],
               Goto(r, "commit")
        PROVE  RunsOK
    <3> DEFINE prepared == [advances |-> advances,
                            memory |-> IF writes THEN run[r].memory ELSE None,
                            memoryId |-> IF writes /\ run[r].memory = 0
                                         THEN r ELSE None,
                            event |-> event,
                            at |-> run[r].now]
               state == [run[r] EXCEPT !.prepared = prepared]
    <3>1. prepared \in Prepared
      BY <1>0, <1>19 DEF Prepare, Enter, RunFits, RunState, Prepared
    <3>2. state \in RunState /\ state.key = run[r].key
      BY <1>0, <3>1 DEF RunState
    <3>3. RunFits("commit", state) /\ "commit" \in Pc
      BY <1>0, <1>19, <3>1 DEF Prepare, Enter, RunFits, Ended, RunState, Pc
    <3> QED
      BY <1>19, <2>1, <3>2, <3>3, MoveOK DEF Prepare, Enter
  <2>2. CASE \E error \in ModuleError : Throw(r, error)
    BY <1>19, <2>2, ThrowOK DEF Prepare, Enter, ModuleError, Error
  <2> QED
    BY <1>19, <2>1, <2>2 DEF Prepare
<1>20. ASSUME NEW outcome \in Terminal, Return(r, outcome),
              pc[r] \in {"commit", "terminate"}
       PROVE  RunsOK
  <2> DEFINE state == [run[r] EXCEPT !.outcome = outcome]
  <2>1. state \in RunState /\ state.key = run[r].key
    BY <1>0 DEF RunState
  <2>2. RunFits("returned", state) /\ "returned" \in Pc
    BY <1>0, <1>20 DEF RunFits, Ended, RunState, Pc
  <2> QED
    BY <1>20, <2>1, <2>2, MoveOK DEF Return
<1>21. ASSUME CommitRun(r) PROVE RunsOK
  BY <1>20, <1>21 DEF CommitRun, Terminal
<1>22. ASSUME Terminate(r) PROVE RunsOK
  BY <1>0, <1>20, <1>22, TerminalStatusType DEF Terminate, RunFits
<1>23. ASSUME TerminateRefused(r) PROVE RunsOK
  BY <1>0, <1>23, GotoOK DEF TerminateRefused, RunFits, Ended, Pc
<1> QED
  BY <1>1, <1>2, <1>3, <1>4, <1>5, <1>7, <1>8, <1>9, <1>11, <1>12, <1>13, <1>14,
     <1>15, <1>16, <1>17, <1>18, <1>19, <1>21, <1>22, <1>23
     DEF Step

(* Only Dispatch sends a call to the provider. *)
LEMMA DispatchedStep ==
  ASSUME [Next]_vars
  PROVE  dispatched' = dispatched \/ \E r \in Caller : Dispatch(r)
<1>1. ASSUME NEW r \in Caller, Step(r)
      PROVE  dispatched' = dispatched \/ Dispatch(r)
  BY <1>1
     DEF Step, Resume, ResumeRefused, StageRefused, EnterLoading, Enter, Load, LoadFails,
         EnterCallingModel, Reserve, ReserveRefused, CancelledBeforeDispatch, Respond,
         GatewayFails, Complete, RecordFailure, Validate, Interpret, Evaluate, Prepare,
         CommitRun, CommitRefused, Terminate, TerminateRefused
<1>2. ASSUME NEW r \in Caller, Call(r) \/ Crash(r)
      PROVE  dispatched' = dispatched
  BY <1>2 DEF Call, Create, Conflict, Replay, Rejoin, Crash
<1>3. ASSUME (\E k \in Key : Inspect(k)) \/ (\E now \in Instant : Discharge(now))
      PROVE  dispatched' = dispatched
  BY <1>3 DEF Inspect, Discharge
<1>4. CASE UNCHANGED vars
  BY <1>4 DEF vars
<1> QED
  BY <1>1, <1>2, <1>3, <1>4 DEF Next

LEMMA OperatorStep ==
  ASSUME [Next]_vars
  PROVE  operator' \in Key \cup {None, operator}
<1>1. ASSUME NEW r \in Caller, Step(r)
      PROVE  operator' = operator
  BY <1>1
     DEF Step, Resume, ResumeRefused, StageRefused, EnterLoading, Enter, Load, LoadFails,
         EnterCallingModel, Reserve, ReserveRefused, Dispatch, CancelledBeforeDispatch,
         Respond, GatewayFails, Complete, RecordFailure, Validate, Interpret, Evaluate,
         Prepare, CommitRun, CommitRefused, Terminate, TerminateRefused
<1>2. ASSUME NEW r \in Caller, Call(r) \/ Crash(r)
      PROVE  operator' = operator
  BY <1>2 DEF Call, Create, Conflict, Replay, Rejoin, Crash
<1>3. ASSUME (\E k \in Key : Inspect(k)) \/ (\E now \in Instant : Discharge(now))
      PROVE  operator' \in Key \cup {None}
  BY <1>3 DEF Inspect, Discharge
<1>4. CASE UNCHANGED vars
  BY <1>4 DEF vars
<1> QED
  BY <1>1, <1>2, <1>3, <1>4 DEF Next

LEMMA EngineStep == EngineOK /\ [Next]_vars => EngineOK'
<1> SUFFICES ASSUME EngineOK, [Next]_vars PROVE EngineOK'
  OBVIOUS
<1>1. RepositoryStep
  BY StepByMethods
<1>2. RepositoryOK'
  BY <1>1, StepOK DEF EngineOK
<1>3. dispatched' \in [Key -> [CallKey -> Nat]]
  <2>1. ASSUME NEW r \in Caller, Dispatch(r)
        PROVE  dispatched' \in [Key -> [CallKey -> Nat]]
    <3> DEFINE k == run[r].key
               c == run[r].repair
               calls == [dispatched[k] EXCEPT ![c] = @ + 1]
    <3>1. k \in Key /\ c \in CallKey
      BY <2>1 DEF Dispatch, EngineOK, TypeOK, RunState, CallKey
    <3>2. calls \in [CallKey -> Nat]
      BY <3>1 DEF EngineOK, TypeOK
    <3>3. dispatched' = [dispatched EXCEPT ![k] = calls]
      BY <2>1 DEF Dispatch
    <3> QED
      BY <3>1, <3>2, <3>3 DEF EngineOK, TypeOK
  <2> QED
    BY <2>1, DispatchedStep DEF EngineOK, TypeOK
<1>4. operator' \in Key \cup {None}
  BY OperatorStep DEF EngineOK, TypeOK
<1>5. RunsOK
  <2>1. CASE UNCHANGED <<pc, run>>
    <3>1. \A r \in Caller : pc[r] # "idle" => execution'[run[r].key].status # "absent"
      BY <1>1, ExistsStep DEF EngineOK, RunOK, RunFits, Exists
    <3> QED
      BY <2>1, <3>1 DEF EngineOK, TypeOK, RunsOK, RunOK, RunFits, Exists
  <2>2. ASSUME NEW r \in Caller, Crash(r) PROVE RunsOK
    <3>1. RunFits("crashed", run[r]) /\ "crashed" \in Pc
      BY <2>2 DEF Crash, EngineOK, RunOK, RunFits, Ended, Pc
    <3> QED
      BY <1>1, <2>2, <3>1, GotoOK DEF Crash
  <2>3. ASSUME (\E k \in Key : Inspect(k)) \/ (\E now \in Instant : Discharge(now))
        PROVE  UNCHANGED <<pc, run>>
    BY <2>3 DEF Inspect, Discharge
  <2>4. UNCHANGED vars => UNCHANGED <<pc, run>>
    BY DEF vars
  <2> QED
    BY <1>1, <2>1, <2>2, <2>3, <2>4, CallOK, StepRunsOK DEF Next
<1>6. \A r \in Caller : pc'[r] # "idle" => run'[r].key \in Key
  BY <1>5 DEF RunsOK, RunOK, RunFits
<1> QED
  BY <1>2, <1>3, <1>4, <1>5, <1>6 DEF EngineOK, TypeOK, RepositoryOK, RunsOK

LEMMA EngineInit == Init => EngineOK
<1> SUFFICES ASSUME Init PROVE EngineOK
  OBVIOUS
<1> USE DEF Init
<1>1. RepositoryOK
  BY InitOK
<1>2. NoRun \in RunState
  BY RepositoryAssumption DEF NoRun, RunState
<1>3. TypeOK
  BY <1>1, <1>2 DEF TypeOK, RepositoryOK, Pc
<1>4. RunOK
  BY DEF RunOK, RunFits
<1> QED
  BY <1>1, <1>3, <1>4 DEF EngineOK

LEMMA EngineInvariant == Spec => []EngineOK
BY EngineInit, EngineStep, PTL DEF Spec

(* In every behaviour of racing, crashing and repairing calls all variables *)
(* keep their types; in particular no repair exceeds the budget.            *)
THEOREM TypeCorrect == Spec => []TypeOK
<1>1. EngineOK => TypeOK
  BY DEF EngineOK
<1> QED
  BY <1>1, EngineInvariant, PTL

-----------------------------------------------------------------------------
(* A terminal execution is never changed again, by no call of execute() and *)
(* by no discharge.                                                         *)
THEOREM TerminalForever == Spec => TerminalIsFinal
<1>1. EngineOK /\ [Next]_vars =>
        [\A k \in Key :
           execution[k].status \in Terminal => execution'[k] = execution[k]]_repository
  BY StepByMethods, TerminalStep DEF EngineOK
<1> QED
  BY <1>1, EngineInvariant, PTL DEF Spec, TerminalIsFinal

(* What the repository holds is consistent in every reachable state.       *)
LEMMA ConsistentInvariant == Spec => [](EngineOK /\ Consistent)
<1>1. Init => EngineOK /\ Consistent
  BY EngineInit, InitConsistent DEF Init
<1>2. (EngineOK /\ Consistent) /\ [Next]_vars => (EngineOK /\ Consistent)'
  BY EngineStep, StepByMethods, StepConsistent DEF EngineOK
<1> QED
  BY <1>1, <1>2, PTL DEF Spec

(* Optimistic concurrency on the state head keeps the revisions of every    *)
(* entity in one line.                                                      *)
THEOREM HistoryIsLinear == Spec => []LinearHistory
<1>1. Consistent => LinearHistory
  BY DEF Consistent
<1> QED
  BY <1>1, ConsistentInvariant, PTL

(* No two commits write the memory record from the same version.           *)
THEOREM NoMemoryUpdateIsLost == Spec => []NoLostMemoryUpdate
<1>1. Consistent => NoLostMemoryUpdate
  BY DEF Consistent
<1> QED
  BY <1>1, ConsistentInvariant, PTL

(* State and events come from commits, and every commit has its own.       *)
THEOREM EffectsComeFromCommits == Spec => []NoEffectWithoutCommit
<1>1. Consistent => NoEffectWithoutCommit
  BY DEF Consistent
<1> QED
  BY <1>1, ConsistentInvariant, PTL

(* The line of revisions and the effects of the commits, as one.            *)
THEOREM HistoryStaysWhole == Spec => []HistoryIsWhole
<1>1. LinearHistory /\ NoEffectWithoutCommit => HistoryIsWhole
  BY DEF HistoryIsWhole
<1> QED
  BY <1>1, HistoryIsLinear, EffectsComeFromCommits, PTL

-----------------------------------------------------------------------------
(* A call of execute() sends what it has reserved itself.                  *)

(* The call has not reserved its current logical model call yet. *)
BeforeReserve(r) ==
  \/ pc[r] \in {"idle", "resume", "loading", "load", "reserve"}
  \/ pc[r] = "calling-model" /\ run[r].repair = 0

(* It has, and the next thing to happen is that the request is sent. *)
BeforeDispatch(r) ==
  \/ pc[r] = "dispatch"
  \/ pc[r] = "calling-model" /\ run[r].repair # 0

(* A reservation belongs to a call on that key, which is not before it. *)
ReservationOwned ==
  \A k \in Key, c \in CallKey, r \in Caller :
    modelCall[k][c].id = r =>
      /\ pc[r] # "idle" /\ run[r].key = k
      /\ c <= run[r].repair
      /\ BeforeReserve(r) => c < run[r].repair

SentOnce ==
  \A k \in Key, c \in CallKey :
    /\ dispatched[k][c] <= 1
    /\ modelCall[k][c].status = "none" => dispatched[k][c] = 0

ReservedBeforeSent ==
  \A r \in Caller :
    BeforeDispatch(r) =>
      LET k == run[r].key
          c == run[r].repair
      IN
      /\ modelCall[k][c].id = r
      /\ modelCall[k][c].status # "none"
      /\ dispatched[k][c] = 0

DispatchOK == ReservationOwned /\ SentOnce /\ ReservedBeforeSent

(* Where a call can get in a step that does not reserve.                   *)
LEMMA ControlStep ==
  ASSUME EngineOK, NEW r \in Caller, Step(r), ~Reserve(r)
  PROVE  /\ pc[r] # "idle"
         /\ pc'[r] # "idle" /\ run'[r].key = run[r].key
         /\ \/ /\ run'[r].repair = run[r].repair
               /\ BeforeReserve(r)' => BeforeReserve(r)
               /\ BeforeDispatch(r)' => BeforeDispatch(r) /\ pc[r] # "dispatch"
            \/ run'[r].repair = run[r].repair + 1 /\ pc'[r] = "reserve"
<1> USE DEF EngineOK, TypeOK, RunState, BeforeReserve, BeforeDispatch, Goto, Throw
<1>0. ASSUME pc[r] # "idle", NEW error, Throw(r, error)
      PROVE  /\ pc'[r] = "terminate"
             /\ run'[r].key = run[r].key /\ run'[r].repair = run[r].repair
  BY <1>0
<1>1. CASE Resume(r)
  BY <1>1 DEF Resume
<1>7. CASE StageRefused(r) \/ EnterLoading(r)
  BY <1>7 DEF StageRefused, EnterLoading, Enter, Stage
<1>8. CASE ResumeRefused(r) \/ (\E error \in Error : LoadFails(r, error))
  BY <1>0, <1>8 DEF ResumeRefused, LoadFails
<1>9. CASE Load(r)
  <2>1. ASSUME NEW version, run' = [run EXCEPT ![r].memory = version]
        PROVE  run'[r].key = run[r].key /\ run'[r].repair = run[r].repair
    BY <2>1
  <2>2. run'[r].key = run[r].key /\ run'[r].repair = run[r].repair
    BY <1>9, <2>1 DEF Load
  <2>3. pc[r] = "load" /\ pc'[r] = "calling-model" /\ run[r].repair = 0
    BY <1>9 DEF Load, RunOK, RunFits
  <2> QED
    BY <2>2, <2>3
<1>2. CASE ReserveRefused(r) \/ Dispatch(r) \/ CancelledBeforeDispatch(r)
  BY <1>0, <1>2 DEF ReserveRefused, Dispatch, CancelledBeforeDispatch
<1>11. CASE EnterCallingModel(r)
  BY <1>0, <1>11 DEF EnterCallingModel, Enter, AfterResponse
<1>3. CASE \/ (\E response \in Response : Respond(r, response))
           \/ (\E error \in GatewayError : GatewayFails(r, error))
  BY <1>3 DEF Respond, GatewayFails
<1>10. CASE Complete(r) \/ RecordFailure(r)
  BY <1>0, <1>10 DEF Complete, AfterResponse, RecordFailure
<1>4. CASE Validate(r)
  <2>1. CASE run' = [run EXCEPT ![r].repair = @ + 1] /\ Goto(r, "reserve")
    BY <1>4, <2>1 DEF Validate, Enter
  <2>2. CASE \/ Goto(r, "interpreting") /\ UNCHANGED run
             \/ Throw(r, "MODEL_INVALID_RESPONSE")
    BY <1>4, <2>2 DEF Validate, Enter
  <2> QED
    BY <1>4, <2>1, <2>2 DEF Validate
<1>5. CASE Interpret(r) \/ Evaluate(r) \/ Prepare(r)
  BY <1>5 DEF Interpret, Enter, Evaluate, Prepare
<1>6. CASE \/ CommitRun(r) \/ CommitRefused(r) \/ Terminate(r) \/ TerminateRefused(r)
  BY <1>6 DEF CommitRun, CommitRefused, Terminate, TerminateRefused, Return
<1> QED
  BY <1>1, <1>2, <1>3, <1>4, <1>5, <1>6, <1>7, <1>8, <1>9, <1>10, <1>11
   DEF Step

(* The rows of model calls change in three actions only. *)
LEMMA CallRowsUnchanged ==
  ASSUME [Next]_vars,
         ~ \E r \in Caller : Reserve(r) \/ Complete(r) \/ RecordFailure(r)
  PROVE  UNCHANGED modelCall
<1> USE DEF repository
<1>1. ASSUME NEW r \in Caller, Step(r) PROVE UNCHANGED modelCall
  BY <1>1
     DEF Step, Resume, ResumeRefused, StageRefused, EnterLoading, Enter, AppendAttempt,
         Load, LoadFails, EnterCallingModel, ReserveRefused, Dispatch,
         CancelledBeforeDispatch, Respond, GatewayFails, Validate, Interpret, Evaluate,
         Prepare, CommitRun, Commit, CommitRefused, Terminate, MarkTerminal,
         TerminateRefused
<1>2. ASSUME NEW r \in Caller, Call(r) \/ Crash(r) PROVE UNCHANGED modelCall
  BY <1>2 DEF Call, Create, Accept, Conflict, Replay, Rejoin, Crash
<1>3. ASSUME (\E k \in Key : Inspect(k)) \/ (\E now \in Instant : Discharge(now))
      PROVE  UNCHANGED modelCall
  BY <1>3 DEF Inspect, Discharge, MarkTerminal
<1>4. CASE UNCHANGED vars
  BY <1>4 DEF vars
<1> QED
  BY <1>1, <1>2, <1>3, <1>4 DEF Next

(* Reserved by r in this step. *)
NewlyReserved(r, k, c) ==
  /\ Reserve(r) /\ run[r].key = k /\ run[r].repair = c
  /\ modelCall[k][c].status = "none"
  /\ modelCall'[k][c].id = r /\ modelCall'[k][c].status # "none"

LEMMA CallRowsStep ==
  ASSUME EngineOK, [Next]_vars, NEW k \in Key, NEW c \in CallKey
  PROVE  \/ /\ modelCall'[k][c].id = modelCall[k][c].id
            /\ modelCall[k][c].status = "none" <=> modelCall'[k][c].status = "none"
         \/ \E r \in Caller : NewlyReserved(r, k, c)
<1> USE DEF EngineOK, RepositoryOK, RepositoryTypeOK
<1>1. ASSUME NEW r \in Caller, pc[r] \in {"reserve", "complete", "fail-call"}
      PROVE  run[r].key \in Key /\ run[r].repair \in CallKey
  BY <1>1 DEF TypeOK, RunState, CallKey
<1>2. modelCall \in [Key -> [CallKey -> CallRecord]]
  OBVIOUS
<1>3. ASSUME NEW r \in Caller, Reserve(r)
      PROVE  modelCall'[k][c] = modelCall[k][c] \/ NewlyReserved(r, k, c)
  <2> DEFINE j == run[r].key
             b == run[r].repair
             record == [NoCall EXCEPT !.status = "reserved", !.id = r]
  <2>1. j \in Key /\ b \in CallKey
    BY <1>1, <1>3 DEF Reserve
  <2>2. \/ modelCall' = modelCall
        \/ /\ modelCall[j][b].status = "none"
           /\ modelCall' = [modelCall EXCEPT ![j] = [@ EXCEPT ![b] = record]]
    <3> HIDE DEF record
    <3>1. ReserveModelCall(j, b, r)
      BY <1>3 DEF Reserve
    <3> QED
      BY <3>1 DEF ReserveModelCall, record
  <2>3. record.id = r /\ record.status = "reserved"
    BY DEF NoCall
  <2>4. CASE j = k /\ b = c
    <3> HIDE DEF record
    <3>1. CASE modelCall' = modelCall
      BY <3>1
    <3>2. CASE /\ modelCall[j][b].status = "none"
               /\ modelCall' = [modelCall EXCEPT ![j] = [@ EXCEPT ![b] = record]]
      <4>1. modelCall'[k][c] = record
        BY <1>2, <2>1, <2>4, <3>2
      <4> QED
        BY <1>3, <2>3, <2>4, <3>2, <4>1 DEF NewlyReserved
    <3> QED
      BY <2>2, <3>1, <3>2
  <2>5. CASE ~(j = k /\ b = c)
    BY <1>2, <2>1, <2>2, <2>5
  <2> QED
    BY <2>4, <2>5
<1>4. ASSUME NEW r \in Caller, Complete(r)
      PROVE  /\ modelCall'[k][c].id = modelCall[k][c].id
             /\ modelCall[k][c].status = "none" <=> modelCall'[k][c].status = "none"
  <2> DEFINE j == run[r].key
             b == run[r].repair
             record == [modelCall[j][b] EXCEPT !.status = "succeeded",
                                               !.response = run[r].response]
  <2>1. j \in Key /\ b \in CallKey
    BY <1>1, <1>4 DEF Complete
  <2>2. modelCall' = [modelCall EXCEPT ![j] = [@ EXCEPT ![b] = record]]
    BY <1>4 DEF Complete, CompleteModelCall
  <2>3. modelCall[j][b] \in CallRecord
    BY <1>2, <2>1
  <2>4. modelCall[j][b].status # "none"
    BY <1>4, RepositoryAssumption DEF Complete, CompleteError, Error
  <2>5. record.id = modelCall[j][b].id /\ record.status = "succeeded"
    BY <2>3 DEF CallRecord
  <2>6. modelCall'[k][c] = IF j = k /\ b = c THEN record ELSE modelCall[k][c]
    BY <1>2, <2>1, <2>2
  <2> QED
    BY <2>4, <2>5, <2>6
<1>5. ASSUME NEW r \in Caller, RecordFailure(r)
      PROVE  /\ modelCall'[k][c].id = modelCall[k][c].id
             /\ modelCall[k][c].status = "none" <=> modelCall'[k][c].status = "none"
  <2> DEFINE j == run[r].key
             b == run[r].repair
             record == [modelCall[j][b] EXCEPT !.status = "failed", !.error = run[r].error]
  <2>1. j \in Key /\ b \in CallKey
    BY <1>1, <1>5 DEF RecordFailure
  <2>2. modelCall' = [modelCall EXCEPT ![j] = [@ EXCEPT ![b] = record]]
    BY <1>5 DEF RecordFailure, FailModelCall
  <2>3. modelCall[j][b] \in CallRecord
    BY <1>2, <2>1
  <2>4. modelCall[j][b].status # "none"
    BY <1>5, RepositoryAssumption DEF RecordFailure, FailError, Error
  <2>5. record.id = modelCall[j][b].id /\ record.status = "failed"
    BY <2>3 DEF CallRecord
  <2>6. modelCall'[k][c] = IF j = k /\ b = c THEN record ELSE modelCall[k][c]
    BY <1>2, <2>1, <2>2
  <2> QED
    BY <2>4, <2>5, <2>6
<1> QED
  BY <1>3, <1>4, <1>5, CallRowsUnchanged

(* Steps of others leave a call where it is. *)
LEMMA OthersStep ==
  ASSUME EngineOK, [Next]_vars, NEW r \in Caller
  PROVE  \/ pc'[r] = pc[r] /\ run'[r] = run[r]
         \/ Step(r) \/ Call(r) \/ Crash(r)
<1> USE DEF EngineOK, TypeOK
<1>1. ASSUME NEW s \in Caller, s # r, Step(s)
      PROVE  pc'[r] = pc[r] /\ run'[r] = run[r]
  BY <1>1
     DEF Step, Resume, ResumeRefused, StageRefused, EnterLoading, Enter, Load, LoadFails,
         EnterCallingModel, AfterResponse, Reserve, ReserveRefused, Dispatch,
         CancelledBeforeDispatch, Respond, GatewayFails, Complete, RecordFailure,
         Validate, Interpret, Evaluate, Prepare, CommitRun, CommitRefused, Terminate,
         TerminateRefused, Return, Throw, Goto
<1>2. ASSUME NEW s \in Caller, s # r, Call(s) \/ Crash(s)
      PROVE  pc'[r] = pc[r] /\ run'[r] = run[r]
  BY <1>2 DEF Call, Create, Conflict, Replay, Rejoin, Crash, Goto
<1>3. ASSUME (\E k \in Key : Inspect(k)) \/ (\E now \in Instant : Discharge(now))
      PROVE  UNCHANGED <<pc, run>>
  BY <1>3 DEF Inspect, Discharge
<1>4. UNCHANGED vars => UNCHANGED <<pc, run>>
  BY DEF vars
<1> QED
  BY <1>1, <1>2, <1>3, <1>4 DEF Next

(* Where any call can get in any step that reserves nothing for it. *)
LEMMA ProgressStep ==
  ASSUME EngineOK, [Next]_vars, NEW r \in Caller, ~Reserve(r), pc[r] # "idle"
  PROVE  /\ pc'[r] # "idle" /\ run'[r].key = run[r].key
         /\ \/ /\ run'[r].repair = run[r].repair
               /\ BeforeReserve(r)' => BeforeReserve(r)
               /\ BeforeDispatch(r)' => BeforeDispatch(r)
            \/ run'[r].repair = run[r].repair + 1 /\ pc'[r] = "reserve"
         /\ Dispatch(r) => pc'[r] = "await"
<1>1. CASE pc'[r] = pc[r] /\ run'[r] = run[r]
  BY <1>1 DEF BeforeReserve, BeforeDispatch, Dispatch, Goto, EngineOK, TypeOK
<1>2. CASE Step(r)
  BY <1>2, ControlStep DEF Dispatch, Goto, EngineOK, TypeOK
<1>3. CASE Call(r)
  BY <1>3 DEF Call, Create, Conflict, Replay, Rejoin
<1>4. CASE Crash(r)
  BY <1>4 DEF Crash, Goto, BeforeReserve, BeforeDispatch, Ended, Dispatch, EngineOK, TypeOK
<1> QED
  BY <1>1, <1>2, <1>3, <1>4, OthersStep

LEMMA StartStep ==
  ASSUME EngineOK, [Next]_vars, NEW r \in Caller, pc[r] = "idle"
  PROVE  ~BeforeDispatch(r)'
<1>1. CASE pc'[r] = pc[r]
  BY <1>1 DEF BeforeDispatch
<1>2. CASE Call(r)
  BY <1>2 DEF Call, Create, Conflict, Replay, Rejoin, Goto, BeforeDispatch, EngineOK, TypeOK
<1>3. ~Step(r) /\ ~Crash(r)
  BY DEF Step, Resume, ResumeRefused, StageRefused, EnterLoading, Enter, Load, LoadFails,
         EnterCallingModel, Reserve, ReserveRefused, Dispatch, CancelledBeforeDispatch,
         Respond, GatewayFails, Complete, RecordFailure, Validate, Interpret, Evaluate,
         Prepare, CommitRun, CommitRefused, Terminate, TerminateRefused, Crash, Stage
<1> QED
  BY <1>1, <1>2, <1>3, OthersStep

LEMMA DispatchStep ==
  ASSUME EngineOK, DispatchOK, [Next]_vars
  PROVE  DispatchOK'
<1> USE DEF DispatchOK
<1>0. \A r \in Caller : /\ pc[r] \in Pc /\ run[r] \in RunState
                        /\ run[r].repair \in CallKey
                        /\ pc[r] # "idle" => run[r].key \in Key
                        /\ pc'[r] \in Pc /\ run'[r].repair \in CallKey
                        /\ pc'[r] # "idle" => run'[r].key \in Key
  BY EngineStep DEF EngineOK, TypeOK, RunState, CallKey
<1>1. CallKey \subseteq Nat
  BY RepositoryAssumption DEF CallKey
<1>2. \A r \in Caller : BeforeReserve(r) => ~BeforeDispatch(r)
  BY DEF BeforeReserve, BeforeDispatch
(* A call that reserves does so for the first time under this key. *)
<1>3. ASSUME NEW r \in Caller, Reserve(r)
      PROVE  /\ NewlyReserved(r, run[r].key, run[r].repair)
             /\ pc'[r] # "idle" /\ ~BeforeReserve(r)' /\ run' = run
             /\ pc[r] = "reserve" /\ dispatched' = dispatched
  <2> DEFINE k == run[r].key
             c == run[r].repair
  <2>1. k \in Key /\ c \in CallKey /\ pc[r] = "reserve"
    BY <1>0, <1>3 DEF Reserve
  <2>2. modelCall[k][c].id # r
    <3>1. c \in Nat /\ ~(c < c)
      BY <1>1, <2>1
    <3> QED
      BY <2>1, <3>1 DEF ReservationOwned, BeforeReserve
  <2>3. modelCall[k][c].status = "none"
    BY <1>3, <2>2, RepositoryAssumption DEF Reserve, ReserveError, Error, MutableError
  <2>4. modelCall'[k][c] = [NoCall EXCEPT !.status = "reserved", !.id = r]
    BY <1>3, <2>1, <2>3 DEF Reserve, ReserveModelCall, EngineOK, RepositoryOK,
                           RepositoryTypeOK
  <2>5. NewlyReserved(r, k, c)
    BY <1>3, <2>3, <2>4 DEF NewlyReserved, NoCall
  <2>6. pc'[r] # "idle" /\ ~BeforeReserve(r)' /\ run' = run /\ dispatched' = dispatched
    BY <1>3 DEF Reserve, Goto, BeforeReserve, EngineOK, TypeOK
  <2> QED
    BY <2>1, <2>5, <2>6
<1>4. ReservationOwned'
  <2> SUFFICES ASSUME NEW k \in Key, NEW c \in CallKey, NEW r \in Caller,
                      modelCall'[k][c].id = r
               PROVE  /\ pc'[r] # "idle" /\ run'[r].key = k
                      /\ c <= run'[r].repair
                      /\ BeforeReserve(r)' => c < run'[r].repair
    BY DEF ReservationOwned
  <2>1. CASE modelCall[k][c].id = r
    <3>1. /\ pc[r] # "idle" /\ run[r].key = k /\ c <= run[r].repair
          /\ BeforeReserve(r) => c < run[r].repair
      BY <2>1 DEF ReservationOwned
    <3>2. CASE Reserve(r)
      BY <1>3, <3>1, <3>2
    <3>3. CASE ~Reserve(r)
      <4>1. c \in Nat /\ run[r].repair \in Nat
        BY <1>0, <1>1
      <4>2. CASE /\ run'[r].repair = run[r].repair
                 /\ BeforeReserve(r)' => BeforeReserve(r)
        BY <3>1, <3>3, <4>2, ProgressStep
      <4>3. CASE run'[r].repair = run[r].repair + 1
        BY <3>1, <3>3, <4>1, <4>3, ProgressStep
      <4> QED
        BY <3>1, <3>3, <4>2, <4>3, ProgressStep
    <3> QED
      BY <3>2, <3>3
  <2>2. CASE NewlyReserved(r, k, c)
    <3>1. Reserve(r) /\ run[r].key = k /\ run[r].repair = c
      BY <2>2 DEF NewlyReserved
    <3>2. pc'[r] # "idle" /\ ~BeforeReserve(r)' /\ run' = run
      BY <1>3, <3>1
    <3> QED
      BY <1>1, <3>1, <3>2
  <2> QED
    BY <2>1, <2>2, CallRowsStep DEF NewlyReserved
<1>5. SentOnce'
  <2> SUFFICES ASSUME NEW k \in Key, NEW c \in CallKey
               PROVE  /\ dispatched'[k][c] <= 1
                      /\ modelCall'[k][c].status = "none" => dispatched'[k][c] = 0
    BY DEF SentOnce
  <2>1. modelCall'[k][c].status = "none" => modelCall[k][c].status = "none"
    BY CallRowsStep DEF NewlyReserved
  <2>2. CASE dispatched' = dispatched
    BY <2>1, <2>2 DEF SentOnce
  <2>3. ASSUME NEW r \in Caller, Dispatch(r)
        PROVE  /\ dispatched'[k][c] <= 1
               /\ modelCall'[k][c].status = "none" => dispatched'[k][c] = 0
    <3>1. CASE run[r].key = k /\ run[r].repair = c
      <4>1. dispatched[k][c] = 0 /\ modelCall[k][c].status # "none"
        BY <2>3, <3>1 DEF Dispatch, ReservedBeforeSent, BeforeDispatch
      <4>2. dispatched'[k][c] = 1
        BY <2>3, <3>1, <4>1 DEF Dispatch, EngineOK, TypeOK
      <4> QED
        BY <2>1, <4>1, <4>2
    <3>2. CASE ~(run[r].key = k /\ run[r].repair = c)
      <4>1. dispatched'[k][c] = dispatched[k][c]
        BY <1>0, <2>3, <3>2 DEF Dispatch, EngineOK, TypeOK
      <4> QED
        BY <2>1, <4>1 DEF SentOnce
    <3> QED
      BY <3>1, <3>2
  <2> QED
    BY <2>2, <2>3, DispatchedStep
<1>6. ReservedBeforeSent'
  <2> SUFFICES ASSUME NEW r \in Caller, BeforeDispatch(r)'
               PROVE  LET k == run'[r].key
                          c == run'[r].repair
                      IN
                      /\ modelCall'[k][c].id = r
                      /\ modelCall'[k][c].status # "none"
                      /\ dispatched'[k][c] = 0
    BY DEF ReservedBeforeSent
  <2>1. CASE Reserve(r)
    BY <1>0, <1>3, <2>1 DEF NewlyReserved, SentOnce
  <2>2. CASE ~Reserve(r)
    <3> DEFINE k == run[r].key
               c == run[r].repair
    <3>1. pc[r] # "idle"
      BY StartStep
    <3>2. /\ run'[r].key = k /\ run'[r].repair = c
          /\ BeforeDispatch(r) /\ ~Dispatch(r)
      BY <2>2, <3>1, ProgressStep DEF BeforeDispatch
    <3>3. /\ modelCall[k][c].id = r /\ modelCall[k][c].status # "none"
          /\ dispatched[k][c] = 0
      BY <3>2 DEF ReservedBeforeSent
    <3>4. k \in Key /\ c \in CallKey
      BY <1>0, <3>1
    <3>5. modelCall'[k][c].id = r /\ modelCall'[k][c].status # "none"
      BY <3>3, <3>4, CallRowsStep DEF NewlyReserved
    <3>6. ASSUME NEW s \in Caller, Dispatch(s)
          PROVE  dispatched'[k][c] = 0
      <4>1. s # r /\ pc[s] = "dispatch"
        BY <3>2, <3>6 DEF Dispatch
      <4>2. ~(run[s].key = k /\ run[s].repair = c)
        BY <3>3, <4>1 DEF ReservedBeforeSent, BeforeDispatch
      <4>3. dispatched'[k][c] = dispatched[k][c]
        BY <1>0, <3>4, <3>6, <4>1, <4>2 DEF Dispatch, EngineOK, TypeOK
      <4> QED
        BY <3>3, <4>3
    <3> QED
      BY <3>2, <3>3, <3>5, <3>6, DispatchedStep
  <2> QED
    BY <2>1, <2>2
<1> QED
  BY <1>4, <1>5, <1>6

(* However many calls of execute() race, crash, resume and repair, each     *)
(* logical model call is sent to the provider at most once.                 *)
THEOREM DispatchedOnce == Spec => []DispatchedAtMostOnce
<1>1. Init => EngineOK /\ DispatchOK
  <2>1. ASSUME Init PROVE DispatchOK
    BY <2>1, RepositoryAssumption
       DEF Init, RepositoryInit, NoCall, DispatchOK, ReservationOwned, SentOnce,
           ReservedBeforeSent, BeforeDispatch
  <2> QED
    BY <2>1, EngineInit
<1>2. (EngineOK /\ DispatchOK) /\ [Next]_vars => (EngineOK /\ DispatchOK)'
  BY EngineStep, DispatchStep
<1>3. DispatchOK => DispatchedAtMostOnce
  BY DEF DispatchOK, SentOnce, DispatchedAtMostOnce
<1> QED
  BY <1>1, <1>2, <1>3, PTL DEF Spec

-----------------------------------------------------------------------------
(* What a call of execute() reports is what the ledger says, for good.     *)

OutcomeOK ==
  \A r \in Caller :
    /\ pc[r] = "returned" /\ run[r].outcome # "other-request" =>
         /\ run[r].outcome \in Terminal
         /\ execution[run[r].key].status = run[r].outcome
    /\ pc[r] = "rejected" => execution[run[r].key].status \in Terminal

LEMMA OutcomeStep ==
  ASSUME EngineOK, Consistent, OutcomeOK, [Next]_vars, NEW r \in Caller
  PROVE  /\ pc'[r] = "returned" /\ run'[r].outcome # "other-request" =>
              /\ run'[r].outcome \in Terminal
              /\ execution'[run'[r].key].status = run'[r].outcome
         /\ pc'[r] = "rejected" => execution'[run'[r].key].status \in Terminal
<1> USE DEF EngineOK, RepositoryOK
<1>0. run[r] \in RunState /\ RunFits(pc[r], run[r])
  BY DEF TypeOK, RunOK
<1>1. RepositoryStep
  BY StepByMethods
<1>2. CASE pc'[r] = pc[r] /\ run'[r] = run[r]
  <2>1. pc[r] # "idle" => run[r].key \in Key
    BY <1>0 DEF RunFits
  <2> QED
    BY <1>1, <1>2, <2>1, TerminalStep DEF OutcomeOK
<1>3. CASE Call(r)
  <2> PICK k \in Key, request \in Request, policy \in Policy, now \in Instant :
        \/ Create(r, k, request, policy, now)
        \/ Conflict(r, k, request, policy, now)
        \/ Replay(r, k, request, policy, now)
        \/ Rejoin(r, k, request, policy, now)
    BY <1>3 DEF Call
  <2>1. CASE Create(r, k, request, policy, now) \/ Rejoin(r, k, request, policy, now)
    BY <2>1 DEF Create, Rejoin, Goto, TypeOK
  <2>2. CASE Conflict(r, k, request, policy, now)
    BY <2>2 DEF Conflict, Goto, TypeOK, NewRun, NoRun
  <2>3. CASE Replay(r, k, request, policy, now)
    <3>1. pc'[r] = "returned" /\ execution' = execution
      BY <2>3 DEF Replay, Goto, TypeOK, repository
    <3>2. run'[r].key = k /\ run'[r].outcome = execution[k].status
      BY <2>3 DEF Replay, NewRun, NoRun, TypeOK
    <3>3. execution[k].status \in Terminal
      BY <2>3 DEF Replay, Mutable
    <3> QED
      BY <3>1, <3>2, <3>3
  <2> QED
    BY <2>1, <2>2, <2>3
<1>4. CASE Crash(r)
  BY <1>4 DEF Crash, Goto, TypeOK
<1>5. CASE CommitRun(r)
  <2>1. run[r].key \in Key /\ run[r].prepared \in Prepared
    BY <1>0, <1>5 DEF CommitRun, RunFits, Ended
  <2>2. execution'[run[r].key].status = "committed"
    <3>1. CASE Commit(run[r].key, run[r].prepared)
      BY <1>5, <2>1, <3>1, CommitType DEF CommitRun
    <3>2. CASE execution[run[r].key].commit # NoCommit /\ UNCHANGED repository
      BY <2>1, <3>2 DEF Consistent, NoEffectWithoutCommit, repository
    <3> QED
      BY <1>5, <3>1, <3>2 DEF CommitRun
  <2>3. pc'[r] = "returned" /\ run'[r].outcome = "committed" /\ run'[r].key = run[r].key
    BY <1>0, <1>5 DEF CommitRun, Return, Goto, TypeOK, RunState
  <2> QED
    BY <2>2, <2>3 DEF Terminal
<1>6. CASE Terminate(r)
  <2> DEFINE k == run[r].key
             status == TerminalStatus(run[r].error)
  <2>1. k \in Key /\ run[r].error \in Error /\ run[r].now \in Instant
    BY <1>0, <1>6 DEF Terminate, RunFits, Ended
  <2>2. status \in Terminal
    BY <2>1, TerminalStatusType
  <2>3. /\ TerminalError(k, status, run[r].error, run[r].now) = None
        /\ MarkTerminal(k, status, run[r].error, run[r].now)
        /\ Return(r, status)
    BY <1>6 DEF Terminate
  <2> HIDE DEF status
  <2>4. execution'[k].status = status
    BY <2>1, <2>2, <2>3, TerminalType
  <2>5. pc'[r] = "returned" /\ run'[r].outcome = status /\ run'[r].key = k
    BY <1>0, <2>3 DEF Return, Goto, TypeOK, RunState
  <2> QED
    BY <2>2, <2>4, <2>5
<1>7. CASE TerminateRefused(r)
  <2>1. run[r].key \in Key /\ Exists(run[r].key)
    BY <1>0, <1>7 DEF TerminateRefused, RunFits, RunOK
  <2>2. execution[run[r].key].status \in Terminal
    BY <1>7, <2>1 DEF TerminateRefused, TerminalError, Mutable
  <2>3. pc'[r] = "rejected" /\ run'[r] = run[r] /\ execution' = execution
    BY <1>7 DEF TerminateRefused, Goto, TypeOK, repository
  <2> QED
    BY <2>2, <2>3
<1>8. ASSUME Step(r), ~CommitRun(r), ~Terminate(r), ~TerminateRefused(r)
      PROVE  pc'[r] \notin {"returned", "rejected"}
  BY <1>8
     DEF Step, Resume, ResumeRefused, StageRefused, EnterLoading, Enter, Load, LoadFails,
         EnterCallingModel, AfterResponse, Reserve, ReserveRefused, Dispatch,
         CancelledBeforeDispatch, Respond, GatewayFails, Complete, RecordFailure,
         Validate, Interpret, Evaluate, Prepare, CommitRefused, Throw, Goto, TypeOK
<1> QED
  BY <1>2, <1>3, <1>4, <1>5, <1>6, <1>7, <1>8, OthersStep

LEMMA OutcomeInvariant == Spec => []OutcomeOK
<1>1. Init => EngineOK /\ Consistent /\ OutcomeOK
  BY EngineInit, InitConsistent DEF Init, OutcomeOK
<1>2. (EngineOK /\ Consistent /\ OutcomeOK) /\ [Next]_vars
        => (EngineOK /\ Consistent /\ OutcomeOK)'
  <2> SUFFICES ASSUME EngineOK, Consistent, OutcomeOK, [Next]_vars
               PROVE  (EngineOK /\ Consistent /\ OutcomeOK)'
    OBVIOUS
  <2>1. EngineOK' /\ Consistent'
    BY EngineStep, StepByMethods, StepConsistent DEF EngineOK
  <2>2. OutcomeOK'
    BY OutcomeStep DEF OutcomeOK
  <2> QED
    BY <2>1, <2>2
<1> QED
  BY <1>1, <1>2, PTL DEF Spec

(* No caller is told of an outcome that the ledger does not hold, or that   *)
(* another caller or an operator overturns later.                           *)
THEOREM OutcomesAreRecorded == Spec => []OutcomeMatchesLedger
<1>1. OutcomeOK => OutcomeMatchesLedger
  BY DEF OutcomeOK, OutcomeMatchesLedger
<1> QED
  BY <1>1, OutcomeInvariant, PTL

(* A call that ends without dying leaves a terminal execution behind.      *)
THEOREM EndedCallsAreTerminal == Spec => []EndedMeansTerminal
<1>1. OutcomeOK => EndedMeansTerminal
  BY DEF OutcomeOK, EndedMeansTerminal, Mutable
<1> QED
  BY <1>1, OutcomeInvariant, PTL

(* How a call of execute() ended and what the ledger says go together, for  *)
(* any number of calls that race, crash, resume and repair.                 *)
THEOREM CallsEndAsRecorded == Spec => []EndedAsRecorded
<1>1. TypeOK /\ OutcomeMatchesLedger /\ EndedMeansTerminal => EndedAsRecorded
  BY DEF EndedAsRecorded
<1> QED
  BY <1>1, TypeCorrect, OutcomesAreRecorded, EndedCallsAreTerminal, PTL

-----------------------------------------------------------------------------
(* A commit rests on recorded evidence.                                    *)

(* The call is on its way to, or waits for, a new response. *)
Asking == {"reserve", "dispatch", "await", "complete", "fail-call"}

Accepted == {"interpreting", "evaluating", "preparing-commit", "commit"}

(* The call works with a response that has been recorded. *)
HasAnswer(r) ==
  \/ pc[r] \in Accepted \cup {"validating"}
  \/ run[r].resumed /\ pc[r] \in {"loading", "load", "calling-model"}

AnswerOK(r) ==
  LET k == run[r].key
      c == run[r].repair
  IN
  /\ pc[r] \in Asking => ~run[r].resumed
  /\ pc[r] \in Accepted => PipelineOK(run[r].response)
  /\ pc[r] # "idle" =>
       \A b \in CallKey :
         b < c => /\ modelCall[k][b].status = "succeeded"
                  /\ modelCall[k][b].response = "repairable"
  /\ HasAnswer(r) => /\ modelCall[k][c].status = "succeeded"
                     /\ modelCall[k][c].response = run[r].response

(* A step of the call that neither records a response nor resumes with one. *)
LEMMA AnswerControl ==
  ASSUME EngineOK, NEW r \in Caller, AnswerOK(r), Step(r), ~Resume(r), ~Complete(r)
  PROVE  /\ run'[r].key = run[r].key
         /\ pc'[r] \in Asking => ~run'[r].resumed
         /\ pc'[r] \in Accepted => PipelineOK(run'[r].response)
         /\ \/ /\ run'[r].repair = run[r].repair
               /\ HasAnswer(r)' => HasAnswer(r) /\ run'[r].response = run[r].response
            \/ /\ run'[r].repair = run[r].repair + 1 /\ pc'[r] = "reserve"
               /\ HasAnswer(r) /\ run[r].response = "repairable"
<1> USE DEF EngineOK, TypeOK, RunState, Goto, Asking, Accepted, HasAnswer
<1>0. ASSUME pc[r] # "idle", NEW error, Throw(r, error)
      PROVE  /\ pc'[r] = "terminate"
             /\ run'[r].key = run[r].key /\ run'[r].repair = run[r].repair
  BY <1>0 DEF Throw
<1>1. ASSUME pc[r] # "idle", NEW error, NEW at \in {"terminate", "fail-call"}, Goto(r, at),
             run' = [run EXCEPT ![r].error = error], pc[r] \in Asking
      PROVE  /\ pc'[r] = at
             /\ run'[r].key = run[r].key /\ run'[r].repair = run[r].repair
             /\ ~run'[r].resumed
  BY <1>1 DEF AnswerOK
<1>2. CASE ResumeRefused(r) \/ StageRefused(r)
  BY <1>0, <1>2 DEF ResumeRefused, StageRefused, Stage
<1>3. CASE EnterLoading(r)
  BY <1>3 DEF EnterLoading, Enter
<1>4. CASE Load(r)
  <2>1. ASSUME NEW version, run' = [run EXCEPT ![r].memory = version]
        PROVE  /\ run'[r].key = run[r].key /\ run'[r].repair = run[r].repair
               /\ run'[r].resumed = run[r].resumed
               /\ run'[r].response = run[r].response
    BY <2>1
  <2>2. /\ run'[r].key = run[r].key /\ run'[r].repair = run[r].repair
        /\ run'[r].resumed = run[r].resumed
        /\ run'[r].response = run[r].response
    BY <1>4, <2>1 DEF Load
  <2>3. pc[r] = "load" /\ pc'[r] = "calling-model"
    BY <1>4 DEF Load
  <2> QED
    BY <2>2, <2>3
<1>5. CASE \E error \in Error : LoadFails(r, error)
  BY <1>0, <1>5 DEF LoadFails
<1>6. CASE EnterCallingModel(r)
  <2>1. CASE run[r].resumed
    BY <1>0, <1>6, <2>1 DEF EnterCallingModel, Enter, AfterResponse
  <2>2. CASE ~run[r].resumed
    BY <1>6, <2>2 DEF EnterCallingModel, Enter
  <2> QED
    BY <2>1, <2>2
<1>7. CASE Reserve(r)
  BY <1>7 DEF Reserve, AnswerOK
<1>8. CASE ReserveRefused(r)
  BY <1>0, <1>8 DEF ReserveRefused
<1>9. CASE Dispatch(r)
  BY <1>9 DEF Dispatch, AnswerOK
<1>10. CASE CancelledBeforeDispatch(r) \/ \E error \in GatewayError : GatewayFails(r, error)
  BY <1>1, <1>10 DEF CancelledBeforeDispatch, GatewayFails
<1>11. CASE \E response \in Response : Respond(r, response)
  BY <1>11 DEF Respond, AnswerOK
<1>12. CASE RecordFailure(r)
  BY <1>0, <1>12 DEF RecordFailure
<1>13. CASE Validate(r)
  <2>1. CASE PipelineOK(run[r].response)
    BY <1>13, <2>1 DEF Validate, Enter
  <2>2. CASE ~PipelineOK(run[r].response) /\ Repairs(r)
    <3>1. run' = [run EXCEPT ![r].repair = @ + 1] /\ Goto(r, "reserve")
      BY <1>13, <2>2 DEF Validate
    <3> QED
      BY <1>13, <2>2, <3>1 DEF Validate, Enter, Repairs
  <2>3. CASE ~PipelineOK(run[r].response) /\ ~Repairs(r)
    BY <1>0, <1>13, <2>3 DEF Validate, Enter
  <2> QED
    BY <2>1, <2>2, <2>3
<1>14. CASE Interpret(r)
  BY <1>0, <1>14 DEF Interpret, Enter, AnswerOK
<1>15. CASE Evaluate(r)
  BY <1>15 DEF Evaluate, Enter, AnswerOK
<1>16. CASE Prepare(r)
  <2>1. ASSUME NEW prepared, run' = [run EXCEPT ![r].prepared = prepared]
        PROVE  /\ run'[r].key = run[r].key /\ run'[r].repair = run[r].repair
               /\ run'[r].response = run[r].response
    BY <2>1
  <2>2. CASE Goto(r, "commit") /\ \E prepared : run' = [run EXCEPT ![r].prepared = prepared]
    <3>1. /\ run'[r].key = run[r].key /\ run'[r].repair = run[r].repair
          /\ run'[r].response = run[r].response
      BY <2>1, <2>2
    <3>2. pc[r] = "preparing-commit" /\ pc'[r] = "commit"
      BY <1>16, <2>2 DEF Prepare, Enter
    <3> QED
      BY <3>1, <3>2 DEF AnswerOK
  <2>3. CASE \E error \in ModuleError : Throw(r, error)
    BY <1>0, <1>16, <2>3 DEF Prepare, Enter, AnswerOK
  <2> QED
    BY <1>16, <2>2, <2>3 DEF Prepare
<1>17. CASE CommitRun(r) \/ Terminate(r)
  BY <1>17 DEF CommitRun, Terminate, Return
<1>18. CASE CommitRefused(r)
  BY <1>0, <1>18 DEF CommitRefused
<1>19. CASE TerminateRefused(r)
  BY <1>19 DEF TerminateRefused
<1> QED
  BY <1>2, <1>3, <1>4, <1>5, <1>6, <1>7, <1>8, <1>9, <1>10, <1>11, <1>12, <1>13,
     <1>14, <1>15, <1>16, <1>17, <1>18, <1>19
     DEF Step

(* A recorded response never changes. *)
LEMMA RecordedStep ==
  ASSUME EngineOK, [Next]_vars, NEW k \in Key, NEW c \in CallKey,
         modelCall[k][c].status = "succeeded"
  PROVE  modelCall'[k][c] = modelCall[k][c]
<1> USE DEF EngineOK, RepositoryOK
<1>1. RepositoryStep
  BY StepByMethods
<1>2. ASSUME NEW j \in Key, Accepts(j) \/ AppendsAttempt(j) \/ Commits(j) \/ MarksTerminal(j)
      PROVE  UNCHANGED modelCall
  BY <1>2 DEF Accepts, Accept, AppendsAttempt, AppendAttempt, Commits, Commit,
              MarksTerminal, MarkTerminal
<1>3. ASSUME NEW j \in Key, Reserves(j) \/ Completes(j) \/ Fails(j)
      PROVE  modelCall'[k][c] = modelCall[k][c]
  BY <1>3, CallType
<1> QED
  BY <1>1, <1>2, <1>3 DEF RepositoryStep, Method, PlainMethod, repository

LEMMA AnswerStep ==
  ASSUME EngineOK, [Next]_vars, NEW r \in Caller, AnswerOK(r)
  PROVE  AnswerOK(r)'
<1> DEFINE k == run[r].key
           c == run[r].repair
<1>0. /\ run[r] \in RunState /\ RunFits(pc[r], run[r])
      /\ c \in CallKey /\ c \in Nat
      /\ pc[r] # "idle" => k \in Key
  BY RepositoryAssumption DEF EngineOK, TypeOK, RunState, RunOK, RunFits, CallKey
<1>1. pc[r] # "idle" =>
        \A b \in CallKey :
          b < c => /\ modelCall'[k][b].status = "succeeded"
                   /\ modelCall'[k][b].response = "repairable"
  BY <1>0, RecordedStep DEF AnswerOK
<1>2. HasAnswer(r) => /\ modelCall'[k][c].status = "succeeded"
                      /\ modelCall'[k][c].response = run[r].response
                      /\ pc[r] # "idle"
  <2>1. HasAnswer(r) => pc[r] # "idle"
    BY DEF HasAnswer, Accepted
  <2> QED
    BY <1>0, <2>1, RecordedStep DEF AnswerOK
<1>3. CASE pc'[r] = pc[r] /\ run'[r] = run[r]
  BY <1>1, <1>2, <1>3 DEF AnswerOK, HasAnswer
<1>4. CASE Crash(r)
  BY <1>1, <1>4 DEF Crash, Goto, AnswerOK, HasAnswer, Asking, Accepted, EngineOK, TypeOK
<1>5. CASE Call(r)
  <2>1. /\ pc'[r] \in {"loading", "returned", "resume"}
        /\ run'[r].repair = 0 /\ ~run'[r].resumed
    <3> PICK j \in Key, request \in Request, policy \in Policy, now \in Instant :
          \/ Create(r, j, request, policy, now)
          \/ Conflict(r, j, request, policy, now)
          \/ Replay(r, j, request, policy, now)
          \/ Rejoin(r, j, request, policy, now)
      BY <1>5 DEF Call
    <3> DEFINE new == NewRun(j, request, policy, now)
    <3>1. new.repair = 0 /\ ~new.resumed
      BY DEF NewRun, NoRun
    <3>2. [new EXCEPT !.attempt = 1].repair = 0 /\ ~[new EXCEPT !.attempt = 1].resumed
      BY DEF NewRun, NoRun
    <3>3. ASSUME NEW outcome
          PROVE  /\ [new EXCEPT !.outcome = outcome].repair = 0
                 /\ ~[new EXCEPT !.outcome = outcome].resumed
      BY DEF NewRun, NoRun
    <3> HIDE DEF new
    <3> USE DEF Goto, EngineOK, TypeOK
    <3>4. CASE Create(r, j, request, policy, now)
      BY <3>2, <3>4 DEF Create, new
    <3>5. CASE Conflict(r, j, request, policy, now)
      BY <3>3, <3>5 DEF Conflict, new
    <3>6. CASE Replay(r, j, request, policy, now)
      BY <3>3, <3>6 DEF Replay, new
    <3>7. CASE Rejoin(r, j, request, policy, now)
      BY <3>1, <3>7 DEF Rejoin, new
    <3> QED
      BY <3>4, <3>5, <3>6, <3>7
  <2>2. \A b \in CallKey : ~(b < 0)
    BY RepositoryAssumption DEF CallKey
  <2> QED
    BY <2>1, <2>2 DEF AnswerOK, HasAnswer, Asking, Accepted
<1>6. CASE Resume(r)
  <2>1. /\ pc'[r] = "loading" /\ pc[r] = "resume"
        /\ run'[r].key = k /\ run'[r].repair = c /\ c = 0
        /\ modelCall' = modelCall
    BY <1>0, <1>6 DEF Resume, Goto, EngineOK, TypeOK, RunFits, repository
  <2>2. /\ run'[r].resumed = (modelCall[k][0].status = "succeeded")
        /\ run'[r].response = modelCall[k][0].response
    BY <1>0, <1>6 DEF Resume, EngineOK, TypeOK
  <2> QED
    BY <1>1, <2>1, <2>2 DEF AnswerOK, HasAnswer, Asking, Accepted
<1>7. CASE Complete(r)
  <2>1. pc[r] = "complete" /\ run'[r].key = k /\ run'[r].repair = c
        /\ run'[r].response = run[r].response /\ pc'[r] \in {"validating", "terminate"}
        /\ run'[r].resumed = run[r].resumed
    BY <1>0, <1>7 DEF Complete, AfterResponse, Throw, Goto, EngineOK, TypeOK, RunState
  <2>2. /\ modelCall'[k][c].status = "succeeded"
        /\ modelCall'[k][c].response = run[r].response
    <3> DEFINE record == [modelCall[k][c] EXCEPT !.status = "succeeded",
                                                 !.response = run[r].response]
    <3>1. modelCall \in [Key -> [CallKey -> CallRecord]] /\ k \in Key
      BY <1>0, <2>1 DEF EngineOK, RepositoryOK, RepositoryTypeOK
    <3>2. modelCall' = [modelCall EXCEPT ![k] = [@ EXCEPT ![c] = record]]
      BY <1>7 DEF Complete, CompleteModelCall
    <3>3. modelCall'[k][c] = record
      BY <1>0, <3>1, <3>2
    <3>4. record.status = "succeeded" /\ record.response = run[r].response
      BY <1>0, <3>1 DEF CallRecord
    <3> QED
      BY <3>3, <3>4
  <2> QED
    BY <1>1, <2>1, <2>2 DEF AnswerOK, HasAnswer, Asking, Accepted
<1>8. CASE Step(r) /\ ~Resume(r) /\ ~Complete(r)
  <2>0. /\ run'[r].key = k
        /\ pc'[r] \in Asking => ~run'[r].resumed
        /\ pc'[r] \in Accepted => PipelineOK(run'[r].response)
        /\ pc[r] # "idle"
    BY <1>8, AnswerControl, ControlStep DEF Reserve
  <2>1. CASE /\ run'[r].repair = c
             /\ HasAnswer(r)' => HasAnswer(r) /\ run'[r].response = run[r].response
    BY <1>1, <1>2, <2>0, <2>1 DEF AnswerOK
  <2>2. CASE /\ run'[r].repair = c + 1 /\ pc'[r] = "reserve"
             /\ HasAnswer(r) /\ run[r].response = "repairable"
    <3>1. \A b \in CallKey : b < c + 1 => b < c \/ b = c
      BY <1>0, RepositoryAssumption DEF CallKey
    <3>2. ~HasAnswer(r)'
      BY <2>0, <2>2 DEF HasAnswer, Accepted
    <3> QED
      BY <1>1, <1>2, <2>0, <2>2, <3>1, <3>2 DEF AnswerOK
  <2> QED
    BY <1>8, <2>1, <2>2, AnswerControl
<1> QED
  BY <1>3, <1>4, <1>5, <1>6, <1>7, <1>8, OthersStep

(* The recorded evidence of a committed execution. *)
Evidence(k, c) ==
  /\ modelCall[k][c].status = "succeeded"
  /\ PipelineOK(modelCall[k][c].response)
  /\ \A b \in CallKey :
       b < c => /\ modelCall[k][b].status = "succeeded"
                /\ modelCall[k][b].response = "repairable"

CommittedOK ==
  \A k \in Key :
    execution[k].status = "committed" => \E c \in CallKey : Evidence(k, c)

LEMMA EvidenceStep ==
  ASSUME EngineOK, [Next]_vars, NEW k \in Key, NEW c \in CallKey, Evidence(k, c)
  PROVE  Evidence(k, c)'
BY RecordedStep DEF Evidence

LEMMA CommittedStep ==
  ASSUME EngineOK, Consistent, \A r \in Caller : AnswerOK(r), CommittedOK, [Next]_vars
  PROVE  CommittedOK'
<1> USE DEF EngineOK, RepositoryOK
<1> SUFFICES ASSUME NEW k \in Key, execution'[k].status = "committed"
             PROVE  \E c \in CallKey : Evidence(k, c)'
  BY DEF CommittedOK
<1>1. CASE execution[k].status = "committed"
  BY <1>1, EvidenceStep DEF CommittedOK
<1>2. ASSUME NEW r \in Caller, CommitRun(r), run[r].key = k
      PROVE  \E c \in CallKey : Evidence(k, c)'
  <2>1. run[r].repair \in CallKey /\ pc[r] = "commit"
    BY <1>2 DEF TypeOK, RunState, CallKey, CommitRun
  <2>2. Evidence(k, run[r].repair)
    BY <1>2, <2>1 DEF AnswerOK, HasAnswer, Accepted, Evidence
  <2> QED
    BY <2>1, <2>2, EvidenceStep
<1>3. ASSUME NEW r \in Caller, CommitRun(r), run[r].key # k
      PROVE  execution[k].status = "committed"
  <2>1. run[r].key \in Key /\ run[r].prepared \in Prepared
    BY <1>3 DEF CommitRun, RunOK, RunFits
  <2> QED
    BY <1>3, <2>1, CommitType DEF CommitRun, repository
<1>4. ASSUME NEW j \in Key, PlainMethod(j)
      PROVE  execution[k].status = "committed"
  <2>1. CASE Accepts(j)
    BY <2>1, AcceptType
  <2>2. CASE AppendsAttempt(j)
    BY <2>2, AppendType DEF Mutable, Terminal
  <2>3. CASE MarksTerminal(j)
    BY <2>3, TerminalType DEF MarksTerminal
  <2>4. CASE Reserves(j) \/ Completes(j) \/ Fails(j)
    BY <2>4, CallType
  <2> QED
    BY <1>4, <2>1, <2>2, <2>3, <2>4 DEF PlainMethod
<1>5. CASE UNCHANGED repository
  BY <1>1, <1>5 DEF repository
<1> QED
  BY <1>1, <1>2, <1>3, <1>4, <1>5, StepMethods

(* Every commit rests on a recorded response that the pipeline accepts,     *)
(* whatever the racing, resuming and repairing calls do.                    *)
THEOREM CommitsRestOnEvidence == Spec => []CommittedFromRecordedResponse
<1> DEFINE Inv == /\ EngineOK /\ Consistent /\ CommittedOK
                  /\ \A r \in Caller : AnswerOK(r)
<1>1. Init => Inv
  BY EngineInit, InitConsistent
     DEF Init, RepositoryInit, NoExecution, CommittedOK, AnswerOK, HasAnswer, Asking, Accepted
<1>2. Inv /\ [Next]_vars => Inv'
  <2> SUFFICES ASSUME Inv, [Next]_vars PROVE Inv'
    OBVIOUS
  <2>1. EngineOK' /\ Consistent'
    BY EngineStep, StepByMethods, StepConsistent DEF EngineOK
  <2>2. CommittedOK'
    BY CommittedStep
  <2>3. (\A r \in Caller : AnswerOK(r))'
    BY AnswerStep
  <2> QED
    BY <2>1, <2>2, <2>3
<1>3. Inv => CommittedFromRecordedResponse
  <2> SUFFICES ASSUME NEW k \in Key, NEW c \in CallKey, Evidence(k, c)
               PROVE  \A b \in 0 .. c - 1 : modelCall[k][b].response = "repairable"
    BY DEF CommittedOK, Evidence, CommittedFromRecordedResponse
  <2> QED
    BY RepositoryAssumption DEF Evidence, CallKey
<1> QED
  BY <1>1, <1>2, <1>3, PTL DEF Spec

-----------------------------------------------------------------------------
(* The engine keeps the promise of IdempotentExecution.                     *)

(* A response was asked for before it was recorded. *)
SentOK ==
  /\ \A r \in Caller :
       pc[r] \in {"await", "complete"} => dispatched[run[r].key][run[r].repair] > 0
  /\ \A k \in Key, c \in CallKey :
       modelCall[k][c].status = "succeeded" => dispatched[k][c] > 0

(* Only a call that returned was told anything. *)
UntoldOK ==
  \A r \in Caller : /\ pc[r] = "idle" => run[r].key = None
                    /\ pc[r] # "returned" => run[r].outcome = None

PromiseOK == /\ EngineOK /\ Consistent /\ DispatchOK /\ SentOK /\ UntoldOK
             /\ \A r \in Caller : AnswerOK(r)

(* A step that neither commits nor gives up leaves what the caller asked   *)
(* for and was told alone.                                                 *)
LEMMA QuietRun ==
  ASSUME EngineOK, NEW r \in Caller, Step(r), ~CommitRun(r), ~Terminate(r)
  PROVE  /\ run'[r].key = run[r].key /\ run'[r].outcome = run[r].outcome
         /\ \A s \in Caller : s # r => run'[s] = run[s]
         /\ pc'[r] # "returned"
         /\ pc'[r] \in {"await", "complete"} =>
              /\ run'[r].repair = run[r].repair
              /\ Dispatch(r) \/ pc[r] = "await"
<1> USE DEF EngineOK, TypeOK, RunState, Goto, Throw
<1>0. ASSUME NEW error, Throw(r, error)
      PROVE  /\ pc'[r] = "terminate"
             /\ run'[r].key = run[r].key /\ run'[r].outcome = run[r].outcome
             /\ \A s \in Caller : s # r => run'[s] = run[s]
  BY <1>0
<1>1. CASE Resume(r)
  BY <1>1 DEF Resume
<1>2. CASE StageRefused(r) \/ ResumeRefused(r) \/ (\E error \in Error : LoadFails(r, error))
  BY <1>0, <1>2 DEF StageRefused, ResumeRefused, LoadFails
<1>3. CASE EnterLoading(r)
  BY <1>3 DEF EnterLoading, Enter
<1>4. CASE Load(r)
  <2>1. ASSUME NEW version, run' = [run EXCEPT ![r].memory = version]
        PROVE  /\ run'[r].key = run[r].key /\ run'[r].outcome = run[r].outcome
               /\ \A s \in Caller : s # r => run'[s] = run[s]
    BY <2>1
  <2>2. pc'[r] = "calling-model"
    BY <1>4 DEF Load
  <2> QED
    BY <1>4, <2>1, <2>2 DEF Load
<1>5. CASE EnterCallingModel(r)
  BY <1>0, <1>5 DEF EnterCallingModel, Enter, AfterResponse
<1>6. CASE Reserve(r) \/ Dispatch(r) \/ CancelledBeforeDispatch(r)
  BY <1>6 DEF Reserve, Dispatch, CancelledBeforeDispatch
<1>7. CASE ReserveRefused(r)
  BY <1>0, <1>7 DEF ReserveRefused
<1>8. CASE \/ (\E response \in Response : Respond(r, response))
           \/ (\E error \in GatewayError : GatewayFails(r, error))
  BY <1>8 DEF Respond, GatewayFails
<1>9. CASE Complete(r) \/ RecordFailure(r)
  BY <1>0, <1>9 DEF Complete, AfterResponse, RecordFailure
<1>10. CASE Validate(r)
  <2>1. CASE run' = [run EXCEPT ![r].repair = @ + 1] /\ Goto(r, "reserve")
    BY <1>10, <2>1
  <2>2. CASE \/ Goto(r, "interpreting") /\ UNCHANGED run
             \/ Throw(r, "MODEL_INVALID_RESPONSE")
    BY <1>0, <2>2
  <2> QED
    BY <1>10, <2>1, <2>2 DEF Validate
<1>11. CASE Interpret(r) \/ Evaluate(r)
  BY <1>0, <1>11 DEF Interpret, Enter, Evaluate
<1>12. CASE Prepare(r)
  <2>1. ASSUME NEW prepared, run' = [run EXCEPT ![r].prepared = prepared]
        PROVE  /\ run'[r].key = run[r].key /\ run'[r].outcome = run[r].outcome
               /\ \A s \in Caller : s # r => run'[s] = run[s]
    BY <2>1
  <2>2. CASE Goto(r, "commit") /\ \E prepared : run' = [run EXCEPT ![r].prepared = prepared]
    <3>1. pc'[r] = "commit"
      BY <2>2
    <3> QED
      BY <2>1, <2>2, <3>1
  <2>3. CASE \E error \in ModuleError : Throw(r, error)
    BY <1>0, <2>3
  <2> QED
    BY <1>12, <2>2, <2>3 DEF Prepare
<1>13. CASE CommitRefused(r)
  BY <1>0, <1>13 DEF CommitRefused
<1>14. CASE TerminateRefused(r)
  BY <1>14 DEF TerminateRefused
<1> QED
  BY <1>1, <1>2, <1>3, <1>4, <1>5, <1>6, <1>7, <1>8, <1>9, <1>10, <1>11, <1>12,
     <1>13, <1>14 DEF Step

(* A call that is idle or has ended takes no step. *)
LEMMA StepIsUnderWay ==
  ASSUME NEW r \in Caller, Step(r)
  PROVE  pc[r] \notin Ended \cup {"idle"}
BY DEF Step, Resume, ResumeRefused, StageRefused, EnterLoading, Enter, Load,
       LoadFails, EnterCallingModel, Reserve, ReserveRefused, Dispatch,
       CancelledBeforeDispatch, Respond, GatewayFails, Complete, RecordFailure,
       Validate, Interpret, Evaluate, Prepare, CommitRun, CommitRefused,
       Terminate, TerminateRefused, Stage, Ended

(* How a call of execute() starts: what it asked for and what it is told.  *)
LEMMA CallAsks ==
  ASSUME EngineOK, NEW r \in Caller, NEW k \in Key, NEW request \in Request,
         NEW policy \in Policy, NEW now \in Instant
  PROVE  /\ Create(r, k, request, policy, now) =>
              /\ run'[r].key = k /\ run'[r].outcome = None /\ pc'[r] = "loading"
              /\ \A s \in Caller : s # r => run'[s] = run[s]
         /\ Conflict(r, k, request, policy, now) =>
              /\ run'[r].key = k /\ run'[r].outcome = "other-request"
              /\ pc'[r] = "returned"
              /\ \A s \in Caller : s # r => run'[s] = run[s]
         /\ Replay(r, k, request, policy, now) =>
              /\ run'[r].key = k /\ run'[r].outcome = execution[k].status
              /\ pc'[r] = "returned"
              /\ \A s \in Caller : s # r => run'[s] = run[s]
         /\ Rejoin(r, k, request, policy, now) =>
              /\ run'[r].key = k /\ run'[r].outcome = None /\ pc'[r] = "resume"
              /\ \A s \in Caller : s # r => run'[s] = run[s]
<1> DEFINE new == NewRun(k, request, policy, now)
<1> USE DEF EngineOK, TypeOK, Goto
<1>1. new.key = k /\ new.outcome = None
  BY DEF NewRun, NoRun
<1>2. [new EXCEPT !.attempt = 1].key = k /\ [new EXCEPT !.attempt = 1].outcome = None
  BY DEF NewRun, NoRun
<1>3. ASSUME NEW outcome
      PROVE  /\ [new EXCEPT !.outcome = outcome].key = k
             /\ [new EXCEPT !.outcome = outcome].outcome = outcome
  BY DEF NewRun, NoRun
<1> HIDE DEF new
<1>4. Create(r, k, request, policy, now) =>
        /\ run'[r].key = k /\ run'[r].outcome = None /\ pc'[r] = "loading"
        /\ \A s \in Caller : s # r => run'[s] = run[s]
  BY <1>2 DEF Create, new
<1>5. Conflict(r, k, request, policy, now) =>
        /\ run'[r].key = k /\ run'[r].outcome = "other-request"
        /\ pc'[r] = "returned"
        /\ \A s \in Caller : s # r => run'[s] = run[s]
  BY <1>3 DEF Conflict, new
<1>6. Replay(r, k, request, policy, now) =>
        /\ run'[r].key = k /\ run'[r].outcome = execution[k].status
        /\ pc'[r] = "returned"
        /\ \A s \in Caller : s # r => run'[s] = run[s]
  BY <1>3 DEF Replay, new
<1>7. Rejoin(r, k, request, policy, now) =>
        /\ run'[r].key = k /\ run'[r].outcome = None /\ pc'[r] = "resume"
        /\ \A s \in Caller : s # r => run'[s] = run[s]
  BY <1>1 DEF Rejoin, new
<1> QED
  BY <1>4, <1>5, <1>6, <1>7

(* Nobody is told anything before the call returns. *)
LEMMA UntoldStep ==
  ASSUME EngineOK, UntoldOK, [Next]_vars
  PROVE  UntoldOK'
<1> SUFFICES ASSUME NEW r \in Caller
             PROVE  /\ pc'[r] = "idle" => run'[r].key = None
                    /\ pc'[r] # "returned" => run'[r].outcome = None
  BY DEF UntoldOK
<1>1. CASE pc'[r] = pc[r] /\ run'[r] = run[r]
  BY <1>1 DEF UntoldOK
<1>2. CASE Step(r) /\ (CommitRun(r) \/ Terminate(r))
  BY <1>2 DEF CommitRun, Terminate, Return, Goto, EngineOK, TypeOK
<1>3. CASE Step(r) /\ ~CommitRun(r) /\ ~Terminate(r)
  <2>1. pc[r] \notin Ended \cup {"idle"} /\ run'[r].outcome = run[r].outcome
    BY <1>3, QuietRun, StepIsUnderWay
  <2>2. pc'[r] # "idle"
    BY <1>3, <2>1, ControlStep DEF Reserve, Goto, EngineOK, TypeOK
  <2> QED
    BY <2>1, <2>2 DEF UntoldOK, Ended
<1>4. CASE Call(r)
  <2> PICK k \in Key, request \in Request, policy \in Policy, now \in Instant :
        \/ Create(r, k, request, policy, now)
        \/ Conflict(r, k, request, policy, now)
        \/ Replay(r, k, request, policy, now)
        \/ Rejoin(r, k, request, policy, now)
    BY <1>4 DEF Call
  <2> QED
    BY CallAsks
<1>5. CASE Crash(r)
  BY <1>5 DEF Crash, Goto, UntoldOK, Ended, EngineOK, TypeOK
<1> QED
  BY <1>1, <1>2, <1>3, <1>4, <1>5, OthersStep

(* A new answer in the ledger is the one that a call waited for. *)
LEMMA AnswerRecorded ==
  ASSUME EngineOK, [Next]_vars, NEW k \in Key, NEW c \in CallKey,
         modelCall'[k][c].status = "succeeded",
         modelCall[k][c].status # "succeeded"
  PROVE  \E r \in Caller : pc[r] = "complete" /\ run[r].key = k /\ run[r].repair = c
<1> USE DEF EngineOK, RepositoryOK, RepositoryTypeOK
<1>1. ASSUME NEW r \in Caller, pc[r] \in {"reserve", "complete", "fail-call"}
      PROVE  run[r].key \in Key /\ run[r].repair \in CallKey
  BY <1>1 DEF TypeOK, RunState, CallKey
<1>2. ASSUME NEW r \in Caller, Reserve(r)
      PROVE  FALSE
  <2>1. CASE modelCall' = modelCall
    BY <2>1
  <2>2. CASE modelCall' = [modelCall EXCEPT ![run[r].key][run[r].repair] =
                             [NoCall EXCEPT !.status = "reserved", !.id = r]]
    <3>1. [NoCall EXCEPT !.status = "reserved", !.id = r].status = "reserved"
      BY DEF NoCall
    <3> QED
      BY <1>1, <1>2, <2>2, <3>1 DEF Reserve
  <2> QED
    BY <1>2, <2>1, <2>2 DEF Reserve, ReserveModelCall
<1>3. ASSUME NEW r \in Caller, RecordFailure(r)
      PROVE  FALSE
  <2> DEFINE j == run[r].key
             b == run[r].repair
             record == [modelCall[j][b] EXCEPT !.status = "failed",
                                               !.error = run[r].error]
  <2>1. j \in Key /\ b \in CallKey
    BY <1>1, <1>3 DEF RecordFailure
  <2>2. modelCall' = [modelCall EXCEPT ![j] = [@ EXCEPT ![b] = record]]
    BY <1>3 DEF RecordFailure, FailModelCall
  <2>3. record.status = "failed"
    BY <2>1 DEF CallRecord
  <2> HIDE DEF record
  <2> QED
    BY <2>1, <2>2, <2>3
<1>4. ASSUME NEW r \in Caller, Complete(r)
      PROVE  pc[r] = "complete" /\ run[r].key = k /\ run[r].repair = c
  <2> DEFINE j == run[r].key
             b == run[r].repair
             record == [modelCall[j][b] EXCEPT !.status = "succeeded",
                                               !.response = run[r].response]
  <2>1. j \in Key /\ b \in CallKey /\ pc[r] = "complete"
    BY <1>1, <1>4 DEF Complete
  <2>2. modelCall' = [modelCall EXCEPT ![j] = [@ EXCEPT ![b] = record]]
    BY <1>4 DEF Complete, CompleteModelCall
  <2> HIDE DEF record
  <2>3. ~(j = k /\ b = c) => modelCall'[k][c] = modelCall[k][c]
    BY <2>1, <2>2
  <2> QED
    BY <2>1, <2>3
<1> QED
  BY <1>2, <1>3, <1>4, CallRowsUnchanged

(* What is recorded was asked for. *)
LEMMA SentStep ==
  ASSUME EngineOK, SentOK, [Next]_vars
  PROVE  SentOK'
<1>1. \A k \in Key, c \in CallKey : dispatched'[k][c] >= dispatched[k][c]
  <2>1. dispatched \in [Key -> [CallKey -> Nat]]
    BY DEF EngineOK, TypeOK
  <2>2. ASSUME NEW r \in Caller, Dispatch(r), NEW k \in Key, NEW c \in CallKey
        PROVE  dispatched'[k][c] >= dispatched[k][c]
    BY <2>1, <2>2 DEF Dispatch
  <2> QED
    BY <2>1, <2>2, DispatchedStep
<1>2. /\ dispatched \in [Key -> [CallKey -> Nat]]
      /\ dispatched' \in [Key -> [CallKey -> Nat]]
  BY EngineStep DEF EngineOK, TypeOK
<1>3. ASSUME NEW r \in Caller, pc'[r] \in {"await", "complete"}
      PROVE  dispatched'[run'[r].key][run'[r].repair] > 0
  <2> DEFINE k == run[r].key
             c == run[r].repair
  <2>1. c \in CallKey /\ (pc[r] # "idle" => k \in Key)
    BY DEF EngineOK, TypeOK, RunState, CallKey
  <2>2. CASE pc'[r] = pc[r] /\ run'[r] = run[r]
    BY <1>1, <1>2, <1>3, <2>1, <2>2 DEF SentOK
  <2>3. CASE Step(r)
    <3>1. ~CommitRun(r) /\ ~Terminate(r)
      BY <1>3 DEF CommitRun, Terminate, Return, Goto, EngineOK, TypeOK
    <3>2. run'[r].key = k /\ run'[r].repair = c /\ (Dispatch(r) \/ pc[r] = "await")
      BY <1>3, <2>3, <3>1, QuietRun
    <3>3. CASE Dispatch(r)
      <4>1. k \in Key
        BY <2>1, <3>3 DEF Dispatch
      <4>2. dispatched'[k][c] = dispatched[k][c] + 1
        BY <1>2, <2>1, <3>3, <4>1 DEF Dispatch
      <4> QED
        BY <1>2, <2>1, <3>2, <4>1, <4>2
    <3>4. CASE pc[r] = "await"
      BY <1>1, <1>2, <2>1, <3>2, <3>4 DEF SentOK
    <3> QED
      BY <3>2, <3>3, <3>4
  <2>4. CASE Call(r)
    <3> PICK j \in Key, request \in Request, policy \in Policy, now \in Instant :
          \/ Create(r, j, request, policy, now)
          \/ Conflict(r, j, request, policy, now)
          \/ Replay(r, j, request, policy, now)
          \/ Rejoin(r, j, request, policy, now)
      BY <2>4 DEF Call
    <3> QED
      BY <1>3, CallAsks
  <2>5. CASE Crash(r)
    BY <1>3, <2>5 DEF Crash, Goto, EngineOK, TypeOK
  <2> QED
    BY <2>2, <2>3, <2>4, <2>5, OthersStep
<1>4. ASSUME NEW k \in Key, NEW c \in CallKey, modelCall'[k][c].status = "succeeded"
      PROVE  dispatched'[k][c] > 0
  <2>1. dispatched[k][c] > 0
    BY <1>4, AnswerRecorded DEF SentOK
  <2> QED
    BY <1>1, <1>2, <2>1
<1> QED
  BY <1>3, <1>4 DEF SentOK

(* How the ledger that the callers see follows the executions. *)
LEMMA LedgerSame ==
  ASSUME \A k \in Key : /\ Standing(k)' = Standing(k)
                        /\ execution'[k].request = execution[k].request
  PROVE  Ledger' = Ledger
BY DEF Ledger

(* How the mapped ledger moves when one execution is written. *)
LEMMA LedgerSet ==
  ASSUME NEW k \in Key, NEW status, Standing(k)' = status,
         \A j \in Key : j # k => /\ Standing(j)' = Standing(j)
                                 /\ execution'[j].request = execution[j].request
  PROVE  /\ Ledger' = [Ledger EXCEPT ![k] = [status |-> status,
                                             request |-> execution'[k].request]]
         /\ execution'[k].request = execution[k].request
              => Ledger' = [Ledger EXCEPT ![k].status = status]
<1> DEFINE record(j) == [status |-> Standing(j), request |-> execution[j].request]
<1>1. Ledger = [j \in Key |-> record(j)]
  BY DEF Ledger
<1>2. Ledger' = [j \in Key |-> record(j)']
  BY DEF Ledger
<1>3. \A j \in Key : j # k => record(j)' = record(j)
  OBVIOUS
<1>4. record(k)' = [status |-> status, request |-> execution'[k].request]
  OBVIOUS
<1>5. execution'[k].request = execution[k].request
        => [record(k) EXCEPT !.status = status] = record(k)'
  OBVIOUS
<1> HIDE DEF record
<1>6. Ledger' = [Ledger EXCEPT ![k] = record(k)']
  BY <1>1, <1>2, <1>3
<1>7. Ledger[k] = record(k)
  BY <1>1
<1> QED
  BY <1>4, <1>5, <1>6, <1>7

(* An execution that another step leaves alone stands as it did. *)
LEMMA StandingSame ==
  ASSUME NEW k \in Key, execution'[k] = execution[k]
  PROVE  Standing(k)' = Standing(k)
BY DEF Standing, Exists, Mutable

(* An execution that is not settled stands open. *)
LEMMA StandingOpen ==
  ASSUME NEW k \in Key
  PROVE  /\ Mutable(k) <=> Standing(k) = "open"
         /\ Exists(k) <=> Standing(k) # "absent"
         /\ Exists(k) /\ ~Mutable(k) =>
              Standing(k) = IF execution[k].status = "committed"
                            THEN "committed" ELSE "failed"
BY DEF Standing, Exists, Mutable

(* What a call is told while it is waiting, and when it returns. *)
LEMMA ToldFacts ==
  ASSUME NEW r \in Caller
  PROVE  /\ run[r].outcome = None => Told(r) = None
         /\ run[r].outcome = "committed" => Told(r) = "committed"
         /\ run[r].outcome \in Terminal \ {"committed"} => Told(r) = "failed"
BY EngineAssumption DEF Told

(* Calls that do not move are asked and told the same. *)
LEMMA RunsSame ==
  ASSUME \A r \in Caller : /\ run'[r].key = run[r].key
                           /\ run'[r].outcome = run[r].outcome
  PROVE  Asked' = Asked /\ Answers' = Answers
<1>1. \A r \in Caller : Told(r)' = Told(r)
  BY DEF Told
<1> QED
  BY <1>1 DEF Asked, Answers

(* One call moves, and the mapped answers with it. *)
LEMMA RunsSet ==
  ASSUME NEW r \in Caller,
         \A s \in Caller : s # r => run'[s] = run[s]
  PROVE  /\ Asked' = [Asked EXCEPT ![r] = run'[r].key]
         /\ Answers' = [Answers EXCEPT ![r] = Told(r)']
         /\ run'[r].key = run[r].key => Asked' = Asked
<1>1. \A s \in Caller : s # r => Told(s)' = Told(s)
  BY DEF Told
<1>2. Asked' = [Asked EXCEPT ![r] = run'[r].key]
  BY DEF Asked
<1>3. Answers' = [Answers EXCEPT ![r] = Told(r)']
  BY <1>1 DEF Answers
<1>4. run'[r].key = run[r].key => Asked' = Asked
  BY DEF Asked
<1> QED
  BY <1>2, <1>3, <1>4

(* The engine starts as its promise does. *)
LEMMA PromiseInit == Init => Promise!ContractInit
<1> SUFFICES ASSUME Init PROVE Promise!ContractInit
  OBVIOUS
<1>1. Ledger = [k \in Key |-> [status |-> "absent", request |-> None]]
  BY DEF Init, RepositoryInit, NoExecution, Ledger, Standing, Exists
<1>2. Heads = [e \in Entity |-> 0]
  BY DEF Init, RepositoryInit, Heads, Revision
<1>3. Asked = [r \in Caller |-> None] /\ Answers = [r \in Caller |-> None]
  <2>1. \A r \in Caller : run[r].key = None /\ run[r].outcome = None
    BY DEF Init, NoRun
  <2>2. \A r \in Caller : Told(r) = None
    BY <2>1, ToldFacts
  <2> QED
    BY <2>1, <2>2 DEF Asked, Answers
<1>4. dispatched = [k \in Key |-> [c \in 0 .. MaxRepair |-> 0]]
  BY DEF Init, CallKey
<1> QED
  BY <1>1, <1>2, <1>3, <1>4 DEF Promise!ContractInit, Promise!Absent

(* A step that neither sends, commits nor gives up shows nothing. *)
LEMMA QuietKeepsPromise ==
  ASSUME PromiseOK, NEW r \in Caller, Step(r),
         ~Dispatch(r), ~CommitRun(r), ~Terminate(r)
  PROVE  UNCHANGED Promise!contract
<1> USE DEF PromiseOK
<1>1. Asked' = Asked /\ Answers' = Answers
  BY QuietRun, RunsSame
<1>2. dispatched' = dispatched
  BY DEF Step, Resume, ResumeRefused, StageRefused, EnterLoading, Enter, Load,
         LoadFails, EnterCallingModel, Reserve, ReserveRefused,
         CancelledBeforeDispatch, Respond, GatewayFails, Complete, RecordFailure,
         Validate, Interpret, Evaluate, Prepare, CommitRefused, TerminateRefused
<1>3. RepositoryTypeOK
  BY DEF EngineOK, RepositoryOK
<1>4. ASSUME NEW stage \in Stage, Enter(r, stage)
      PROVE  Ledger' = Ledger /\ history' = history
  <2>1. StageRow(r) \in Attempt /\ run[r].key \in Key
    BY <1>4 DEF Enter, StageRow, Attempt, EngineOK, RunOK, RunFits, Stage, Ended
  <2> PICK k \in Key : k = run[r].key
    BY <2>1
  <2>2. AppendsAttempt(k)
    BY <1>4, <2>1 DEF Enter, AppendsAttempt
  <2>3. Standing(k)' = Standing(k) /\ execution'[k].request = execution[k].request
    BY <1>3, <2>1, <2>2, AppendType DEF Standing, Mutable
  <2>4. \A j \in Key : j # k => execution'[j] = execution[j]
    BY <1>3, <2>1, <2>2, AppendType
  <2>5. \A j \in Key : /\ Standing(j)' = Standing(j)
                       /\ execution'[j].request = execution[j].request
    BY <2>3, <2>4, StandingSame
  <2> QED
    BY <1>4, <2>5, LedgerSame DEF Enter, AppendAttempt
<1>5. ASSUME UNCHANGED <<execution, history>>
      PROVE  Ledger' = Ledger /\ history' = history
  BY <1>5, StandingSame, LedgerSame
<1>6. Ledger' = Ledger /\ history' = history
  <2>1. ASSUME \/ Resume(r) \/ ResumeRefused(r) \/ StageRefused(r)
               \/ Load(r) \/ (\E error \in Error : LoadFails(r, error))
               \/ ReserveRefused(r) \/ CancelledBeforeDispatch(r)
               \/ (\E response \in Response : Respond(r, response))
               \/ (\E error \in GatewayError : GatewayFails(r, error))
               \/ CommitRefused(r) \/ TerminateRefused(r)
        PROVE  UNCHANGED <<execution, history>>
    BY <2>1 DEF Resume, ResumeRefused, StageRefused, Load, LoadFails,
                ReserveRefused, CancelledBeforeDispatch, Respond, GatewayFails,
                CommitRefused, TerminateRefused, repository
  <2>2. ASSUME Reserve(r) \/ Complete(r) \/ RecordFailure(r)
        PROVE  UNCHANGED <<execution, history>>
    BY <2>2 DEF Reserve, ReserveModelCall, Complete, CompleteModelCall,
                RecordFailure, FailModelCall
  <2>3. ASSUME \/ EnterLoading(r) \/ EnterCallingModel(r) \/ Validate(r)
               \/ Interpret(r) \/ Evaluate(r) \/ Prepare(r)
        PROVE  \E stage \in Stage : Enter(r, stage)
    BY <2>3 DEF EnterLoading, EnterCallingModel, Validate, Interpret, Evaluate,
                Prepare, Stage
  <2> QED
    BY <1>4, <1>5, <2>1, <2>2, <2>3 DEF Step
<1>7. Heads' = Heads
  BY <1>6 DEF Heads, Revision
<1> QED
  BY <1>1, <1>2, <1>6, <1>7 DEF Promise!contract

(* The request leaves the process: once. *)
LEMMA DispatchKeepsPromise ==
  ASSUME PromiseOK, NEW r \in Caller, Dispatch(r)
  PROVE  Promise!ContractNext
<1> USE DEF PromiseOK
<1> DEFINE k == run[r].key
           c == run[r].repair
<1>1. k \in Key /\ c \in 0 .. MaxRepair
  BY DEF EngineOK, TypeOK, RunState, Dispatch
<1>2. dispatched[k][c] = 0
  BY DEF Dispatch, DispatchOK, ReservedBeforeSent, BeforeDispatch
<1>3. Asked[r] = k /\ Answers[r] = None /\ k # None
  BY <1>1, ToldFacts, RepositoryAssumption
     DEF Asked, Answers, UntoldOK, Dispatch
<1>4. dispatched' = [dispatched EXCEPT ![k][c] = 1]
  <2>1. dispatched' = [dispatched EXCEPT ![k] = [@ EXCEPT ![c] = dispatched[k][c] + 1]]
    BY DEF Dispatch
  <2> QED
    BY <1>2, <2>1
<1>5. UNCHANGED <<Ledger, Heads, Asked, Answers>>
  BY DEF Dispatch, repository, Ledger, Standing, Exists, Mutable, Heads, Revision,
         Asked, Answers, Told
<1>6. Promise!Send(r, c)
  BY <1>2, <1>3, <1>4, <1>5 DEF Promise!Send, Promise!Waits
<1> QED
  BY <1>1, <1>6 DEF Promise!ContractNext

(* A commit, or one that only repeats what is recorded. *)
LEMMA CommitKeepsPromise ==
  ASSUME PromiseOK, NEW r \in Caller, CommitRun(r)
  PROVE  Promise!ContractNext
<1> USE DEF PromiseOK
<1>0. /\ run[r].key \in Key /\ run[r].repair \in 0 .. MaxRepair
      /\ run[r].prepared \in Prepared /\ pc[r] = "commit"
  BY DEF EngineOK, TypeOK, RunState, RunOK, RunFits, CommitRun
<1> PICK k \in Key, c \in 0 .. MaxRepair, p \in Prepared :
      k = run[r].key /\ c = run[r].repair /\ p = run[r].prepared
  BY <1>0
<1>1. c \in CallKey /\ pc[r] = "commit"
  BY <1>0 DEF CallKey
<1>2. Asked[r] = k /\ Answers[r] = None /\ k # None
  BY <1>1, ToldFacts, RepositoryAssumption DEF Asked, Answers, UntoldOK
<1>3. /\ run'[r].key = k /\ run'[r].outcome = "committed"
      /\ \A s \in Caller : s # r => run'[s] = run[s]
  BY DEF CommitRun, Return, EngineOK, TypeOK, RunState
<1>4. Asked' = Asked /\ Answers' = [Answers EXCEPT ![r] = "committed"]
  <2>1. Told(r)' = "committed"
    BY <1>3, ToldFacts DEF Told
  <2> QED
    BY <1>3, <2>1, RunsSet
<1>5. dispatched' = dispatched
  BY DEF CommitRun
<1>6. Ledger[k] = [status |-> Standing(k), request |-> execution[k].request]
  BY <1>1 DEF Ledger
<1>7. CASE Commit(k, p)
  <2> PICK request : request = execution[k].request
    OBVIOUS
  <2> DEFINE e == request.entity
  <2>1. /\ Mutable(k) /\ StateError(k) = None /\ request \in Request
        /\ execution'[k].request = request
        /\ execution'[k].status = "committed"
        /\ \A j \in Key \ {k} : execution'[j] = execution[j]
    BY <1>1, <1>7, CommitType DEF CommitRun, EngineOK, RepositoryOK
  <2>2. e \in Entity
    BY <2>1, RepositoryAssumption
  <2>3. Standing(k) = "open" /\ Standing(k)' = "committed"
    BY <2>1 DEF Standing, Exists, Mutable, Terminal
  <2>4. Ledger' = [Ledger EXCEPT ![k].status = "committed"]
    <3>1. \A j \in Key : j # k => /\ Standing(j)' = Standing(j)
                                  /\ execution'[j].request = execution[j].request
      BY <2>1, StandingSame
    <3> QED
      BY <1>1, <2>1, <2>3, <3>1, LedgerSet
  <2>5. Heads[e] = request.expectedRevision
    BY <2>1, <2>2, RepositoryAssumption DEF StateError, Heads, Error
  <2>6. Heads' = [Heads EXCEPT ![e] = @ + 1] \/ Heads' = Heads
    <3>1. history \in [Entity -> Seq(Key)]
      BY DEF EngineOK, RepositoryOK, RepositoryTypeOK
    <3>2. CASE p.advances
      <4>1. history' = [history EXCEPT ![e] = Append(history[e], k)]
        BY <1>7, <3>2 DEF Commit
      <4>2. Len(Append(history[e], k)) = Len(history[e]) + 1
        BY <1>1, <2>2, <3>1
      <4>3. \A x \in Entity :
              Revision(x)' = IF x = e THEN Revision(e) + 1 ELSE Revision(x)
        BY <2>2, <3>1, <4>1, <4>2 DEF Revision
      <4> QED
        BY <2>2, <4>3 DEF Heads
    <3>3. CASE ~p.advances
      <4>1. history' = history
        BY <1>7, <3>3 DEF Commit
      <4> QED
        BY <4>1 DEF Heads, Revision
    <3> QED
      BY <3>2, <3>3
  <2>7. dispatched[k][c] > 0
    BY <1>1 DEF AnswerOK, HasAnswer, Accepted, SentOK
  <2>8. Ledger[k].status = "open" /\ Ledger[k].request = request
    BY <1>6, <2>3
  <2> HIDE DEF e
  <2>9. Promise!Commit(r)
    BY <1>1, <1>2, <1>4, <1>5, <2>4, <2>5, <2>6, <2>7, <2>8
       DEF Promise!Commit, Promise!Waits, e
  <2> QED
    BY <2>9 DEF Promise!ContractNext
<1>8. CASE execution[k].commit # NoCommit /\ UNCHANGED repository
  <2>1. execution[k].status = "committed"
    BY <1>1, <1>8 DEF Consistent, NoEffectWithoutCommit
  <2>2. Ledger[k].status = "committed"
    BY <1>6, <2>1 DEF Standing, Exists, Mutable, Terminal
  <2>3. UNCHANGED <<Ledger, Heads>>
    BY <1>8 DEF repository, Ledger, Standing, Exists, Mutable, Heads, Revision
  <2>4. Promise!Learn(r)
    BY <1>2, <1>4, <1>5, <2>2, <2>3
       DEF Promise!Learn, Promise!Waits, Promise!Settled
  <2> QED
    BY <2>4 DEF Promise!ContractNext
<1> QED
  BY <1>7, <1>8 DEF CommitRun

(* markTerminal() of the call: the execution failed, or had already. *)
LEMMA TerminateKeepsPromise ==
  ASSUME PromiseOK, NEW r \in Caller, Terminate(r)
  PROVE  Promise!ContractNext
<1> USE DEF PromiseOK
<1>0. /\ run[r].key \in Key /\ pc[r] = "terminate"
      /\ TerminalStatus(run[r].error) \in Terminal \ {"committed"}
  BY TerminalStatusType DEF EngineOK, RunOK, RunFits, Terminate
<1> PICK k \in Key, status \in Terminal \ {"committed"} :
      k = run[r].key /\ status = TerminalStatus(run[r].error)
  BY <1>0
<1>1. pc[r] = "terminate" /\ run[r].error \in Error /\ run[r].now \in Instant
  BY <1>0 DEF EngineOK, RunOK, RunFits
<1>2. Asked[r] = k /\ Answers[r] = None /\ k # None
  BY <1>1, ToldFacts, RepositoryAssumption DEF Asked, Answers, UntoldOK
<1>3. /\ run'[r].key = k /\ run'[r].outcome = status
      /\ \A s \in Caller : s # r => run'[s] = run[s]
  BY DEF Terminate, Return, EngineOK, TypeOK, RunState
<1>4. Asked' = Asked /\ Answers' = [Answers EXCEPT ![r] = "failed"]
  <2>1. Told(r)' = "failed"
    BY <1>1, <1>3 DEF Told
  <2> QED
    BY <1>3, <2>1, RunsSet
<1>5. dispatched' = dispatched /\ Heads' = Heads
  BY DEF Terminate, MarkTerminal, Heads, Revision
<1>6. /\ Exists(k) /\ execution'[k].status = status
      /\ execution'[k].request = execution[k].request
      /\ ~Mutable(k) => execution' = execution
      /\ \A j \in Key \ {k} : execution'[j] = execution[j]
  BY <1>1, TerminalType DEF Terminate, EngineOK, RepositoryOK
<1>7. Ledger[k] = [status |-> Standing(k), request |-> execution[k].request]
  BY <1>1 DEF Ledger
<1>8. Standing(k)' = "failed"
  BY <1>1, <1>6 DEF Standing, Exists, Mutable, Terminal
<1>9. CASE Mutable(k)
  <2>1. Ledger' = [Ledger EXCEPT ![k].status = "failed"]
    <3>1. \A j \in Key : j # k => /\ Standing(j)' = Standing(j)
                                  /\ execution'[j].request = execution[j].request
      BY <1>6, StandingSame
    <3> QED
      BY <1>1, <1>6, <1>8, <3>1, LedgerSet
  <2>2. Ledger[k].status = "open"
    BY <1>1, <1>7, <1>9, StandingOpen
  <2>3. Promise!Fail(r)
    BY <1>2, <1>4, <1>5, <2>1, <2>2 DEF Promise!Fail, Promise!Waits
  <2> QED
    BY <2>3 DEF Promise!ContractNext
<1>10. CASE ~Mutable(k)
  <2>1. execution' = execution
    BY <1>6, <1>10
  <2>2. Ledger' = Ledger
    BY <2>1 DEF Ledger, Standing, Exists, Mutable
  <2>3. Ledger[k].status = "failed"
    BY <1>1, <1>7, <1>8, <2>1, StandingSame
  <2>4. Promise!Learn(r)
    BY <1>2, <1>4, <1>5, <2>2, <2>3
       DEF Promise!Learn, Promise!Waits, Promise!Settled
  <2> QED
    BY <2>4 DEF Promise!ContractNext
<1> QED
  BY <1>9, <1>10

(* execute() up to and including accept(). *)
LEMMA CallKeepsPromise ==
  ASSUME PromiseOK, NEW r \in Caller, Call(r)
  PROVE  Promise!ContractNext
<1> USE DEF PromiseOK
<1> PICK k \in Key, request \in Request, policy \in Policy, now \in Instant :
      \/ Create(r, k, request, policy, now)
      \/ Conflict(r, k, request, policy, now)
      \/ Replay(r, k, request, policy, now)
      \/ Rejoin(r, k, request, policy, now)
  BY DEF Call
<1>1. pc[r] = "idle" /\ dispatched' = dispatched
  BY DEF Create, Conflict, Replay, Rejoin
<1>2. Asked[r] = None /\ Answers[r] = None
  BY <1>1, ToldFacts DEF Asked, Answers, UntoldOK
<1>3. run'[r].key = k /\ \A s \in Caller : s # r => run'[s] = run[s]
  BY CallAsks
<1>4. /\ Asked' = [Asked EXCEPT ![r] = k]
      /\ Answers' = [Answers EXCEPT ![r] = Told(r)']
  BY <1>3, RunsSet
<1>5. Ledger[k] = [status |-> Standing(k), request |-> execution[k].request]
  BY DEF Ledger
<1>6. CASE Create(r, k, request, policy, now)
  <2>1. policy.readable \in BOOLEAN
    BY EngineAssumption
  <2>2. ~Exists(k) /\ Accept(k, request, policy.readable, now)
    BY <1>6 DEF Create
  <2>3. Accepts(k)
    BY <2>1, <2>2 DEF Accepts
  <2>4. /\ execution'[k].status = "accepted"
        /\ \A j \in Key \ {k} : execution'[j] = execution[j]
    BY <2>3, AcceptType DEF EngineOK, RepositoryOK
  <2>5. execution'[k].request = request
    BY <2>2 DEF Accept, EngineOK, RepositoryOK, RepositoryTypeOK
  <2>6. Standing(k)' = "open"
    BY <2>4 DEF Standing, Exists, Mutable, Terminal
  <2>7. Ledger' = [Ledger EXCEPT ![k] = [status |-> "open", request |-> request]]
    <3>1. \A j \in Key : j # k => /\ Standing(j)' = Standing(j)
                                  /\ execution'[j].request = execution[j].request
      BY <2>4, StandingSame
    <3> QED
      BY <2>5, <2>6, <3>1, LedgerSet
  <2>8. Heads' = Heads
    BY <2>2 DEF Accept, Heads, Revision
  <2>9. Answers' = Answers
    <3>1. run'[r].outcome = None
      BY <1>6, CallAsks
    <3>2. Told(r)' = None
      BY <3>1, EngineAssumption DEF Told
    <3> QED
      BY <1>2, <1>4, <3>2 DEF Answers
  <2>10. Ledger[k].status = "absent"
    BY <1>5, <2>2, StandingOpen
  <2>11. Promise!Open(r, k, request)
    BY <1>1, <1>2, <1>4, <2>7, <2>8, <2>9, <2>10 DEF Promise!Open, Promise!Asks
  <2> QED
    BY <2>11 DEF Promise!ContractNext
<1>7. CASE \/ Conflict(r, k, request, policy, now)
           \/ Replay(r, k, request, policy, now)
           \/ Rejoin(r, k, request, policy, now)
  <2>1. Exists(k) /\ UNCHANGED repository
    BY <1>7 DEF Conflict, Replay, Rejoin
  <2>2. UNCHANGED <<Ledger, Heads>>
    BY <2>1 DEF repository, Ledger, Standing, Exists, Mutable, Heads, Revision
  <2>3. Ledger[k].status # "absent"
    BY <1>5, <2>1, StandingOpen
  <2>4. Told(r)' = IF Ledger[k].request # request THEN "other-request"
                   ELSE IF Ledger[k].status = "open" THEN None
                   ELSE Ledger[k].status
    <3>1. CASE Conflict(r, k, request, policy, now)
      <4>0. run'[r].outcome = "other-request"
        BY <3>1, CallAsks
      <4>1. Ledger[k].request # request /\ run'[r].outcome = "other-request"
        BY <1>5, <3>1, <4>0 DEF Conflict
      <4> QED
        BY <4>1 DEF Told, Terminal
    <3>2. CASE Replay(r, k, request, policy, now)
      <4>0. run'[r].outcome = execution[k].status
        BY <3>2, CallAsks
      <4>1. /\ Ledger[k].request = request /\ ~Mutable(k)
            /\ run'[r].outcome = execution[k].status
        BY <1>5, <3>2, <4>0 DEF Replay
      <4>2. execution[k].status \in Terminal
        BY <2>1, <4>1 DEF Mutable
      <4>3. Ledger[k].status = IF execution[k].status = "committed"
                               THEN "committed" ELSE "failed"
        BY <1>5, <2>1, <4>1, StandingOpen
      <4> QED
        BY <4>1, <4>2, <4>3 DEF Told
    <3>3. CASE Rejoin(r, k, request, policy, now)
      <4>0. run'[r].outcome = None
        BY <3>3, CallAsks
      <4>1. /\ Ledger[k].request = request /\ Mutable(k)
            /\ run'[r].outcome = None
        BY <1>5, <3>3, <4>0 DEF Rejoin
      <4>2. Ledger[k].status = "open"
        BY <1>5, <4>1, StandingOpen
      <4> QED
        BY <4>1, <4>2, EngineAssumption DEF Told
    <3> QED
      BY <1>7, <3>1, <3>2, <3>3
  <2>5. Promise!Rejoin(r, k, request)
    BY <1>1, <1>2, <1>4, <2>2, <2>3, <2>4 DEF Promise!Rejoin, Promise!Asks
  <2> QED
    BY <2>5 DEF Promise!ContractNext
<1> QED
  BY <1>6, <1>7

(* An operator discharges what is open, or finds it settled. *)
LEMMA DischargeKeepsPromise ==
  ASSUME PromiseOK, NEW now \in Instant, Discharge(now)
  PROVE  Promise!ContractNext \/ UNCHANGED Promise!contract
<1> USE DEF PromiseOK
<1>1. PICK k \in Key : k = operator
  BY DEF Discharge, EngineOK, TypeOK
<1>2. UNCHANGED <<dispatched, Asked, Answers>>
  BY DEF Discharge, Asked, Answers, Told
<1>3. Heads' = Heads
  BY DEF Discharge, MarkTerminal, repository, Heads, Revision
<1>4. CASE execution' = execution
  <2>1. Ledger' = Ledger
    BY <1>4 DEF Ledger, Standing, Exists, Mutable
  <2> QED
    BY <1>2, <1>3, <2>1 DEF Promise!contract
<1>5. CASE execution' # execution
  <2>1. /\ TerminalError(k, "failed", "OPERATOR_DISCHARGE", now) = None
        /\ MarkTerminal(k, "failed", "OPERATOR_DISCHARGE", now)
    BY <1>1, <1>5 DEF Discharge, repository
  <2>2. "failed" \in Terminal /\ "OPERATOR_DISCHARGE" \in Error
    BY DEF Terminal, Error
  <2>3. /\ Mutable(k) /\ execution'[k].status = "failed"
        /\ execution'[k].request = execution[k].request
        /\ \A j \in Key \ {k} : execution'[j] = execution[j]
    BY <1>5, <2>1, <2>2, TerminalType DEF EngineOK, RepositoryOK
  <2>4. Standing(k)' = "failed"
    BY <2>3 DEF Standing, Exists, Mutable, Terminal
  <2>5. Ledger' = [Ledger EXCEPT ![k].status = "failed"]
    <3>1. \A j \in Key : j # k => /\ Standing(j)' = Standing(j)
                                  /\ execution'[j].request = execution[j].request
      BY <2>3, StandingSame
    <3> QED
      BY <2>3, <2>4, <3>1, LedgerSet
  <2>6. Ledger[k].status = "open"
    BY <2>3, StandingOpen DEF Ledger
  <2>7. Promise!Discharge(k)
    BY <1>2, <1>3, <2>5, <2>6 DEF Promise!Discharge
  <2> QED
    BY <2>7 DEF Promise!ContractNext
<1> QED
  BY <1>4, <1>5

(* What the mapping rests on holds in every reachable state. *)
LEMMA PromiseStarts == Init => PromiseOK
<1> SUFFICES ASSUME Init PROVE PromiseOK
  OBVIOUS
<1>1. EngineOK /\ Consistent
  BY EngineInit, InitConsistent DEF Init
<1>2. DispatchOK
  BY RepositoryAssumption
     DEF Init, RepositoryInit, NoCall, DispatchOK, ReservationOwned, SentOnce,
         ReservedBeforeSent, BeforeDispatch
<1>3. SentOK /\ UntoldOK
  BY DEF Init, RepositoryInit, NoCall, NoRun, SentOK, UntoldOK
<1>4. \A r \in Caller : AnswerOK(r)
  BY DEF Init, AnswerOK, HasAnswer, Asking, Accepted
<1> QED
  BY <1>1, <1>2, <1>3, <1>4 DEF PromiseOK

LEMMA PromiseStays == PromiseOK /\ [Next]_vars => PromiseOK'
<1> SUFFICES ASSUME PromiseOK, [Next]_vars PROVE PromiseOK'
  OBVIOUS
<1> USE DEF PromiseOK
<1>1. EngineOK' /\ Consistent'
  BY EngineStep, StepByMethods, StepConsistent DEF EngineOK
<1>2. DispatchOK' /\ SentOK' /\ UntoldOK'
  BY DispatchStep, SentStep, UntoldStep
<1>3. (\A r \in Caller : AnswerOK(r))'
  BY AnswerStep
<1> QED
  BY <1>1, <1>2, <1>3

LEMMA PromiseInvariant == Spec => []PromiseOK
BY PromiseStarts, PromiseStays, PTL DEF Spec

(* Every step of the engine is a step of the promise, or none.             *)
LEMMA StepKeepsPromise ==
  PromiseOK /\ [Next]_vars => [Promise!ContractNext]_(Promise!contract)
<1> SUFFICES ASSUME PromiseOK, [Next]_vars
             PROVE  Promise!ContractNext \/ UNCHANGED Promise!contract
  OBVIOUS
<1>1. ASSUME NEW r \in Caller, Step(r)
      PROVE  Promise!ContractNext \/ UNCHANGED Promise!contract
  BY <1>1, QuietKeepsPromise, DispatchKeepsPromise, CommitKeepsPromise,
     TerminateKeepsPromise
<1>2. ASSUME NEW r \in Caller, Call(r)
      PROVE  Promise!ContractNext
  BY <1>2, CallKeepsPromise
<1>3. ASSUME \/ \E r \in Caller : Crash(r)
             \/ \E k \in Key : Inspect(k)
             \/ UNCHANGED vars
      PROVE  UNCHANGED Promise!contract
  <2>1. UNCHANGED <<execution, history, run, dispatched>>
    BY <1>3 DEF Crash, Inspect, repository, vars
  <2> QED
    BY <2>1 DEF Promise!contract, Ledger, Standing, Exists, Mutable, Heads,
                Revision, Asked, Answers, Told
<1>4. ASSUME NEW now \in Instant, Discharge(now)
      PROVE  Promise!ContractNext \/ UNCHANGED Promise!contract
  BY <1>4, DischargeKeepsPromise
<1> QED
  BY <1>1, <1>2, <1>3, <1>4 DEF Next

(* execute() implements what its callers are promised: every step of the   *)
(* racing, crashing, resuming and repairing calls and of the operator is a *)
(* step of IdempotentExecution, or one that no caller can see.             *)
THEOREM EngineKeepsPromise == Spec => KeepsPromise
BY StepKeepsPromise, PromiseInit, PromiseInvariant, PTL
   DEF Spec, KeepsPromise, Promise!ContractSpec

-----------------------------------------------------------------------------
(* What is stranded is hopeless.                                            *)

(* A failed call has a recorded error, which a resume throws. *)
FailureHasError ==
  \A k \in Key :
    modelCall[k][0].status \in {"failed", "ambiguous"} => modelCall[k][0].error # None

(* No resume gets past the row of the primary call. *)
NoAnswer(k) ==
  \/ modelCall[k][0].status \in {"reserved", "failed", "ambiguous"}
  \/ modelCall[k][0].status = "succeeded" /\ ~execution[k].readable

(* Nobody works on the execution but calls that are about to be refused    *)
(* their resume and to end it.                                             *)
Hopeless(k) ==
  /\ Exists(k) /\ execution[k].status # "committed"
  /\ NoAnswer(k)
  /\ \A r \in Caller :
       run[r].key = k => pc[r] \in Ended \cup {"resume", "terminate"}

LEMMA FailureStep ==
  ASSUME EngineOK, FailureHasError, [Next]_vars
  PROVE  FailureHasError'
<1> USE DEF EngineOK
<1>0. 0 \in CallKey /\ modelCall \in [Key -> [CallKey -> CallRecord]]
  BY RepositoryAssumption DEF CallKey, RepositoryOK, RepositoryTypeOK
<1>1. ASSUME NEW r \in Caller, pc[r] \in {"reserve", "complete", "fail-call"}
      PROVE  run[r].key \in Key /\ run[r].repair \in CallKey
  BY <1>1 DEF TypeOK, RunState, CallKey
<1>2. ASSUME NEW j \in Key, NEW b \in CallKey, NEW record,
             record.status \in {"failed", "ambiguous"} => record.error # None,
             modelCall' = [modelCall EXCEPT ![j] = [@ EXCEPT ![b] = record]]
      PROVE  FailureHasError'
  BY <1>0, <1>2 DEF FailureHasError
<1>3. ASSUME NEW r \in Caller, Reserve(r)
      PROVE  FailureHasError'
  <2> DEFINE record == [NoCall EXCEPT !.status = "reserved", !.id = r]
  <2>1. record.status = "reserved"
    BY DEF NoCall
  <2>2. \/ modelCall' = modelCall
        \/ modelCall' = [modelCall EXCEPT
                           ![run[r].key] = [@ EXCEPT ![run[r].repair] = record]]
    BY <1>3 DEF Reserve, ReserveModelCall
  <2>3. run[r].key \in Key /\ run[r].repair \in CallKey
    BY <1>1, <1>3 DEF Reserve
  <2> HIDE DEF record
  <2>4. CASE modelCall' = modelCall
    BY <2>4 DEF FailureHasError
  <2> QED
    BY <1>2, <2>1, <2>2, <2>3, <2>4
<1>4. ASSUME NEW r \in Caller, Complete(r)
      PROVE  FailureHasError'
  <2> DEFINE j == run[r].key
             b == run[r].repair
             record == [modelCall[j][b] EXCEPT !.status = "succeeded",
                                               !.response = run[r].response]
  <2>1. j \in Key /\ b \in CallKey
    BY <1>1, <1>4 DEF Complete
  <2>2. modelCall' = [modelCall EXCEPT ![j] = [@ EXCEPT ![b] = record]]
    BY <1>4 DEF Complete, CompleteModelCall
  <2>3. record.status = "succeeded"
    BY <1>0, <2>1 DEF CallRecord
  <2> QED
    BY <1>2, <2>1, <2>2, <2>3
<1>5. ASSUME NEW r \in Caller, RecordFailure(r)
      PROVE  FailureHasError'
  <2> DEFINE j == run[r].key
             b == run[r].repair
             record == [modelCall[j][b] EXCEPT !.status = "failed", !.error = run[r].error]
  <2>1. j \in Key /\ b \in CallKey /\ run[r].error \in Error
    BY <1>1, <1>5 DEF RecordFailure, RunOK, RunFits
  <2>2. modelCall' = [modelCall EXCEPT ![j] = [@ EXCEPT ![b] = record]]
    BY <1>5 DEF RecordFailure, FailModelCall
  <2>3. record.error = run[r].error
    BY <1>0, <2>1 DEF CallRecord
  <2>4. record.error # None
    BY <2>1, <2>3, RepositoryAssumption
  <2> HIDE DEF record
  <2> QED
    BY <1>2, <2>1, <2>2, <2>4
<1>6. CASE UNCHANGED modelCall
  BY <1>6 DEF FailureHasError
<1> QED
  BY <1>3, <1>4, <1>5, <1>6, CallRowsUnchanged

(* The resume of a hopeless execution is refused. *)
LEMMA HopelessResume ==
  ASSUME FailureHasError, NEW k \in Key, Hopeless(k)
  PROVE  ResumeError(k) # None
BY RepositoryAssumption DEF Hopeless, NoAnswer, FailureHasError, ResumeError, Error

(* The calls on it end, or are refused their resume first. *)
LEMMA HopelessCalls ==
  ASSUME EngineOK, FailureHasError, NEW k \in Key, Hopeless(k), [Next]_vars,
         NEW r \in Caller, run'[r].key = k
  PROVE  pc'[r] \in Ended \cup {"resume", "terminate"}
<1> USE DEF EngineOK, TypeOK
<1>1. CASE pc'[r] = pc[r] /\ run'[r] = run[r]
  BY <1>1 DEF Hopeless
<1>2. CASE Crash(r)
  BY <1>2 DEF Crash, Goto, Ended
<1>3. CASE Call(r)
  <2> PICK j \in Key, request \in Request, policy \in Policy, now \in Instant :
        \/ Create(r, j, request, policy, now)
        \/ Conflict(r, j, request, policy, now)
        \/ Replay(r, j, request, policy, now)
        \/ Rejoin(r, j, request, policy, now)
    BY <1>3 DEF Call
  <2>1. CASE Create(r, j, request, policy, now)
    <3>1. run'[r] = [NewRun(j, request, policy, now) EXCEPT !.attempt = 1]
      BY <2>1 DEF Create
    <3>2. run'[r].key = j
      BY <3>1 DEF NewRun, NoRun
    <3> QED
      BY <2>1, <3>2 DEF Create, Hopeless
  <2>2. CASE \/ Conflict(r, j, request, policy, now) \/ Replay(r, j, request, policy, now)
             \/ Rejoin(r, j, request, policy, now)
    BY <2>2 DEF Conflict, Replay, Rejoin, Goto, Ended
  <2> QED
    BY <2>1, <2>2
<1>4. CASE Step(r)
  <2>1. run[r].key = k
    BY <1>4, ControlStep DEF Reserve
  <2>2. pc[r] \in {"resume", "terminate"}
    BY <1>4, <2>1, StepIsUnderWay DEF Hopeless
  <2>3. ResumeRefused(r) \/ Terminate(r) \/ TerminateRefused(r)
    <3>1. ~Resume(r)
      BY <2>1, HopelessResume DEF Resume
    <3> QED
      BY <1>4, <2>2, <3>1
         DEF Step, StageRefused, EnterLoading, Enter, Load, LoadFails,
             EnterCallingModel, Reserve, ReserveRefused, Dispatch,
             CancelledBeforeDispatch, Respond, GatewayFails, Complete, RecordFailure,
             Validate, Interpret, Evaluate, Prepare, CommitRun, CommitRefused, Stage
  <2> QED
    BY <2>3 DEF ResumeRefused, Terminate, TerminateRefused, Throw, Return, Goto, Ended
<1> QED
  BY <1>1, <1>2, <1>3, <1>4, OthersStep

(* The row of its primary call stays as it is. *)
LEMMA HopelessRow ==
  ASSUME EngineOK, NEW k \in Key, Hopeless(k), [Next]_vars
  PROVE  modelCall'[k] = modelCall[k]
<1> USE DEF EngineOK
<1>1. ASSUME NEW r \in Caller, Reserve(r) \/ Complete(r) \/ RecordFailure(r)
      PROVE  modelCall'[k] = modelCall[k]
  <2>1. pc[r] \in {"reserve", "complete", "fail-call"}
    BY <1>1 DEF Reserve, Complete, RecordFailure
  <2>2. run[r].key # k
    BY <2>1 DEF Hopeless, Ended
  <2> QED
    BY <1>1, <2>2
       DEF Reserve, ReserveModelCall, Complete, CompleteModelCall, RecordFailure,
           FailModelCall, RepositoryOK, RepositoryTypeOK
<1> QED
  BY <1>1, CallRowsUnchanged

(* It is never committed, and what was not kept is not kept later. *)
LEMMA HopelessStanding ==
  ASSUME EngineOK, NEW k \in Key, Hopeless(k), [Next]_vars
  PROVE  /\ execution'[k].status # "committed"
         /\ execution'[k].readable = execution[k].readable
<1> USE DEF EngineOK, RepositoryOK
<1>1. ASSUME NEW r \in Caller, CommitRun(r)
      PROVE  execution'[k] = execution[k]
  <2>1. run[r].key \in Key \ {k} /\ run[r].prepared \in Prepared
    BY <1>1 DEF CommitRun, RunOK, RunFits, Hopeless, Ended
  <2> QED
    BY <1>1, <2>1, CommitType DEF CommitRun, repository
<1>2. ASSUME NEW j \in Key, Accepts(j)
      PROVE  execution'[k] = execution[k]
  BY <1>2, AcceptType DEF Accepts, Hopeless
<1>3. ASSUME NEW j \in Key, AppendsAttempt(j)
      PROVE  /\ execution'[k].status # "committed"
             /\ execution'[k].readable = execution[k].readable
  <2>1. execution'[k].status # "committed"
    BY <1>3, AppendType DEF Hopeless, Mutable, Terminal
  <2>2. execution'[k].readable = execution[k].readable
    BY <1>3 DEF AppendsAttempt, AppendAttempt, RepositoryTypeOK, ExecutionRecord
  <2> QED
    BY <2>1, <2>2
<1>4. ASSUME NEW j \in Key, MarksTerminal(j)
      PROVE  /\ execution'[k].status # "committed"
             /\ execution'[k].readable = execution[k].readable
  <2>1. execution'[k].status # "committed"
    BY <1>4, TerminalType DEF MarksTerminal, Hopeless
  <2>2. execution'[k].readable = execution[k].readable
    BY <1>4 DEF MarksTerminal, MarkTerminal, RepositoryTypeOK, ExecutionRecord
  <2> QED
    BY <2>1, <2>2
<1>5. ASSUME NEW j \in Key, Reserves(j) \/ Completes(j) \/ Fails(j)
      PROVE  execution' = execution
  BY <1>5, CallType
<1>6. CASE UNCHANGED repository
  BY <1>6 DEF repository, Hopeless
<1> QED
  BY <1>1, <1>2, <1>3, <1>4, <1>5, <1>6, StepMethods DEF PlainMethod, Hopeless

LEMMA HopelessStays ==
  ASSUME EngineOK, FailureHasError, NEW k \in Key, Hopeless(k), [Next]_vars
  PROVE  Hopeless(k)'
<1>1. Exists(k)'
  BY StepByMethods, ExistsStep DEF EngineOK, Hopeless
<1>2. NoAnswer(k)'
  BY HopelessRow, HopelessStanding DEF Hopeless, NoAnswer
<1> QED
  BY <1>1, <1>2, HopelessStanding, HopelessCalls DEF Hopeless

(* What the operator is shown as stranded can be discharged without taking  *)
(* anything from anybody: no retry, however late, would have committed it. *)
THEOREM StrandedStaysUncommitted == Spec => StrandedIsHopeless
<1>1. Init => EngineOK /\ FailureHasError
  <2>1. 0 \in CallKey
    BY RepositoryAssumption DEF CallKey
  <2> QED
    BY <2>1, EngineInit DEF Init, RepositoryInit, NoCall, FailureHasError
<1>2. EngineOK /\ FailureHasError /\ [Next]_vars => EngineOK' /\ FailureHasError'
  BY EngineStep, FailureStep
<1>3. ASSUME NEW k \in Key
      PROVE  Spec => [](Stranded(k) /\ ~Live(k) => [](execution[k].status # "committed"))
  <2>1. Stranded(k) /\ ~Live(k) => Hopeless(k)
    BY DEF Stranded, Live, Hopeless, NoAnswer, Mutable, Terminal
  <2>2. EngineOK /\ FailureHasError /\ Hopeless(k) /\ [Next]_vars => Hopeless(k)'
    BY HopelessStays
  <2>3. Hopeless(k) => execution[k].status # "committed"
    BY DEF Hopeless
  <2> QED
    BY <1>1, <1>2, <2>1, <2>2, <2>3, PTL DEF Spec
<1> QED
  BY <1>3 DEF StrandedIsHopeless

-----------------------------------------------------------------------------
(***************************************************************************)
(* The delivery of the outbox: OutboxDrain on its own, whoever commits.    *)
(***************************************************************************)

(* An entry whose status and time change is well-typed. *)
LEMMA EntryType ==
  ASSUME NEW entry \in OutboxRecord, NEW s \in OutboxStatus, NEW t \in Int
  PROVE  [entry EXCEPT !.status = s, !.dueIn = t] \in OutboxRecord
BY DEF OutboxRecord

(* A drain that is not under way is well-typed. *)
LEMMA IdleType == IdleDrain \in DrainState
BY OutboxAssumption DEF IdleDrain, DrainState, NoLease, Old

(* Taking an event off a batch leaves a well-typed drain behind. *)
LEMMA SettledType ==
  ASSUME DrainTypeOK, NEW d \in Drain, NEW e \in Key, Settled(d, e)
  PROVE  drain' \in [Drain -> DrainState]
<1> DEFINE rest == [drain[d].leased EXCEPT ![e] = 0]
<1>1. rest \in [Key -> Nat]
  BY DEF DrainTypeOK, DrainState
<1>2. [drain[d] EXCEPT !.pc = "deliver", !.leased = rest] \in DrainState
  BY <1>1 DEF DrainTypeOK, DrainState
<1> QED
  BY <1>2, IdleType DEF Settled, DrainTypeOK

(* Every variable keeps its type. *)
LEMMA DrainsTypeStep == DrainTypeOK /\ [DrainNext]_drainVars => DrainTypeOK'
<1> SUFFICES ASSUME DrainTypeOK, [DrainNext]_drainVars PROVE DrainTypeOK'
  OBVIOUS
<1> USE DEF DrainTypeOK, OutboxTypeOK
<1>1. ASSUME NEW e \in Key, ExecutionCommits(e) PROVE DrainTypeOK'
  BY <1>1 DEF ExecutionCommits, Publish, OutboxRecord, OutboxStatus, NewRecord
<1>2. ASSUME NEW e \in Key, Redrive(e) PROVE DrainTypeOK'
  <2>1. outbox' = [outbox EXCEPT
                     ![e] = [@ EXCEPT !.status = "pending", !.dueIn = 0]]
    BY <1>2 DEF Redrive, RedriveOutbox
  <2>2. outbox' \in [Key -> OutboxRecord]
    <3>1. /\ outbox[e] \in OutboxRecord /\ 0 \in Int
          /\ "pending" \in OutboxStatus
      BY DEF OutboxStatus
    <3>2. [outbox[e] EXCEPT !.status = "pending", !.dueIn = 0] \in OutboxRecord
      BY <3>1, EntryType
    <3> QED BY <2>1, <3>2
  <2>3. redrives' \in 0 .. MaxFaults
    BY <1>2, OutboxAssumption DEF Redrive
  <2> QED
    BY <1>2, <2>2, <2>3 DEF Redrive
<1>3. ASSUME NEW d \in Drain, Start(d) PROVE DrainTypeOK'
  <2>1. [IdleDrain EXCEPT !.pc = "lease"] \in DrainState
    BY IdleType DEF DrainState
  <2>2. drain' \in [Drain -> DrainState]
    BY <1>3, <2>1 DEF Start
  <2> QED
    BY <1>3, <2>2 DEF Start
<1>4. ASSUME NEW d \in Drain, Lease(d) PROVE DrainTypeOK'
  <2> PICK batch \in SUBSET Key :
        /\ LeaseOutbox(batch, Left(d))
        /\ drain' = [drain EXCEPT ![d] =
                      IF batch = {}
                      THEN IdleDrain
                      ELSE [@ EXCEPT
                              !.pc = "deliver",
                              !.leased = [e \in Key |->
                                            IF e \in batch
                                            THEN outbox[e].attemptCount + 1
                                            ELSE 0]]]
    BY <1>4 DEF Lease
  <2>1. Left(d) \in Int
    BY OutboxAssumption DEF Left, DrainState, Old
  <2>2. outbox' \in [Key -> OutboxRecord]
    BY <2>1 DEF LeaseOutbox, OutboxRecord, OutboxStatus
  <2>3. [e \in Key |-> IF e \in batch THEN outbox[e].attemptCount + 1 ELSE 0]
          \in [Key -> Nat]
    BY DEF OutboxRecord
  <2>4. drain' \in [Drain -> DrainState]
    <3> DEFINE leased == [e \in Key |-> IF e \in batch
                                          THEN outbox[e].attemptCount + 1 ELSE 0]
    <3>1. [drain[d] EXCEPT !.pc = "deliver", !.leased = leased] \in DrainState
      BY <2>3 DEF DrainState
    <3> QED
      BY <3>1, IdleType
  <2> QED
    BY <1>4, <2>2, <2>4 DEF Lease
<1>5. ASSUME NEW d \in Drain, NEW e \in Key, NEW verdict \in BOOLEAN,
             Deliver(d, e, verdict)
      PROVE  DrainTypeOK'
  <2>1. drain[d].leased[e] \in Nat \ {0}
    BY <1>5 DEF Deliver, IsNext, Batch, DrainState
  <2>2. [drain[d] EXCEPT !.pc = "settle", !.verdict = verdict] \in DrainState
    BY DEF DrainState
  <2>3. drain' = [drain EXCEPT ![d] = [@ EXCEPT !.pc = "settle", !.verdict = verdict]]
    BY <1>5 DEF Deliver
  <2>4. drain' \in [Drain -> DrainState]
    BY <2>2, <2>3
  <2>5. served' \in [Key -> SUBSET (Nat \ {0})]
    BY <1>5, <2>1 DEF Deliver
  <2> QED
    BY <1>5, <2>4, <2>5 DEF Deliver
<1>6. ASSUME NEW d \in Drain, NEW e \in Key, SettleDelivered(d, e) PROVE DrainTypeOK'
  <2>1. outbox' = [outbox EXCEPT
                     ![e] = [@ EXCEPT !.status = "delivered", !.dueIn = 0]]
    BY <1>6 DEF SettleDelivered, MarkOutboxDelivered
  <2>2. /\ outbox[e] \in OutboxRecord /\ 0 \in Int
        /\ "delivered" \in OutboxStatus
    BY DEF OutboxStatus
  <2>3. [outbox[e] EXCEPT !.status = "delivered", !.dueIn = 0] \in OutboxRecord
    BY <2>2, EntryType
  <2>4. outbox' \in [Key -> OutboxRecord]
    BY <2>1, <2>3
  <2> QED
    BY <1>6, <2>4, SettledType DEF SettleDelivered
<1>7. ASSUME NEW d \in Drain, NEW e \in Key, SettleFailed(d, e) PROVE DrainTypeOK'
  <2>1. Left(d) \in Int
    BY OutboxAssumption DEF Left, DrainState, Old
  <2> DEFINE retry == Retries(d, e)
             settled == [outbox[e] EXCEPT
                           !.status = IF retry THEN "pending" ELSE "failed",
                           !.dueIn = IF retry THEN Left(d) ELSE 0]
  <2>2. settled \in OutboxRecord
    <3> DEFINE status == IF retry THEN "pending" ELSE "failed"
               dueIn == IF retry THEN Left(d) ELSE 0
    <3>1. /\ outbox[e] \in OutboxRecord /\ dueIn \in Int
          /\ status \in OutboxStatus
      BY <2>1 DEF OutboxStatus
    <3>2. settled = [outbox[e] EXCEPT !.status = status, !.dueIn = dueIn]
      OBVIOUS
    <3> HIDE DEF status, dueIn, settled
    <3> QED BY <3>1, <3>2, EntryType
  <2>3. outbox' = outbox \/ outbox' = [outbox EXCEPT ![e] = settled]
    BY <1>7 DEF SettleFailed, MarkOutboxFailed
  <2>4. outbox' \in [Key -> OutboxRecord]
    BY <2>2, <2>3
  <2> QED
    BY <1>7, <2>4, SettledType DEF SettleFailed
<1>8. ASSUME NEW d \in Drain, NEW e \in Key, SettleRefused(d, e) PROVE DrainTypeOK'
  BY <1>8, IdleType DEF SettleRefused
<1>9. ASSUME NEW d \in Drain, DrainCrash(d) PROVE DrainTypeOK'
  BY <1>9, IdleType, OutboxAssumption DEF DrainCrash
<1>10. ASSUME Tick PROVE DrainTypeOK'
  <2>1. ASSUME NEW e \in Key
        PROVE  outbox'[e] \in OutboxRecord
    <3>1. /\ outbox[e] \in OutboxRecord
          /\ \/ outbox'[e] = outbox[e]
             \/ outbox'[e] = [outbox[e] EXCEPT !.dueIn = @ - 1]
      BY <1>10 DEF Tick
    <3> QED
      BY <3>1 DEF OutboxRecord
  <2>2. outbox' \in [Key -> OutboxRecord]
    BY <1>10, <2>1 DEF Tick
  <2>3. ASSUME NEW d \in Drain
        PROVE  drain'[d] \in DrainState
    <3>1. /\ drain[d] \in DrainState
          /\ \/ drain'[d] = drain[d]
             \/ /\ drain[d].age < Old
                /\ drain'[d] = [drain[d] EXCEPT !.age = @ + 1]
      BY <1>10 DEF Tick
    <3> QED
      BY <3>1, OutboxAssumption DEF DrainState, Old
  <2>4. drain' \in [Drain -> DrainState]
    BY <1>10, <2>3 DEF Tick
  <2> QED
    BY <1>10, <2>2, <2>4 DEF Tick
<1>11. CASE UNCHANGED drainVars
  BY <1>11 DEF drainVars
<1> QED
  BY <1>1, <1>2, <1>3, <1>4, <1>5, <1>6, <1>7, <1>8, <1>9, <1>10, <1>11
     DEF DrainNext, Delivery, DrainStep

LEMMA DrainsTypeInit == DrainInit => DrainTypeOK
BY IdleType, OutboxAssumption
   DEF DrainInit, DrainTypeOK, OutboxInit, OutboxTypeOK, NoRecord, OutboxRecord,
       OutboxStatus

(* In every behaviour of concurrent drains, crashes and redrives all       *)
(* variables keep their types.                                             *)
THEOREM DrainsTypeCorrect == DrainSpec => []DrainTypeOK
BY DrainsTypeInit, DrainsTypeStep, PTL DEF DrainSpec

-----------------------------------------------------------------------------
(* A delivered entry stays delivered in every step.                        *)
LEMMA DeliveredStep ==
  ASSUME DrainTypeOK, [DrainNext]_drainVars, NEW f \in Key, outbox[f].status = "delivered"
  PROVE  outbox'[f].status = "delivered"
<1> USE DEF DrainTypeOK, OutboxTypeOK, OutboxRecord
<1>1. ASSUME NEW e \in Key, ExecutionCommits(e) PROVE outbox'[f].status = "delivered"
  BY <1>1 DEF ExecutionCommits, Publish
<1>2. ASSUME NEW e \in Key, Redrive(e) PROVE outbox'[f].status = "delivered"
  BY <1>2 DEF Redrive, RedriveOutbox
<1>3. ASSUME NEW d \in Drain, Start(d) PROVE outbox'[f].status = "delivered"
  BY <1>3 DEF Start
<1>4. ASSUME NEW d \in Drain, Lease(d) PROVE outbox'[f].status = "delivered"
  BY <1>4 DEF Lease, LeaseBatch, LeaseOutbox, Due
<1>5. ASSUME NEW d \in Drain, NEW e \in Key, NEW verdict \in BOOLEAN,
             Deliver(d, e, verdict)
      PROVE  outbox'[f].status = "delivered"
  BY <1>5 DEF Deliver
<1>6. ASSUME NEW d \in Drain, NEW e \in Key, SettleDelivered(d, e)
      PROVE  outbox'[f].status = "delivered"
  BY <1>6 DEF SettleDelivered, MarkOutboxDelivered
<1>7. ASSUME NEW d \in Drain, NEW e \in Key, SettleFailed(d, e)
      PROVE  outbox'[f].status = "delivered"
  BY <1>7 DEF SettleFailed, MarkOutboxFailed, FailedRefused
<1>8. ASSUME NEW d \in Drain, NEW e \in Key, SettleRefused(d, e)
      PROVE  outbox'[f].status = "delivered"
  BY <1>8 DEF SettleRefused
<1>9. ASSUME NEW d \in Drain, DrainCrash(d) PROVE outbox'[f].status = "delivered"
  BY <1>9 DEF DrainCrash
<1>10. ASSUME Tick PROVE outbox'[f].status = "delivered"
  BY <1>10 DEF Tick
<1>11. CASE UNCHANGED drainVars
  BY <1>11 DEF drainVars
<1> QED
  BY <1>1, <1>2, <1>3, <1>4, <1>5, <1>6, <1>7, <1>8, <1>9, <1>10, <1>11
     DEF DrainNext, Delivery, DrainStep

(* No slow drain, expired lease or redrive changes a delivered entry.      *)
THEOREM DeliveredForever == DrainSpec => DeliveredIsFinal
<1>1. DrainTypeOK /\ [DrainNext]_drainVars =>
        [\A e \in Key :
           outbox[e].status = "delivered" => outbox'[e].status = "delivered"]_drainVars
  BY DeliveredStep
<1> QED
  BY <1>1, DrainsTypeCorrect, PTL DEF DrainSpec, DeliveredIsFinal

-----------------------------------------------------------------------------
(***************************************************************************)
(* Nothing is recorded as delivered that was not accepted.  What makes it  *)
(* inductive: between an accepted call and its settlement, the event the   *)
(* drain is about to settle is the one that was accepted.                  *)
(***************************************************************************)
VerdictIsOfNext ==
  \A d \in Drain, e \in Key :
    drain[d].pc = "settle" /\ drain[d].verdict /\ IsNext(d, e) => e \in accepted

AcceptedInv == DeliveredWasAccepted /\ VerdictIsOfNext

(* A batch has one first event. *)
LEMMA NextIsUnique ==
  ASSUME NEW d \in Drain, NEW e \in Key, NEW f \in Key,
         IsNext(d, e), IsNext(d, f)
  PROVE  e = f
BY OutboxAssumption DEF IsNext, Batch

LEMMA AcceptedStep == DrainTypeOK /\ AcceptedInv /\ [DrainNext]_drainVars => AcceptedInv'
<1> SUFFICES ASSUME DrainTypeOK, AcceptedInv, [DrainNext]_drainVars PROVE AcceptedInv'
  OBVIOUS
<1> USE DEF AcceptedInv, DeliveredWasAccepted
<1> DEFINE Kept(d) ==
      /\ drain'[d].pc = drain[d].pc
      /\ drain'[d].verdict = drain[d].verdict
      /\ drain'[d].leased = drain[d].leased
(* A drain that keeps its place, or is not about to settle, is no concern. *)
<1>a. ASSUME accepted \subseteq accepted',
             \A d \in Drain : Kept(d) \/ drain'[d].pc # "settle"
      PROVE  VerdictIsOfNext'
  BY <1>a DEF VerdictIsOfNext, IsNext, Batch
(* The outbox delivers nothing new. *)
<1>b. ASSUME accepted \subseteq accepted',
             \A e \in Key : outbox'[e].status = "delivered"
                               => outbox[e].status = "delivered"
      PROVE  DeliveredWasAccepted'
  BY <1>b
<1> USE DEF DrainTypeOK, OutboxTypeOK, OutboxRecord, DrainState
<1>1. ASSUME NEW e \in Key, ExecutionCommits(e) PROVE AcceptedInv'
  BY <1>1, <1>a, <1>b DEF ExecutionCommits, Publish, NewRecord
<1>2. ASSUME NEW e \in Key, Redrive(e) PROVE AcceptedInv'
  BY <1>2, <1>a, <1>b DEF Redrive, RedriveOutbox
<1>3. ASSUME NEW d \in Drain, Start(d) PROVE AcceptedInv'
  BY <1>3, <1>a, <1>b DEF Start, IdleDrain
<1>4. ASSUME NEW d \in Drain, Lease(d) PROVE AcceptedInv'
  <2>1. \A f \in Key : outbox'[f].status = "delivered"
                          => outbox[f].status = "delivered"
    BY <1>4 DEF Lease, LeaseOutbox
  <2>2. drain'[d].pc # "settle"
    BY <1>4 DEF Lease, IdleDrain
  <2> QED
    BY <1>4, <2>1, <2>2, <1>a, <1>b DEF Lease
<1>5. ASSUME NEW d \in Drain, NEW e \in Key, NEW verdict \in BOOLEAN,
             Deliver(d, e, verdict)
      PROVE  AcceptedInv'
  <2>1. ASSUME NEW c \in Drain, NEW f \in Key, drain'[c].pc = "settle",
               drain'[c].verdict, IsNext(c, f)'
        PROVE  f \in accepted'
    <3>1. IsNext(c, f)
      BY <1>5, <2>1 DEF Deliver, IsNext, Batch
    <3>2. CASE c = d
      BY <1>5, <2>1, <3>1, <3>2, NextIsUnique DEF Deliver
    <3>3. CASE c # d
      BY <1>5, <2>1, <3>1, <3>3 DEF Deliver, VerdictIsOfNext
    <3> QED
      BY <3>2, <3>3
  <2> QED
    BY <1>5, <2>1, <1>b DEF Deliver, VerdictIsOfNext
<1>6. ASSUME NEW d \in Drain, NEW e \in Key, SettleDelivered(d, e)
      PROVE  AcceptedInv'
  <2>1. e \in accepted
    BY <1>6 DEF SettleDelivered, VerdictIsOfNext
  <2>2. DeliveredWasAccepted'
    BY <1>6, <2>1 DEF SettleDelivered, MarkOutboxDelivered
  <2> QED
    BY <1>6, <2>2, <1>a DEF SettleDelivered, Settled, IdleDrain
<1>7. ASSUME NEW d \in Drain, NEW e \in Key, SettleFailed(d, e) PROVE AcceptedInv'
  <2>1. DeliveredWasAccepted'
    BY <1>7, <1>b DEF SettleFailed, MarkOutboxFailed
  <2> QED
    BY <1>7, <2>1, <1>a DEF SettleFailed, Settled, IdleDrain
<1>8. ASSUME NEW d \in Drain, NEW e \in Key, SettleRefused(d, e) PROVE AcceptedInv'
  BY <1>8, <1>a, <1>b DEF SettleRefused, IdleDrain
<1>9. ASSUME NEW d \in Drain, DrainCrash(d) PROVE AcceptedInv'
  BY <1>9, <1>a, <1>b DEF DrainCrash, IdleDrain
<1>10. ASSUME Tick PROVE AcceptedInv'
  <2>1. \A f \in Key : outbox'[f].status = outbox[f].status
    BY <1>10 DEF Tick
  <2>2. \A d \in Drain : Kept(d)
    BY <1>10 DEF Tick
  <2> QED
    BY <1>10, <2>1, <2>2, <1>a, <1>b DEF Tick
<1>11. CASE UNCHANGED drainVars
  BY <1>11, <1>a, <1>b DEF drainVars
<1> QED
  BY <1>1, <1>2, <1>3, <1>4, <1>5, <1>6, <1>7, <1>8, <1>9, <1>10, <1>11
     DEF DrainNext, Delivery, DrainStep

(* An entry is recorded as delivered only if the dispatcher accepted it.   *)
THEOREM OnlyAcceptedIsDelivered == DrainSpec => []DeliveredWasAccepted
<1>1. DrainInit => AcceptedInv
  BY DEF DrainInit, OutboxInit, NoRecord, IdleDrain, AcceptedInv,
         DeliveredWasAccepted, VerdictIsOfNext
<1>2. AcceptedInv => DeliveredWasAccepted
  BY DEF AcceptedInv
<1> QED
  BY <1>1, <1>2, AcceptedStep, DrainsTypeCorrect, PTL DEF DrainSpec

-----------------------------------------------------------------------------
(***************************************************************************)
(* The attempt count is an upper bound of the calls of the dispatcher, and *)
(* no two drains hold the same attempt.  What makes it inductive: no drain *)
(* is ahead of the count, an absent entry has no attempts, and the events  *)
(* of a batch that are still to be served were not served under this       *)
(* drain's attempt.                                                        *)
(***************************************************************************)
CountBounds ==
  /\ \A d \in Drain, e \in Key : drain[d].leased[e] <= outbox[e].attemptCount
  /\ \A e \in Key : \A n \in served[e] : n <= outbox[e].attemptCount
  /\ \A e \in Key : outbox[e].status = "absent" => outbox[e].attemptCount = 0

ToServe(d, e) ==
  /\ e \in Batch(d)
  /\ \/ drain[d].pc = "deliver"
     \/ drain[d].pc = "settle" /\ ~IsNext(d, e)

Unserved ==
  \A d \in Drain, e \in Key : ToServe(d, e) => drain[d].leased[e] \notin served[e]

CountInv == CountBounds /\ OneHolderPerAttempt /\ Unserved

(* Attempt counts never fall while somebody may still hold one of them.    *)
LEMMA CountBoundsKept ==
  ASSUME DrainTypeOK, CountBounds, served' = served,
         \A d \in Drain, e \in Key : drain'[d].leased[e] \in {0, drain[d].leased[e]},
         \A e \in Key :
           /\ outbox'[e].attemptCount = outbox[e].attemptCount
           /\ outbox'[e].status = "absent" => outbox[e].status = "absent"
  PROVE  CountBounds'
BY DEF CountBounds, DrainTypeOK, OutboxTypeOK, OutboxRecord, DrainState

(* Dropping events from batches gives no attempt a second holder.          *)
LEMMA OneHolderKept ==
  ASSUME DrainTypeOK, OneHolderPerAttempt,
         \A d \in Drain, e \in Key : drain'[d].leased[e] \in {0, drain[d].leased[e]}
  PROVE  OneHolderPerAttempt'
BY DEF OneHolderPerAttempt, Batch, DrainTypeOK, DrainState

(* Nor does it make an event served that is still to be served.            *)
LEMMA UnservedKept ==
  ASSUME DrainTypeOK, Unserved, served' = served,
         \A d \in Drain, e \in Key : ToServe(d, e)' =>
            ToServe(d, e) /\ drain'[d].leased[e] = drain[d].leased[e]
  PROVE  Unserved'
BY DEF Unserved

(* After a settlement the rest of the batch is still to be served.         *)
LEMMA SettledKeeps ==
  ASSUME DrainTypeOK, NEW d \in Drain, NEW e \in Key, drain[d].pc = "settle",
         IsNext(d, e), Settled(d, e)
  PROVE  /\ \A c \in Drain, f \in Key :
              drain'[c].leased[f] \in {0, drain[c].leased[f]}
         /\ \A c \in Drain, f \in Key : ToServe(c, f)' =>
              ToServe(c, f) /\ drain'[c].leased[f] = drain[c].leased[f]
<1> USE DEF DrainTypeOK, DrainState
<1>1. \A c \in Drain \ {d} : drain'[c] = drain[c]
  BY DEF Settled
<1>2. \A f \in Key \ {e} : drain'[d].leased[f] \in {0, drain[d].leased[f]}
  BY DEF Settled, IdleDrain, NoLease
<1>3. drain'[d].leased[e] = 0
  BY DEF Settled, IdleDrain, NoLease
<1>4. ASSUME NEW c \in Drain, NEW f \in Key, ToServe(c, f)'
      PROVE  ToServe(c, f) /\ drain'[c].leased[f] = drain[c].leased[f]
  <2>1. CASE c # d
    BY <1>1, <1>4, <2>1 DEF ToServe, IsNext, Batch
  <2>2. CASE c = d
    <3>1. f # e /\ drain'[d].leased[f] = drain[d].leased[f]
      BY <1>2, <1>3, <1>4, <2>2 DEF ToServe, Batch
    <3>2. ~IsNext(d, f)
      BY <3>1, NextIsUnique
    <3> QED
      BY <1>4, <2>2, <3>1, <3>2 DEF ToServe, Batch
  <2> QED
    BY <2>1, <2>2
<1> QED
  BY <1>1, <1>2, <1>3, <1>4

LEMMA CountStep == DrainTypeOK /\ CountInv /\ [DrainNext]_drainVars => CountInv'
<1> SUFFICES ASSUME DrainTypeOK, CountInv, [DrainNext]_drainVars PROVE CountInv'
  OBVIOUS
<1> USE DEF CountInv
(* Most steps take nothing up and leave the counts alone. *)
<1> DEFINE Fewer == \A c \in Drain, f \in Key :
                      drain'[c].leased[f] \in {0, drain[c].leased[f]}
           SameToServe == \A c \in Drain, f \in Key : ToServe(c, f)' =>
                            ToServe(c, f) /\ drain'[c].leased[f] = drain[c].leased[f]
           SameCount == \A f \in Key :
                          /\ outbox'[f].attemptCount = outbox[f].attemptCount
                          /\ outbox'[f].status = "absent" => outbox[f].status = "absent"
<1>a. ASSUME Fewer, SameToServe, SameCount, served' = served PROVE CountInv'
  BY <1>a, CountBoundsKept, OneHolderKept, UnservedKept
<1>b. ASSUME drain' = drain PROVE Fewer /\ SameToServe
  BY <1>b DEF ToServe, IsNext, Batch
<1>c. ASSUME NEW d \in Drain, drain' = [drain EXCEPT ![d] = IdleDrain]
      PROVE  Fewer /\ SameToServe
  BY <1>c DEF ToServe, IsNext, Batch, IdleDrain, NoLease, DrainTypeOK, DrainState
<1> HIDE DEF Fewer, SameToServe, SameCount
<1>1. ASSUME NEW e \in Key, ExecutionCommits(e) PROVE CountInv'
  <2>1. outbox[e].attemptCount = 0 /\ outbox'[e].attemptCount = 0
    BY <1>1 DEF ExecutionCommits, Publish, NewRecord, CountBounds
  <2>2. SameCount
    BY <1>1, <2>1 DEF SameCount, ExecutionCommits, Publish, NewRecord
  <2> QED
    BY <1>1, <2>2, <1>a, <1>b DEF ExecutionCommits
<1>2. ASSUME NEW e \in Key, Redrive(e) PROVE CountInv'
  <2>1. SameCount
    BY <1>2 DEF SameCount, Redrive, RedriveOutbox, DrainTypeOK, OutboxTypeOK, OutboxRecord
  <2> QED
    BY <1>2, <2>1, <1>a, <1>b DEF Redrive
<1>3. ASSUME NEW d \in Drain, Start(d) PROVE CountInv'
  <2>1. Fewer /\ SameToServe
    BY <1>3 DEF Fewer, SameToServe, Start, IdleDrain, NoLease, ToServe, IsNext,
                Batch, DrainTypeOK, DrainState
  <2>2. SameCount
    BY <1>3 DEF SameCount, Start
  <2> QED
    BY <1>3, <2>1, <2>2, <1>a DEF Start
<1>4. ASSUME NEW d \in Drain, Lease(d) PROVE CountInv'
  <2> PICK batch \in SUBSET Key :
        /\ LeaseBatch(batch, drain[d].age)
        /\ LeaseOutbox(batch, Left(d))
        /\ drain' = [drain EXCEPT ![d] =
                      IF batch = {}
                      THEN IdleDrain
                      ELSE [@ EXCEPT
                              !.pc = "deliver",
                              !.leased = [e \in Key |->
                                            IF e \in batch
                                            THEN outbox[e].attemptCount + 1
                                            ELSE 0]]]
    BY <1>4 DEF Lease
  <2> USE DEF DrainTypeOK, OutboxTypeOK, OutboxRecord, DrainState
  <2>1. \A f \in Key :
          /\ outbox'[f].attemptCount =
               IF f \in batch THEN outbox[f].attemptCount + 1 ELSE outbox[f].attemptCount
          /\ outbox'[f].status = "absent" => f \notin batch /\ outbox[f].status = "absent"
    BY DEF LeaseOutbox
  <2>2. \A c \in Drain \ {d} : drain'[c] = drain[c]
    OBVIOUS
  <2>3. \A f \in Key :
          drain'[d].leased[f] = IF f \in batch THEN outbox[f].attemptCount + 1 ELSE 0
    BY DEF IdleDrain, NoLease
  <2>4. served' = served
    BY <1>4 DEF Lease
  <2>5. CountBounds'
    BY <2>1, <2>2, <2>3, <2>4 DEF CountBounds
  <2>6. OneHolderPerAttempt'
    BY <2>2, <2>3 DEF OneHolderPerAttempt, CountBounds, Batch
  <2>7. ASSUME NEW c \in Drain, NEW f \in Key, ToServe(c, f)'
        PROVE  drain'[c].leased[f] \notin served[f]
    <3>1. CASE c = d
      BY <2>3, <2>7, <3>1 DEF ToServe, Batch, CountBounds
    <3>2. CASE c # d
      <4>1. drain'[c] = drain[c]
        BY <2>2, <3>2
      <4>2. ToServe(c, f)
        BY <2>7, <4>1 DEF ToServe, IsNext, Batch
      <4> QED
        BY <4>1, <4>2 DEF Unserved
    <3> QED
      BY <3>1, <3>2
  <2> QED
    BY <2>4, <2>5, <2>6, <2>7 DEF Unserved
<1>5. ASSUME NEW d \in Drain, NEW e \in Key, NEW verdict \in BOOLEAN,
             Deliver(d, e, verdict)
      PROVE  CountInv'
  <2> USE DEF DrainTypeOK, OutboxTypeOK, OutboxRecord, DrainState
  <2>1. \A c \in Drain : drain'[c].leased = drain[c].leased
    BY <1>5 DEF Deliver
  <2>2. \A c \in Drain, f \in Key : IsNext(c, f)' <=> IsNext(c, f)
    BY <2>1 DEF IsNext, Batch
  <2>3. \A f \in Key : served'[f] = IF f = e THEN served[f] \cup {drain[d].leased[e]}
                                      ELSE served[f]
    BY <1>5 DEF Deliver
  <2>4. outbox' = outbox
    BY <1>5 DEF Deliver
  <2>5. CountBounds'
    <3>1. ASSUME NEW f \in Key, NEW n \in served'[f]
          PROVE  n <= outbox[f].attemptCount
      <4>1. n \in served[f] \/ (f = e /\ n = drain[d].leased[e])
        BY <2>3
      <4> QED
        BY <4>1 DEF CountBounds
    <3>2. \A c \in Drain, f \in Key : drain'[c].leased[f] <= outbox[f].attemptCount
      BY <2>1 DEF CountBounds
    <3> QED
      BY <2>4, <3>1, <3>2 DEF CountBounds
  <2>6. OneHolderPerAttempt'
    BY <2>1 DEF OneHolderPerAttempt, Batch
  <2>7. ASSUME NEW c \in Drain, NEW f \in Key, ToServe(c, f)'
        PROVE  drain'[c].leased[f] \notin served'[f]
    <3>1. f \in Batch(c)
      BY <2>1, <2>7 DEF ToServe, Batch
    <3>2. CASE c = d
      <4>1. f # e
        BY <1>5, <2>2, <2>7, <3>2 DEF Deliver, ToServe
      <4>2. ToServe(d, f)
        BY <1>5, <3>1, <3>2 DEF Deliver, ToServe
      <4> QED
        BY <2>1, <2>3, <3>2, <4>1, <4>2 DEF Unserved
    <3>3. CASE c # d
      <4>1. ToServe(c, f)
        BY <1>5, <2>2, <2>7, <3>1, <3>3 DEF Deliver, ToServe
      <4>2. f = e => drain[c].leased[f] # drain[d].leased[e]
        BY <1>5, <3>1, <3>3 DEF Deliver, IsNext, OneHolderPerAttempt
      <4> QED
        BY <2>1, <2>3, <4>1, <4>2 DEF Unserved
    <3> QED
      BY <3>2, <3>3
  <2> QED
    BY <2>5, <2>6, <2>7 DEF Unserved
<1>6. ASSUME NEW d \in Drain, NEW e \in Key, SettleDelivered(d, e) PROVE CountInv'
  <2>1. SameCount
    BY <1>6 DEF SameCount, SettleDelivered, MarkOutboxDelivered, DrainTypeOK,
                OutboxTypeOK, OutboxRecord
  <2>2. Fewer /\ SameToServe
    BY <1>6, SettledKeeps DEF Fewer, SameToServe, SettleDelivered
  <2> QED
    BY <1>6, <2>1, <2>2, <1>a DEF SettleDelivered
<1>7. ASSUME NEW d \in Drain, NEW e \in Key, SettleFailed(d, e) PROVE CountInv'
  <2>1. SameCount
    BY <1>7 DEF SameCount, SettleFailed, MarkOutboxFailed, DrainTypeOK,
                OutboxTypeOK, OutboxRecord
  <2>2. Fewer /\ SameToServe
    BY <1>7, SettledKeeps DEF Fewer, SameToServe, SettleFailed
  <2> QED
    BY <1>7, <2>1, <2>2, <1>a DEF SettleFailed
<1>8. ASSUME NEW d \in Drain, NEW e \in Key, SettleRefused(d, e) PROVE CountInv'
  BY <1>8, <1>a, <1>c DEF SettleRefused, SameCount
<1>9. ASSUME NEW d \in Drain, DrainCrash(d) PROVE CountInv'
  BY <1>9, <1>a, <1>c DEF DrainCrash, SameCount
<1>10. ASSUME Tick PROVE CountInv'
  <2>1. \A c \in Drain : /\ drain'[c].pc = drain[c].pc
                         /\ drain'[c].leased = drain[c].leased
    BY <1>10 DEF Tick, DrainTypeOK, DrainState
  <2>2. Fewer /\ SameToServe
    BY <2>1 DEF Fewer, SameToServe, ToServe, IsNext, Batch
  <2>3. SameCount
    BY <1>10 DEF SameCount, Tick, DrainTypeOK, OutboxTypeOK, OutboxRecord
  <2> QED
    BY <1>10, <2>2, <2>3, <1>a DEF Tick
<1>11. CASE UNCHANGED drainVars
  BY <1>11, <1>a, <1>b DEF drainVars, SameCount
<1> QED
  BY <1>1, <1>2, <1>3, <1>4, <1>5, <1>6, <1>7, <1>8, <1>9, <1>10, <1>11
     DEF DrainNext, Delivery, DrainStep

LEMMA CountInit == DrainInit => CountInv
BY DEF DrainInit, OutboxInit, NoRecord, IdleDrain, NoLease, CountInv, CountBounds,
       OneHolderPerAttempt, Unserved, ToServe, Batch

(* Every call of the dispatcher is for an attempt of its own, one that the *)
(* record has counted.                                                     *)
THEOREM CallsAreCounted == DrainSpec => []EveryCallCounted
<1>1. DrainTypeOK /\ CountInv => EveryCallCounted
  BY DEF CountInv, CountBounds, Unserved, ToServe, EveryCallCounted
<1> QED
  BY <1>1, CountInit, CountStep, DrainsTypeCorrect, PTL DEF DrainSpec

(* No two drains ever hold the same attempt of an event.                   *)
THEOREM AttemptHasOneHolder == DrainSpec => []OneHolderPerAttempt
<1>1. CountInv => OneHolderPerAttempt
  BY DEF CountInv
<1> QED
  BY <1>1, CountInit, CountStep, DrainsTypeCorrect, PTL DEF DrainSpec

(* Nothing is called uncounted, and every attempt has one holder.          *)
THEOREM EveryCallIsAccounted == DrainSpec => []CallsAreAccounted
<1>1. DrainTypeOK /\ EveryCallCounted /\ OneHolderPerAttempt => CallsAreAccounted
  BY DEF CallsAreAccounted
<1> QED
  BY <1>1, DrainsTypeCorrect, CallsAreCounted, AttemptHasOneHolder, PTL

-----------------------------------------------------------------------------
(***************************************************************************)
(* The engine and the drains together.  A step of the engine is for the    *)
(* drains the commit of an event, or nothing; a step of the drains leaves  *)
(* all the engine knows of the outbox alone, which is whether the event of *)
(* an execution is there.                                                  *)
(***************************************************************************)

(* A drain neither publishes an event nor takes one back. *)
LEMMA DeliveryKeepsEvents ==
  ASSUME DrainTypeOK, Delivery, NEW k \in Key
  PROVE  outbox'[k].status = "absent" <=> outbox[k].status = "absent"
<1> USE DEF DrainTypeOK, OutboxTypeOK, OutboxRecord
<1>1. ASSUME NEW e \in Key, Redrive(e)
      PROVE  outbox'[k].status = "absent" <=> outbox[k].status = "absent"
  BY <1>1 DEF Redrive, RedriveOutbox
<1>2. ASSUME NEW d \in Drain, Start(d) \/ DrainCrash(d)
      PROVE  outbox' = outbox
  BY <1>2 DEF Start, DrainCrash
<1>3. ASSUME NEW d \in Drain, Lease(d)
      PROVE  outbox'[k].status = "absent" <=> outbox[k].status = "absent"
  BY <1>3 DEF Lease, LeaseBatch, LeaseOutbox, Due
<1>4. ASSUME NEW d \in Drain, NEW e \in Key,
             \/ \E verdict \in BOOLEAN : Deliver(d, e, verdict)
             \/ SettleRefused(d, e)
      PROVE  outbox' = outbox
  BY <1>4 DEF Deliver, SettleRefused
<1>5. ASSUME NEW d \in Drain, NEW e \in Key, SettleDelivered(d, e)
      PROVE  outbox'[k].status = "absent" <=> outbox[k].status = "absent"
  BY <1>5 DEF SettleDelivered, MarkOutboxDelivered, DeliveredRefused
<1>6. ASSUME NEW d \in Drain, NEW e \in Key, SettleFailed(d, e)
      PROVE  outbox'[k].status = "absent" <=> outbox[k].status = "absent"
  BY <1>6 DEF SettleFailed, MarkOutboxFailed, FailedRefused
<1>7. ASSUME Tick
      PROVE  outbox'[k].status = "absent" <=> outbox[k].status = "absent"
  BY <1>7 DEF Tick
<1> QED
  BY <1>1, <1>2, <1>3, <1>4, <1>5, <1>6, <1>7 DEF Delivery, DrainStep

LEMMA DeliveryIsDrainStep ==
  ASSUME DrainTypeOK, Delivery PROVE DrainTypeOK' /\ [DrainNext]_drainVars
BY DrainsTypeStep DEF DrainNext

(* So everything the engine's proofs rest on stays true while it drains.   *)
LEMMA DeliveryKeepsEngine ==
  ASSUME PromiseOK, DrainTypeOK, Delivery, UNCHANGED engine
  PROVE  PromiseOK' /\ UNCHANGED Promise!contract
<1>1. UNCHANGED <<execution, attempt, modelCall, history, memory,
                  pc, run, dispatched, operator>>
  BY DEF engine
<1>2. OutboxTypeOK'
  BY DeliveryIsDrainStep DEF DrainTypeOK
<1>3. EngineOK'
  BY <1>1, <1>2
     DEF PromiseOK, EngineOK, TypeOK, RepositoryTypeOK, RepositoryOK,
         LastAttemptExists, RequestKept, Exists, RunOK, RunFits
<1>4. Consistent'
  <2>1. NoEffectWithoutCommit'
    BY <1>1, DeliveryKeepsEvents DEF PromiseOK, Consistent, NoEffectWithoutCommit
  <2> QED
    BY <1>1, <2>1
       DEF PromiseOK, Consistent, LinearHistory, NoLostMemoryUpdate, MemoryRead
<1>5. DispatchOK' /\ SentOK' /\ UntoldOK'
  BY <1>1 DEF PromiseOK, DispatchOK, ReservationOwned, SentOnce, ReservedBeforeSent,
              BeforeReserve, BeforeDispatch, SentOK, UntoldOK
<1>6. (\A r \in Caller : AnswerOK(r))'
  BY <1>1 DEF PromiseOK, AnswerOK, HasAnswer
<1>7. UNCHANGED Promise!contract
  BY <1>1 DEF Promise!contract, Ledger, Standing, Exists, Mutable, Heads,
              Revision, Asked, Answers, Told
<1> QED
  BY <1>3, <1>4, <1>5, <1>6, <1>7 DEF PromiseOK

(* A step of the engine publishes the event of a commit, once, or leaves   *)
(* the outbox alone.                                                       *)
LEMMA EngineStepPublishes ==
  ASSUME EngineOK, Consistent, DrainTypeOK, [Next]_vars, UNCHANGED drains
  PROVE  [DrainNext]_drainVars
<1>1. CASE outbox' = outbox
  BY <1>1 DEF drains, drainVars
<1>2. ASSUME NEW k \in Key, Commits(k)
      PROVE  [DrainNext]_drainVars
  <2>1. PICK p \in Prepared : Commit(k, p)
    BY <1>2 DEF Commits
  <2>2. CASE p.event
    <3>1. outbox[k].status = "absent"
      BY <2>1 DEF Commit, Consistent, NoEffectWithoutCommit
    <3>2. Publish({k})
      BY <2>1, <2>2 DEF Commit
    <3>3. ExecutionCommits(k)
      BY <3>1, <3>2 DEF ExecutionCommits, drains
    <3> QED
      BY <3>3 DEF DrainNext
  <2>3. CASE ~p.event
    <3>1. outbox' = [e \in Key |-> outbox[e]]
      BY <2>1, <2>3 DEF Commit, Publish
    <3>2. outbox' = outbox
      BY <3>1 DEF DrainTypeOK, OutboxTypeOK
    <3> QED
      BY <1>1, <3>2
  <2> QED
    BY <2>2, <2>3
<1>3. ASSUME NEW k \in Key, PlainMethod(k)
      PROVE  outbox' = outbox
  BY <1>3 DEF PlainMethod, Accepts, Accept, AppendsAttempt, AppendAttempt,
              MarksTerminal, MarkTerminal, Reserves, ReserveModelCall,
              Completes, CompleteModelCall, Fails, FailModelCall
<1> QED
  BY <1>1, <1>2, <1>3, StepByMethods DEF RepositoryStep, Method, repository

(* What either side is proved to keep on its own, the system keeps.        *)
SystemOK == PromiseOK /\ DrainTypeOK

LEMMA SystemStep ==
  ASSUME SystemOK, [SystemNext]_<<vars, drainVars>>
  PROVE  /\ SystemOK'
         /\ [DrainNext]_drainVars
         /\ [Promise!ContractNext]_(Promise!contract)
<1> USE DEF SystemOK
<1>1. CASE [Next]_vars /\ UNCHANGED drains
  <2>1. PromiseOK' /\ [Promise!ContractNext]_(Promise!contract)
    BY <1>1, PromiseStays, StepKeepsPromise
  <2>2. [DrainNext]_drainVars
    BY <1>1, EngineStepPublishes DEF PromiseOK
  <2> QED
    BY <2>1, <2>2, DrainsTypeStep
<1>2. CASE Delivery /\ UNCHANGED engine
  BY <1>2, DeliveryIsDrainStep, DeliveryKeepsEngine
<1>3. CASE UNCHANGED <<vars, drainVars>>
  BY <1>1, <1>3 DEF drainVars, drains
<1> QED
  BY <1>1, <1>2, <1>3 DEF SystemNext

LEMMA SystemInvariant == SystemSpec => []SystemOK
<1>1. SystemInit => SystemOK
  BY PromiseStarts, DrainsTypeInit DEF SystemInit, SystemOK
<1>2. SystemOK /\ [SystemNext]_<<vars, drainVars>> => SystemOK'
  BY SystemStep
<1> QED
  BY <1>1, <1>2, PTL DEF SystemSpec

(* To the drains the engine is what OutboxDrain takes it for: executions   *)
(* that commit, each with at most one event.  So all that is proved of the *)
(* drains holds beside any number of racing, dying and resuming calls.     *)
THEOREM SystemDrains == SystemSpec => DrainSpec
<1>1. SystemOK /\ [SystemNext]_<<vars, drainVars>> => [DrainNext]_drainVars
  BY SystemStep
<1> QED
  BY <1>1, SystemInvariant, PTL DEF SystemSpec, SystemInit, DrainSpec

(* To its callers the engine keeps its promise while others drain, settle  *)
(* and redrive what it has published.                                      *)
THEOREM SystemKeepsPromise == SystemSpec => KeepsPromise
<1>1. SystemOK /\ [SystemNext]_<<vars, drainVars>>
        => [Promise!ContractNext]_(Promise!contract)
  BY SystemStep
<1>2. SystemInit => Promise!ContractInit
  BY PromiseInit DEF SystemInit
<1> QED
  BY <1>1, <1>2, SystemInvariant, PTL
     DEF SystemSpec, KeepsPromise, Promise!ContractSpec

(* The outbox holds the events of the commits, and no drain loses one.     *)
THEOREM EventsAreKept == SystemSpec => []EveryEventIsKept
<1>1. SystemOK => EveryEventIsKept
  BY DEF SystemOK, PromiseOK, Consistent, NoEffectWithoutCommit, EveryEventIsKept
<1> QED
  BY <1>1, SystemInvariant, PTL

-----------------------------------------------------------------------------
(* The dispatcher was called for what it accepted. *)
AcceptedWasCalled == \A e \in accepted : served[e] # {}

LEMMA AcceptedWasCalledStep ==
  ASSUME DrainTypeOK, AcceptedWasCalled, [DrainNext]_drainVars
  PROVE  AcceptedWasCalled'
<1> USE DEF AcceptedWasCalled
<1>1. CASE UNCHANGED <<served, accepted>>
  BY <1>1
<1>2. ASSUME NEW d \in Drain, NEW e \in Key, NEW verdict \in BOOLEAN,
             Deliver(d, e, verdict)
      PROVE  AcceptedWasCalled'
  BY <1>2 DEF Deliver, DrainTypeOK
<1>3. ASSUME NEW d \in Drain,
             \/ Start(d) \/ Lease(d) \/ DrainCrash(d)
             \/ \E e \in Key : \/ SettleDelivered(d, e)
                               \/ SettleFailed(d, e)
                               \/ SettleRefused(d, e)
      PROVE  UNCHANGED <<served, accepted>>
  BY <1>3 DEF Start, Lease, DrainCrash, SettleDelivered, SettleFailed, SettleRefused
<1>4. ASSUME \/ Tick
             \/ \E e \in Key : ExecutionCommits(e) \/ Redrive(e)
             \/ UNCHANGED drainVars
      PROVE  UNCHANGED <<served, accepted>>
  BY <1>4 DEF Tick, ExecutionCommits, Redrive, drainVars
<1> QED
  BY <1>1, <1>2, <1>3, <1>4 DEF DrainNext, Delivery, DrainStep

(* Nothing reaches the dispatcher but the events of executions that have   *)
(* committed, and nothing else is recorded as delivered.                   *)
THEOREM CallsFollowCommits == SystemSpec => []CalledForCommits
<1>1. DrainInit => AcceptedWasCalled
  BY DEF DrainInit, AcceptedWasCalled
<1>2. DrainSpec => []AcceptedWasCalled
  <2>1. DrainTypeOK /\ AcceptedWasCalled /\ [DrainNext]_drainVars => AcceptedWasCalled'
    BY AcceptedWasCalledStep
  <2> QED
    BY <1>1, <2>1, DrainsTypeCorrect, PTL DEF DrainSpec
<1>3. DrainSpec => []CountInv
  BY CountInit, CountStep, DrainsTypeCorrect, PTL DEF DrainSpec
<1>4. /\ DrainTypeOK /\ CountInv /\ DeliveredWasAccepted /\ AcceptedWasCalled
      /\ EveryEventIsKept
      => CalledForCommits
  <2> SUFFICES ASSUME DrainTypeOK, CountInv, DeliveredWasAccepted, AcceptedWasCalled,
                      EveryEventIsKept, NEW k \in Key
               PROVE  /\ served[k] # {} => outbox[k].status # "absent"
                      /\ outbox[k].status = "delivered"
                           => k \in accepted /\ served[k] # {}
    BY DEF CalledForCommits, EveryEventIsKept
  <2>1. ASSUME NEW n \in served[k] PROVE outbox[k].status # "absent"
    <3>1. n \in Nat \ {0} /\ n <= outbox[k].attemptCount
      BY <2>1 DEF DrainTypeOK, CountInv, CountBounds
    <3> QED
      BY <3>1 DEF CountInv, CountBounds
  <2> QED
    BY <2>1 DEF DeliveredWasAccepted, AcceptedWasCalled
<1> QED
  BY <1>2, <1>3, <1>4, SystemDrains, DrainsTypeCorrect, OnlyAcceptedIsDelivered,
     EventsAreKept, PTL

=============================================================================
