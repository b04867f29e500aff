-------------------------- MODULE ExecutionEngine --------------------------
(***************************************************************************)
(* SingleTaskExecutionEngine.execute() (packages/core,                     *)
(* execution-engine.ts): concurrent calls over one repository, for the     *)
(* same or for different request keys, each of which may die at any point. *)
(* A step is one awaited call of the repository, the gateway or the task   *)
(* module, with the synchronous code up to the next await.                 *)
(*                                                                         *)
(* An operator may meanwhile discharge stranded executions                 *)
(* (stranded-execution.ts; apps/cli, run.ts).                              *)
(***************************************************************************)
EXTENDS ExecutionRepository

CONSTANT Policy     \* policies callers pass; not part of the fingerprint

ASSUME EngineAssumption ==
  /\ Policy \subseteq [maxRepairCalls : 0 .. MaxRepair, budgeted : BOOLEAN,
                       readable : BOOLEAN]
  /\ None \notin Terminal

VARIABLES
  pc,          \* where each call is; a stage name: about to append that stage
  run,         \* the local state of each call
  dispatched,  \* how often a logical model call was sent to the provider
  operator     \* the execution an operator has decided to discharge, or None

vars == <<execution, attempt, modelCall, history, memory, outbox,
          pc, run, dispatched, operator>>

Ended == {"returned", "rejected", "crashed"}

Pc == Stage \cup Ended \cup
        {"idle", "resume", "load", "reserve", "dispatch", "await", "complete",
         "fail-call", "commit", "terminate"}

ModuleError == {"DOMAIN_INVALID_RESULT", "EVALUATION_BLOCKED"}

GatewayError == {"CANCELLED", "TIMEOUT"}

RunState ==
  [key : Key \cup {None},
   request : Request \cup {None},
   policy : Policy \cup {None},
   now : Instant \cup {None},
   attempt : Nat,
   resumed : BOOLEAN,                  \* continues from a recorded response
   response : Response \cup {None},
   repair : 0 .. MaxRepair,            \* repairs used: the current call key
   memory : Nat,                       \* memory version read by loadContext
   prepared : Prepared \cup {None},
   error : Error \cup {None},
   outcome : Terminal \cup {"other-request", None}]

NoRun ==
  [key |-> None, request |-> None, policy |-> None, now |-> None,
   attempt |-> 0, resumed |-> FALSE, response |-> None, repair |-> 0,
   memory |-> 0, prepared |-> None, error |-> None, outcome |-> None]

TypeOK ==
  /\ RepositoryTypeOK
  /\ pc \in [Caller -> Pc]
  /\ run \in [Caller -> RunState]
  /\ \A r \in Caller : pc[r] # "idle" => run[r].key \in Key
  /\ dispatched \in [Key -> [CallKey -> Nat]]
  /\ operator \in Key \cup {None}

Init ==
  /\ RepositoryInit
  /\ pc = [r \in Caller |-> "idle"]
  /\ run = [r \in Caller |-> NoRun]
  /\ dispatched = [k \in Key |-> [c \in CallKey |-> 0]]
  /\ operator = None

-----------------------------------------------------------------------------

Goto(r, next) == pc' = [pc EXCEPT ![r] = next]

(* An error leaves #runAccepted for the catch of execute(). *)
Throw(r, error) ==
  /\ Goto(r, "terminate")
  /\ run' = [run EXCEPT ![r].error = error]

(* terminalStatus() *)
TerminalStatus(error) ==
  CASE error = "EVALUATION_BLOCKED" -> "blocked"
    [] error \in {"CONFLICT_STATE_REVISION", "CONFLICT_MEMORY_VERSION"} -> "conflicted"
    [] error = "CANCELLED" -> "cancelled"
    [] OTHER -> "failed"

(* enforceResponseBudgets() with the policy of this call, then validation. *)
BudgetError(policy, response) ==
  IF response = "oversized" /\ policy.budgeted THEN "BUDGET_EXCEEDED" ELSE None

(* The response pipeline accepts what is neither repairable nor beyond it. *)
PipelineOK(response) == response \in {"valid", "oversized"}

(* Mutant of ResumeError: a response that was not kept is taken as kept. *)
ResumeErrorKept(k) ==
  LET call == modelCall[k][0] IN
  CASE call.status \in {"none", "succeeded"} -> None
    [] call.status \in {"failed", "ambiguous"} -> call.error
    [] OTHER -> "MODEL_UNAVAILABLE"

(* #planResume(): the error that ends a resume, by the primary call's row. *)
ResumeError(k) ==
  LET call == modelCall[k][0] IN
  CASE call.status = "none" -> None
    [] call.status = "succeeded" ->
         IF execution[k].readable THEN None ELSE "RESUME_EVIDENCE_UNAVAILABLE"
    [] call.status \in {"failed", "ambiguous"} -> call.error
    [] OTHER -> "MODEL_UNAVAILABLE"

NewRun(k, request, policy, now) ==
  [NoRun EXCEPT !.key = k, !.request = request, !.policy = policy, !.now = now]

-----------------------------------------------------------------------------
(* execute() up to and including accept(). *)

Create(r, k, request, policy, now) ==
  /\ pc[r] = "idle"
  /\ ~Exists(k)
  /\ Accept(k, request, policy.readable, now)
  /\ run' = [run EXCEPT ![r] = [NewRun(k, request, policy, now) EXCEPT !.attempt = 1]]
  /\ Goto(r, "loading")
  /\ UNCHANGED <<dispatched, operator>>

Conflict(r, k, request, policy, now) ==
  /\ pc[r] = "idle"
  /\ Exists(k) /\ execution[k].request # request
  /\ run' = [run EXCEPT ![r] =
               [NewRun(k, request, policy, now) EXCEPT !.outcome = "other-request"]]
  /\ Goto(r, "returned")
  /\ UNCHANGED <<repository, dispatched, operator>>

(* The execution has a result: it is returned, a commit as replayed. *)
Replay(r, k, request, policy, now) ==
  /\ pc[r] = "idle"
  /\ Exists(k) /\ execution[k].request = request
  /\ ~Mutable(k)
  /\ run' = [run EXCEPT ![r] =
               [NewRun(k, request, policy, now) EXCEPT !.outcome = execution[k].status]]
  /\ Goto(r, "returned")
  /\ UNCHANGED <<repository, dispatched, operator>>

Rejoin(r, k, request, policy, now) ==
  /\ pc[r] = "idle"
  /\ Exists(k) /\ execution[k].request = request
  /\ Mutable(k)
  /\ run' = [run EXCEPT ![r] = NewRun(k, request, policy, now)]
  /\ Goto(r, "resume")
  /\ UNCHANGED <<repository, dispatched, operator>>

(* #planResume() *)
Resume(r) ==
  LET k == run[r].key
      call == modelCall[k][0]
  IN
  /\ pc[r] = "resume"
  /\ ResumeError(k) = None
  /\ run' = [run EXCEPT ![r].attempt = LastAttempt(k) + 1,
                        ![r].resumed = (call.status = "succeeded"),
                        ![r].response = call.response]
  /\ Goto(r, "loading")
  /\ UNCHANGED <<repository, dispatched, operator>>

ResumeRefused(r) ==
  /\ pc[r] = "resume"
  /\ ResumeError(run[r].key) # None
  /\ Throw(r, ResumeError(run[r].key))
  /\ UNCHANGED <<repository, dispatched, operator>>

-----------------------------------------------------------------------------
(* The stages of #runAccepted(). *)

StageRow(r) == [number |-> run[r].attempt, stage |-> pc[r], at |-> run[r].now]

(* Append the stage the call is at. *)
Enter(r, stage) ==
  /\ pc[r] = stage
  /\ AttemptError(run[r].key, StageRow(r)) = None
  /\ AppendAttempt(run[r].key, StageRow(r))
  /\ UNCHANGED <<dispatched, operator>>

StageRefused(r) ==
  /\ pc[r] \in Stage
  /\ AttemptError(run[r].key, StageRow(r)) # None
  /\ Throw(r, AttemptError(run[r].key, StageRow(r)))
  /\ UNCHANGED <<repository, dispatched, operator>>

EnterLoading(r) ==
  /\ Enter(r, "loading")
  /\ Goto(r, "load")
  /\ UNCHANGED run

(* loadContext(), then retrieval, project() and buildRequest(). *)
Load(r) ==
  /\ pc[r] = "load"
  /\ LoadError(run[r].request) = None
  /\ run' = [run EXCEPT ![r].memory = memory[run[r].request.entity]]
  /\ Goto(r, "calling-model")
  /\ UNCHANGED <<repository, dispatched, operator>>

LoadFails(r, error) ==
  /\ pc[r] = "load"
  /\ error = IF LoadError(run[r].request) # None
             THEN LoadError(run[r].request) ELSE "DOMAIN_INVALID_RESULT"
  /\ Throw(r, error)
  /\ UNCHANGED <<repository, dispatched, operator>>

(* What follows a response, recorded or fresh: the caller's budgets. *)
AfterResponse(r) ==
  LET error == BudgetError(run[r].policy, run[r].response) IN
  IF error = None
  THEN Goto(r, "validating") /\ UNCHANGED run
  ELSE Throw(r, error)

(* The stage is appended before the primary reservation, but after the     *)
(* reservation of a repair.                                                *)
EnterCallingModel(r) ==
  /\ Enter(r, "calling-model")
  /\ IF run[r].resumed
     THEN AfterResponse(r)
     ELSE /\ Goto(r, IF run[r].repair = 0 THEN "reserve" ELSE "dispatch")
          /\ UNCHANGED run

Reserve(r) ==
  /\ pc[r] = "reserve"
  /\ ReserveError(run[r].key, run[r].repair, r) = None
  /\ ReserveModelCall(run[r].key, run[r].repair, r)
  /\ Goto(r, IF run[r].repair = 0 THEN "dispatch" ELSE "calling-model")
  /\ UNCHANGED <<run, dispatched, operator>>

(* Mutant of ReserveRefused: a refused reservation is tried again. *)
ReserveRefusedRetries(r) ==
  /\ pc[r] = "reserve"
  /\ ReserveError(run[r].key, run[r].repair, r) # None
  /\ Goto(r, "reserve")
  /\ UNCHANGED <<repository, run, dispatched, operator>>

ReserveRefused(r) ==
  /\ pc[r] = "reserve"
  /\ ReserveError(run[r].key, run[r].repair, r) # None
  /\ Throw(r, ReserveError(run[r].key, run[r].repair, r))
  /\ UNCHANGED <<repository, dispatched, operator>>

(* gateway.generate(): the request leaves the process, or the call was     *)
(* cancelled before it did.                                                *)
Dispatch(r) ==
  /\ pc[r] = "dispatch"
  /\ dispatched' = [dispatched EXCEPT ![run[r].key][run[r].repair] = @ + 1]
  /\ Goto(r, "await")
  /\ UNCHANGED <<repository, run, operator>>

CancelledBeforeDispatch(r) ==
  /\ pc[r] = "dispatch"
  /\ run' = [run EXCEPT ![r].error = "CANCELLED"]
  /\ Goto(r, "fail-call")
  /\ UNCHANGED <<repository, dispatched, operator>>

Respond(r, response) ==
  /\ pc[r] = "await"
  /\ run' = [run EXCEPT ![r].response = response]
  /\ Goto(r, "complete")
  /\ UNCHANGED <<repository, dispatched, operator>>

GatewayFails(r, error) ==
  /\ pc[r] = "await"
  /\ run' = [run EXCEPT ![r].error = error]
  /\ Goto(r, "fail-call")
  /\ UNCHANGED <<repository, dispatched, operator>>

Complete(r) ==
  /\ pc[r] = "complete"
  /\ CompleteError(run[r].key, run[r].repair, r, run[r].response) = None
  /\ CompleteModelCall(run[r].key, run[r].repair, run[r].response)
  /\ AfterResponse(r)
  /\ UNCHANGED <<dispatched, operator>>

(* Every gateway error is recorded with ambiguous: false. *)
RecordFailure(r) ==
  /\ pc[r] = "fail-call"
  /\ FailError(run[r].key, run[r].repair, r, run[r].error, FALSE) = None
  /\ FailModelCall(run[r].key, run[r].repair, run[r].error, FALSE)
  /\ Throw(r, run[r].error)
  /\ UNCHANGED <<dispatched, operator>>

-----------------------------------------------------------------------------

(* A bad response is repaired while the policy of this call allows it, but *)
(* never on a resumed response.                                            *)
Repairs(r) ==
  /\ run[r].response = "repairable"
  /\ ~run[r].resumed
  /\ run[r].repair < run[r].policy.maxRepairCalls

(* Mutant of Validate: a recorded response is trusted as it is. *)
ValidateTrusting(r) ==
  /\ Enter(r, "validating")
  /\ IF PipelineOK(run[r].response) \/ run[r].resumed
     THEN Goto(r, "interpreting") /\ UNCHANGED run
     ELSE Throw(r, "MODEL_INVALID_RESPONSE")

Validate(r) ==
  /\ Enter(r, "validating")
  /\ IF PipelineOK(run[r].response)
     THEN Goto(r, "interpreting") /\ UNCHANGED run
     ELSE IF Repairs(r)
     THEN Goto(r, "reserve") /\ run' = [run EXCEPT ![r].repair = @ + 1]
     ELSE Throw(r, "MODEL_INVALID_RESPONSE")

(* The task module interprets the response, or throws. *)
Interpret(r) ==
  /\ Enter(r, "interpreting")
  /\ \/ Goto(r, "evaluating") /\ UNCHANGED run
     \/ \E error \in ModuleError : Throw(r, error)

Evaluate(r) ==
  /\ Enter(r, "evaluating")
  /\ Goto(r, "preparing-commit")
  /\ UNCHANGED run

(* memory.prepare(), projectState() and state.prepare(), or one throws. *)
Prepare(r) ==
  /\ Enter(r, "preparing-commit")
  /\ \/ /\ \E advances, writes, event \in BOOLEAN :
             run' = [run EXCEPT ![r].prepared =
                       [advances |-> advances,
                        memory |-> IF writes THEN run[r].memory ELSE None,
                        memoryId |-> IF writes /\ run[r].memory = 0
                                     THEN r ELSE None,
                        event |-> event,
                        at |-> run[r].now]]
        /\ Goto(r, "commit")
     \/ \E error \in ModuleError : Throw(r, error)

Return(r, outcome) ==
  /\ run' = [run EXCEPT ![r].outcome = outcome]
  /\ Goto(r, "returned")

CommitRun(r) ==
  /\ pc[r] = "commit"
  /\ CommitError(run[r].key, run[r].prepared) = None
  /\ \/ Commit(run[r].key, run[r].prepared)
     \/ execution[run[r].key].commit # NoCommit /\ UNCHANGED repository
  /\ Return(r, "committed")
  /\ UNCHANGED <<dispatched, operator>>

CommitRefused(r) ==
  /\ pc[r] = "commit"
  /\ CommitError(run[r].key, run[r].prepared) # None
  /\ Throw(r, CommitError(run[r].key, run[r].prepared))
  /\ UNCHANGED <<repository, dispatched, operator>>

(* The catch of execute(): markTerminal(), which may itself be refused.    *)
Terminate(r) ==
  LET status == TerminalStatus(run[r].error) IN
  /\ pc[r] = "terminate"
  /\ TerminalError(run[r].key, status, run[r].error, run[r].now) = None
  /\ MarkTerminal(run[r].key, status, run[r].error, run[r].now)
  /\ Return(r, status)
  /\ UNCHANGED <<dispatched, operator>>

TerminateRefused(r) ==
  /\ pc[r] = "terminate"
  /\ TerminalError(run[r].key, TerminalStatus(run[r].error),
                   run[r].error, run[r].now) # None
  /\ Goto(r, "rejected")
  /\ UNCHANGED <<repository, run, dispatched, operator>>

(* The process dies; only what the repository holds survives. *)
Crash(r) ==
  /\ pc[r] \notin Ended \cup {"idle"}
  /\ Goto(r, "crashed")
  /\ UNCHANGED <<repository, run, dispatched, operator>>

-----------------------------------------------------------------------------
(* prepareOperatorDischarge() on a snapshot, then markTerminal(). *)

(* openReason(): the primary call's row says that no resume can succeed.   *)
Stranded(k) ==
  LET call == modelCall[k][0] IN
  /\ Mutable(k)
  /\ \/ call.status \in {"reserved", "failed", "ambiguous"}
     \/ call.status = "succeeded" /\ ~execution[k].readable

Inspect(k) ==
  /\ operator = None
  /\ Stranded(k)
  /\ operator' = k
  /\ UNCHANGED <<repository, pc, run, dispatched>>

Discharge(now) ==
  /\ operator # None
  /\ \/ /\ TerminalError(operator, "failed", "OPERATOR_DISCHARGE", now) = None
        /\ MarkTerminal(operator, "failed", "OPERATOR_DISCHARGE", now)
     \/ /\ TerminalError(operator, "failed", "OPERATOR_DISCHARGE", now) # None
        /\ UNCHANGED repository
  /\ operator' = None
  /\ UNCHANGED <<pc, run, dispatched>>

-----------------------------------------------------------------------------

Call(r) ==
  \E k \in Key, request \in Request, policy \in Policy, now \in Instant :
    \/ Create(r, k, request, policy, now)
    \/ Conflict(r, k, request, policy, now)
    \/ Replay(r, k, request, policy, now)
    \/ Rejoin(r, k, request, policy, now)

Step(r) ==
  \/ Resume(r) \/ ResumeRefused(r)
  \/ StageRefused(r)
  \/ EnterLoading(r)
  \/ Load(r) \/ (\E error \in Error : LoadFails(r, error))
  \/ EnterCallingModel(r)
  \/ Reserve(r) \/ ReserveRefused(r)
  \/ Dispatch(r) \/ CancelledBeforeDispatch(r)
  \/ (\E response \in Response : Respond(r, response))
  \/ (\E error \in GatewayError : GatewayFails(r, error))
  \/ Complete(r) \/ RecordFailure(r)
  \/ Validate(r) \/ Interpret(r) \/ Evaluate(r) \/ Prepare(r)
  \/ CommitRun(r) \/ CommitRefused(r)
  \/ Terminate(r) \/ TerminateRefused(r)

Next ==
  \/ \E r \in Caller : Call(r) \/ Step(r) \/ Crash(r)
  \/ \E k \in Key : Inspect(k)
  \/ \E now \in Instant : Discharge(now)

Spec == Init /\ [][Next]_vars

(* A call that has begun goes on unless its process dies: the repository   *)
(* answers and the gateway responds or times out.  Nobody has to call,     *)
(* retry, crash or discharge.                                              *)
FairSpec == Spec /\ \A r \in Caller : WF_vars(Step(r))

-----------------------------------------------------------------------------
(***************************************************************************)
(* Properties.                                                             *)
(***************************************************************************)

(* A logical model call is sent to the provider at most once, however many *)
(* calls of execute() race on the key, crash, resume or repair (ADR-0017:  *)
(* "Resume never calls the provider").                                     *)
DispatchedAtMostOnce ==
  \A k \in Key, c \in CallKey : dispatched[k][c] <= 1

(* What execute() returned is what the ledger says: no caller is told of   *)
(* a commit, a failure or a cancellation that another caller overturned.   *)
OutcomeMatchesLedger ==
  \A r \in Caller :
    pc[r] = "returned" /\ run[r].outcome # "other-request"
      => execution[run[r].key].status = run[r].outcome

(* A call that ended without dying leaves a terminal execution behind,     *)
(* even when its own markTerminal was refused and it rejected.  (A request *)
(* that only shares the key leaves the other's execution alone.)           *)
EndedMeansTerminal ==
  \A r \in Caller :
    pc[r] \in {"returned", "rejected"} /\ run[r].outcome # "other-request"
      => ~Mutable(run[r].key)

(* How a call of execute() ends and what the ledger says go together.      *)
EndedAsRecorded == TypeOK /\ OutcomeMatchesLedger /\ EndedMeansTerminal

(* A commit rests on recorded evidence: the primary call or, after bad     *)
(* responses, a repair call has a recorded response the pipeline accepts.  *)
CommittedFromRecordedResponse ==
  \A k \in Key :
    execution[k].status = "committed" =>
      \E c \in CallKey :
        /\ modelCall[k][c].status = "succeeded"
        /\ PipelineOK(modelCall[k][c].response)
        /\ \A b \in 0 .. c - 1 : modelCall[k][b].response = "repairable"

(* listStrandedExecutions() does not report an execution that a retry      *)
(* could still commit: once it is stranded with no call under way on it,   *)
(* it is never committed.                                                  *)
Live(k) == \E r \in Caller : run[r].key = k /\ pc[r] \notin Ended

StrandedIsHopeless ==
  \A k \in Key :
    [](Stranded(k) /\ ~Live(k) => [](execution[k].status # "committed"))

(* Every call of execute() comes to an end: no refusal by the repository   *)
(* and no other caller leaves it waiting.                                  *)
EveryCallEnds ==
  \A r \in Caller : pc[r] # "idle" ~> pc[r] \in Ended

(* What the callers of execute() can see of the engine. *)
Standing(k) ==
  IF ~Exists(k) THEN "absent"
  ELSE IF Mutable(k) THEN "open"
  ELSE IF execution[k].status = "committed" THEN "committed"
  ELSE "failed"

Ledger ==
  [k \in Key |-> [status |-> Standing(k), request |-> execution[k].request]]

Heads == [e \in Entity |-> Revision(e)]

Asked == [r \in Caller |-> run[r].key]

Told(r) ==
  IF run[r].outcome \in Terminal \ {"committed"} THEN "failed" ELSE run[r].outcome

Answers == [r \in Caller |-> Told(r)]

(* The engine keeps the promise its callers rely on, call by call: one     *)
(* result for a key, every logical model call sent at most once, a commit  *)
(* at the revision that was expected, and no other effect on the way.      *)
Promise == INSTANCE IdempotentExecution WITH
  ledger <- Ledger, head <- Heads, sent <- dispatched,
  asked <- Asked, answer <- Answers

KeepsPromise == Promise!ContractSpec

=============================================================================
