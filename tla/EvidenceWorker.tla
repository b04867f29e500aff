--------------------------- MODULE EvidenceWorker ---------------------------
(***************************************************************************)
(* The jobs of the Evidence Workbench (apps/evidence-workbench-worker, run *)
(* by the services of apps/evidence-workbench-api): each start of a job    *)
(* runs one paid engine execution and projects what it committed into the  *)
(* product store.  The jobs live in the store, whole records written back  *)
(* by whoever read them; the runs and their abort controllers live in the  *)
(* memory of a process that may die.                                       *)
(*                                                                         *)
(* The engine is the promise of IdempotentExecution, one call of execute() *)
(* for each run.  An observation job has one coverage window here.         *)
(***************************************************************************)
EXTENDS Naturals, FiniteSets

CONSTANTS
  Job,          \* job ids: a workspace and a command key
  Kinds,        \* bound: the assignments of a kind to each job to consider
  Run,          \* start requests
  Cancel,       \* cancel requests
  MaxRepair,
  MaxImports,   \* bound: text imports activated while jobs run
  MaxCrashes,   \* bound: restarts of the process
  MaxEvents,    \* bound: imports and restarts together
  None

Kind == {"observation", "relation", "assessment", "import"}

Revision == Nat

(* The entity is the workspace. *)
Request == [entity : {"workspace"}, expectedRevision : Revision]

VARIABLES
  kind,         \* the kind of each job: immutable
  ledger, head, sent, asked, answer,  \* the engine: see IdempotentExecution
  empty,        \* the executions that committed nothing the product keeps
  memories,     \* evidenceRevision of the engine's state
  job,          \* the job records
  revision,     \* evidenceRevision of the workspace
  objects,      \* the jobs whose observations, relations or assessment the
                \* product holds
  changeSet,    \* the change set of each job's command key
  controller,   \* controllers: the run that cancel() of a job aborts
  aborted,      \* the runs whose signal was aborted
  run,          \* the state of each start request
  cancel,       \* the state of each cancel request
  imports, crashes

Engine == INSTANCE IdempotentExecution WITH
  Key <- Job, Entity <- {"workspace"}, Caller <- Run

engine == <<ledger, head, sent, asked, answer, empty, memories>>

product == <<revision, objects, changeSet>>

memory == <<controller, aborted>>

bounds == <<imports, crashes>>

vars == <<kind, ledger, head, sent, asked, answer, empty, memories, job,
          revision, objects, changeSet, controller, aborted, run, cancel,
          imports, crashes>>

(* "working" stands for preparing, hydrating and observing; "resumable"    *)
(* for failed with the reason *_PROJECTION_INTERRUPTED.                    *)
Terminal == {"completed", "cancelled", "failed", "resumable"}

Record ==
  [phase : {"queued", "working", "projecting"} \cup Terminal,
   cancelRequested : BOOLEAN,
   calls : Nat,                \* actualModelCalls
   basis : SUBSET (Job \cup Nat)]  \* what of the case the command names

Ended == {"ended", "returned", "refused", "dead"}

RunState ==
  [pc : Ended \cup {"idle", "command", "queue", "register", "begin",
                    "progress", "workspace", "ledger", "execute",
                    "executing", "projecting", "snapshot", "project",
                    "advance", "changeset", "settle", "thrown", "last"},
   job : Job \cup {None},
   record : Record \cup {None},
   calls : Nat,            \* provider calls of this run
   expected : Revision,    \* expectedRevision of the engine request
   evidence : Revision,    \* the evidence revision the engine reported
   basis : Revision]       \* the workspace revision read before projecting

NoRun == [pc |-> "idle", job |-> None, record |-> None, calls |-> 0,
          expected |-> 0, evidence |-> 0, basis |-> 0]

CancelState ==
  [pc : {"idle", "abort", "write", "done", "dead"},
   job : Job \cup {None}, record : Record \cup {None}]

NoCancel == [pc |-> "idle", job |-> None, record |-> None]

ChangeSet == [from : Revision, to : Revision]

ASSUME WorkerAssumption ==
  /\ IsFiniteSet(Job) /\ Kinds \subseteq [Job -> Kind]
  /\ MaxRepair \in Nat /\ MaxImports \in Nat /\ MaxCrashes \in Nat
  /\ MaxEvents \in Nat
  /\ None \notin Run \cup Job \cup Nat \cup {"committed", "failed", "other-request"}
  /\ None \notin Request \cup Record \cup ChangeSet

(* The executor refuses a result in which it finds nothing to project; an  *)
(* assessment always commits its document.                                 *)
Refusable(j) == kind[j] \in {"observation", "relation"}

TypeOK ==
  /\ kind \in Kinds
  /\ Engine!ContractTypeOK
  /\ empty \subseteq {j \in Job : Refusable(j)}
  /\ memories \in Revision
  /\ \A j \in Job : job[j] \in Record \cup {None}
  /\ revision \in Revision
  /\ objects \subseteq Job
  /\ changeSet \in [Job -> ChangeSet \cup {None}]
  /\ controller \in [Job -> Run \cup {None}]
  /\ \A j \in Job : controller[j] # None =>
       run[controller[j]].job = j /\ run[controller[j]].pc \notin Ended
  /\ aborted \subseteq Run
  /\ \A r \in Run : run[r] \in RunState
  /\ \A c \in Cancel : cancel[c] \in CancelState
  /\ imports \in 0 .. MaxImports /\ crashes \in 0 .. MaxCrashes

(* The case holds the one text that was imported to open it. *)
Init ==
  /\ kind \in Kinds
  /\ Engine!ContractInit
  /\ empty = {}
  /\ memories = 0
  /\ job = [j \in Job |-> None]
  /\ revision = 1
  /\ objects = {}
  /\ changeSet = [j \in Job |-> None]
  /\ controller = [j \in Job |-> None]
  /\ aborted = {}
  /\ run = [r \in Run |-> NoRun]
  /\ cancel = [c \in Cancel |-> NoCancel]
  /\ imports = 0 /\ crashes = 0

Goto(r, next) == run' = [run EXCEPT ![r].pc = next]

-----------------------------------------------------------------------------
(* start(), startLiveObservation(), startLiveRelation(),                   *)
(* startLiveAssessment(): the service forms the command from the case it   *)
(* reads, the worker reads the jobs, writes, registers, runs.              *)

(* A relation command names the observations the case has, an assessment   *)
(* command also the revision it rests on.                                  *)
Basis(j) ==
  CASE kind[j] = "relation" -> {o \in objects : kind[o] = "observation"}
    [] kind[j] = "assessment" -> {revision}
    [] OTHER -> {}

Fresh(j) == [phase |-> "queued", cancelRequested |-> FALSE, calls |-> 0,
             basis |-> Basis(j)]

(* An import is never started again, a live job that is over only when its *)
(* projection was interrupted.                                             *)
Returned(j) ==
  /\ job[j] # None
  /\ \/ kind[j] = "import"
     \/ job[j].phase \in Terminal \ {"resumable"}

StartReads(r, j) ==
  /\ run[r].pc = "idle"
  /\ run' = [run EXCEPT ![r] =
       [NoRun EXCEPT !.job = j, !.pc = "command", !.record = Fresh(j)]]
  /\ UNCHANGED <<kind, engine, job, product, memory, cancel, bounds>>

StartFinds(r) ==
  LET j == run[r].job IN
  /\ run[r].pc = "command"
  /\ run' = [run EXCEPT
       ![r].pc = IF /\ job[j] # None /\ kind[j] # "import"
                    /\ job[j].basis # run[r].record.basis THEN "refused"
                 ELSE IF Returned(j) THEN "returned"
                 ELSE "queue",
       ![r].record = IF job[j] = None THEN @
                     ELSE [job[j] EXCEPT !.phase = "queued",
                                         !.cancelRequested = FALSE]]
  /\ UNCHANGED <<kind, engine, job, product, memory, cancel, bounds>>

(* putJob(): the whole record, whatever the store holds by now. *)
Put(r, record) ==
  /\ job' = [job EXCEPT ![run[r].job] = record]
  /\ UNCHANGED <<kind, engine, product, cancel, bounds>>

Queue(r) ==
  /\ run[r].pc = "queue"
  /\ Put(r, run[r].record)
  /\ Goto(r, "register")
  /\ UNCHANGED memory

(* A new controller replaces that of an earlier run of the job.  The check *)
(* of its signal that follows at once never finds it aborted.              *)
Register(r) ==
  /\ run[r].pc = "register"
  /\ controller' = [controller EXCEPT ![run[r].job] = r]
  /\ Goto(r, "begin")
  /\ UNCHANGED <<kind, engine, job, product, aborted, cancel, bounds>>

Begin(r) ==
  LET record == [run[r].record EXCEPT !.phase = "working"] IN
  /\ run[r].pc = "begin"
  /\ Put(r, record)
  /\ run' = [run EXCEPT ![r].record = record,
                        ![r].pc = CASE kind[run[r].job] = "import" -> "workspace"
                                    [] kind[run[r].job] = "observation" -> "progress"
                                    [] OTHER -> "ledger"]
  /\ UNCHANGED memory

(* onProgress() before the window: the calls of this run, so far none. *)
Progress(r) ==
  LET record == [run[r].record EXCEPT !.calls = 0] IN
  /\ run[r].pc = "progress"
  /\ Put(r, record)
  /\ run' = [run EXCEPT ![r].record = record, ![r].pc = "ledger"]
  /\ UNCHANGED memory

-----------------------------------------------------------------------------
(* observe(), relate(), assess() of the executors. *)

(* An import reads the revision it will advance before the execution. *)
ReadWorkspace(r) ==
  /\ run[r].pc = "workspace"
  /\ run' = [run EXCEPT ![r].pc = "ledger", ![r].basis = revision]
  /\ UNCHANGED <<kind, engine, job, product, memory, cancel, bounds>>

(* The latest state revision, or, for a live job whose execution exists,   *)
(* the one that execution expects.                                         *)
ReadLedger(r) ==
  LET known == IF kind[run[r].job] = "import" THEN None
               ELSE ledger[run[r].job].request
  IN
  /\ run[r].pc = "ledger"
  /\ run' = [run EXCEPT ![r].pc = "execute",
                        ![r].expected = IF known # None
                                        THEN known.expectedRevision
                                        ELSE head["workspace"]]
  /\ UNCHANGED <<kind, engine, job, product, memory, cancel, bounds>>

Execute(r) ==
  LET request == [entity |-> "workspace", expectedRevision |-> run[r].expected]
  IN
  /\ run[r].pc = "execute"
  /\ \/ Engine!Open(r, run[r].job, request)
     \/ Engine!Rejoin(r, run[r].job, request)
  /\ Goto(r, "executing")
  /\ UNCHANGED <<kind, empty, memories, job, product, memory, cancel, bounds>>

(* The single-call gateway counts what this run sends. *)
Send(r) ==
  /\ run[r].pc = "executing"
  /\ \E c \in 0 .. MaxRepair : Engine!Send(r, c)
  /\ run' = [run EXCEPT ![r].calls = @ + 1]
  /\ UNCHANGED <<kind, empty, memories, job, product, memory, cancel, bounds>>

(* Every task of the module moves the state of the workspace.  What it     *)
(* raises is the evidence revision, when anything is new; an assessment    *)
(* never is.                                                               *)
Commit(r) ==
  LET j == run[r].job IN
  /\ Engine!Commit(r) /\ head' # head
  /\ \/ Refusable(j) /\ empty' = empty \cup {j}
     \/ UNCHANGED empty
  /\ \/ kind[j] # "assessment" /\ memories' = memories + 1
     \/ UNCHANGED memories

Settle(r) ==
  /\ run[r].pc = "executing"
  /\ \/ Commit(r)
     \/ Engine!Fail(r) /\ UNCHANGED <<empty, memories>>
     \/ Engine!Learn(r) /\ UNCHANGED <<empty, memories>>
  /\ UNCHANGED <<kind, job, product, memory, run, cancel, bounds>>

-----------------------------------------------------------------------------
(* The run goes on: projection, completion, failure, cancellation. *)

(* The last update() of a run: the controller of the job is removed, be it *)
(* this run's or a later one's, when the write is issued, not when it      *)
(* lands.                                                                  *)
Finish(r, record) ==
  /\ run' = [run EXCEPT ![r].pc = "last", ![r].record = record]
  /\ controller' = [controller EXCEPT ![run[r].job] = None]
  /\ UNCHANGED <<kind, engine, job, product, aborted, cancel, bounds>>

Counted(r) == IF run[r].calls > run[r].record.calls THEN run[r].calls
              ELSE run[r].record.calls

End(r, phase, calls) ==
  Finish(r, [run[r].record EXCEPT !.phase = phase, !.calls = calls])

Answered(r, answers) == run[r].pc = "executing" /\ answer[r] \in answers

Committed(r) == Answered(r, {"committed"})

(* The executor's answer to the worker, unless it refuses. *)
Executed(r) == Committed(r) /\ run[r].job \notin empty

Cancelled(r) ==
  /\ Executed(r)
  /\ r \in aborted
  /\ End(r, "cancelled",
         IF kind[run[r].job] = "import" THEN run[r].record.calls
         ELSE Counted(r))

(* Mutant of GoOn: the controller is removed once the model has answered. *)
GoOnForgets(r) ==
  /\ Executed(r)
  /\ r \notin aborted
  /\ run' = [run EXCEPT
       ![r].evidence = memories,
       ![r].pc = IF kind[run[r].job] = "import" THEN "project"
                 ELSE "projecting",
       ![r].record = IF kind[run[r].job] = "import" THEN @
                     ELSE [@ EXCEPT !.phase = "projecting",
                                    !.calls = Counted(r)]]
  /\ controller' = [controller EXCEPT ![run[r].job] = None]
  /\ UNCHANGED <<kind, engine, job, product, aborted, cancel, bounds>>

(* An import goes on to its first write. *)
GoOn(r) ==
  /\ Executed(r)
  /\ r \notin aborted
  /\ run' = [run EXCEPT
       ![r].evidence = memories,
       ![r].pc = IF kind[run[r].job] = "import" THEN "project"
                 ELSE "projecting",
       ![r].record = IF kind[run[r].job] = "import" THEN @
                     ELSE [@ EXCEPT !.phase = "projecting",
                                    !.calls = Counted(r)]]
  /\ UNCHANGED <<kind, engine, job, product, memory, cancel, bounds>>

(* The catch clauses of the four runs.  Imports count no calls, nor does an *)
(* observation that was cancelled.                                         *)
CaughtWith(r, phase, calls) ==
  End(r, IF r \in aborted THEN "cancelled" ELSE phase,
      IF kind[run[r].job] = "observation" /\ r \in aborted
      THEN run[r].record.calls ELSE calls)

(* afterEngineCommit() fails, between the engine's commit and the product. *)
Interrupted(r) ==
  /\ Committed(r)
  /\ kind[run[r].job] # "import"
  /\ CaughtWith(r, "resumable", Counted(r))

(* *_EMPTY_RESULT: the error of this refusal carries no count. *)
EmptyResult(r) ==
  /\ Committed(r)
  /\ run[r].job \in empty
  /\ CaughtWith(r, "failed", run[r].record.calls)

(* Mutant of Caught: a collision of the projection is not recorded. *)
CaughtSilently(r) ==
  \/ /\ Answered(r, {"failed", "other-request"})
     /\ CaughtWith(r, "failed", IF kind[run[r].job] = "import"
                               THEN run[r].record.calls ELSE Counted(r))
  \/ /\ run[r].pc = "thrown"
     /\ Goto(r, "ended")
     /\ controller' = [controller EXCEPT ![run[r].job] = None]
     /\ UNCHANGED <<kind, engine, job, product, aborted, cancel, bounds>>

(* An execution that failed, and a projection that collided. *)
Caught(r) ==
  /\ Answered(r, {"failed", "other-request"}) \/ run[r].pc = "thrown"
  /\ CaughtWith(r, "failed",
       IF run[r].pc = "thrown" \/ kind[run[r].job] = "import"
       THEN run[r].record.calls ELSE Counted(r))

Projecting(r) ==
  /\ run[r].pc = "projecting"
  /\ Put(r, run[r].record)
  /\ Goto(r, "snapshot")
  /\ UNCHANGED memory

(* caseSnapshot(): an observation run refuses when the engine is ahead of  *)
(* the product, an assessment when the case has moved on.                  *)
Snapshot(r) ==
  LET k == kind[run[r].job] IN
  /\ run[r].pc = "snapshot"
  /\ run' = [run EXCEPT
       ![r].basis = revision,
       ![r].pc =
          IF \/ k = "observation" /\ run[r].evidence > revision
             \/ k = "assessment" /\ run[r].record.basis # {revision}
          THEN "thrown" ELSE "project"]
  /\ UNCHANGED <<kind, engine, job, product, memory, cancel, bounds>>

Store(r) == objects' = objects \cup {run[r].job}

(* putObservations(), putAssessments(): what is stored already stays, or   *)
(* is met by the insert, if another run stored it after the look.          *)
PutObjects(r) ==
  /\ run[r].pc = "project"
  /\ kind[run[r].job] # "relation"
  /\ \/ /\ Store(r)
        /\ Goto(r, CASE kind[run[r].job] = "observation" -> "changeset"
                     [] kind[run[r].job] = "assessment" -> "settle"
                     [] OTHER -> "advance")
     \/ /\ run[r].job \in objects
        /\ Goto(r, "thrown")
        /\ UNCHANGED objects
  /\ UNCHANGED <<kind, engine, job, revision, changeSet, memory, cancel, bounds>>

(* A command key has one change set: the same again, or a collision. *)
Records(r, change) ==
  /\ changeSet[run[r].job] \in {None, change}
  /\ changeSet' = [changeSet EXCEPT ![run[r].job] = change]

Moves(r) == [from |-> run[r].basis, to |-> run[r].basis + 1]

(* Mutant of CommitRelations: a collision means that it was done before. *)
CommitRelationsLenient(r) ==
  /\ run[r].pc = "project"
  /\ kind[run[r].job] = "relation"
  /\ Goto(r, "settle")
  /\ \/ /\ revision = run[r].basis
        /\ Records(r, Moves(r))
        /\ Store(r)
        /\ revision' = revision + 1
     \/ /\ revision # run[r].basis \/ changeSet[run[r].job] \notin {None, Moves(r)}
        /\ UNCHANGED product
  /\ UNCHANGED <<kind, engine, job, memory, cancel, bounds>>

(* Mutant of CommitRelations: the expected revision is not compared. *)
CommitRelationsUnlocked(r) ==
  /\ run[r].pc = "project"
  /\ kind[run[r].job] = "relation"
  /\ \/ /\ Records(r, Moves(r))
        /\ Store(r)
        /\ revision' = run[r].basis + 1
        /\ Goto(r, "settle")
     \/ /\ changeSet[run[r].job] \notin {None, Moves(r)}
        /\ Goto(r, "thrown")
        /\ UNCHANGED product
  /\ UNCHANGED <<kind, engine, job, memory, cancel, bounds>>

(* commitRelationProjection(): one transaction, the workspace row locked. *)
CommitRelations(r) ==
  /\ run[r].pc = "project"
  /\ kind[run[r].job] = "relation"
  /\ \/ /\ revision = run[r].basis
        /\ Records(r, Moves(r))
        /\ Store(r)
        /\ revision' = revision + 1
        /\ Goto(r, "settle")
     \/ /\ revision # run[r].basis \/ changeSet[run[r].job] \notin {None, Moves(r)}
        /\ Goto(r, "thrown")
        /\ UNCHANGED product
  /\ UNCHANGED <<kind, engine, job, memory, cancel, bounds>>

(* advanceEvidenceRevision() of an import: to the revision the engine has. *)
Advance(r) ==
  /\ run[r].pc = "advance"
  /\ \/ /\ revision = run[r].basis
        /\ run[r].evidence \in {revision, revision + 1}
        /\ revision' = run[r].evidence
        /\ Goto(r, "changeset")
     \/ /\ revision # run[r].basis \/ run[r].evidence \notin {revision, revision + 1}
        /\ Goto(r, "thrown")
        /\ UNCHANGED revision
  /\ UNCHANGED <<kind, engine, job, objects, changeSet, memory, cancel, bounds>>

Describes(r) ==
  IF kind[run[r].job] = "import"
  THEN [from |-> run[r].basis, to |-> run[r].evidence]
  ELSE [from |-> run[r].basis - 1, to |-> run[r].basis]

(* The same change set again may meet that of a run which was quicker.     *)
PutChangeSet(r) ==
  /\ run[r].pc = "changeset"
  /\ \/ Records(r, Describes(r)) /\ Goto(r, "settle")
     \/ /\ changeSet[run[r].job] # None
        /\ Goto(r, "thrown")
        /\ UNCHANGED changeSet
  /\ UNCHANGED <<kind, engine, job, revision, objects, memory, cancel, bounds>>

(* settle(), which writes the audit, and then the last update(). *)
Complete(r) ==
  /\ run[r].pc = "settle"
  /\ End(r, "completed", run[r].record.calls)

Last(r) ==
  /\ run[r].pc = "last"
  /\ Put(r, run[r].record)
  /\ Goto(r, "ended")
  /\ UNCHANGED memory

-----------------------------------------------------------------------------
(* cancel(): read, abort, write back what was read. *)

CancelReads(c, j) ==
  /\ cancel[c].pc = "idle"
  /\ job[j] # None
  /\ cancel' = [cancel EXCEPT ![c] =
       [pc |-> IF job[j].phase \in Terminal THEN "done" ELSE "abort",
        job |-> j, record |-> [job[j] EXCEPT !.cancelRequested = TRUE]]]
  /\ UNCHANGED <<kind, engine, job, product, memory, run, bounds>>

CancelAborts(c) ==
  LET r == controller[cancel[c].job] IN
  /\ cancel[c].pc = "abort"
  /\ aborted' = IF r = None THEN aborted ELSE aborted \cup {r}
  /\ cancel' = [cancel EXCEPT ![c].pc = "write"]
  /\ UNCHANGED <<kind, engine, job, product, controller, run, bounds>>

CancelWrites(c) ==
  /\ cancel[c].pc = "write"
  /\ job' = [job EXCEPT ![cancel[c].job] = cancel[c].record]
  /\ cancel' = [cancel EXCEPT ![c].pc = "done"]
  /\ UNCHANGED <<kind, engine, product, memory, run, bounds>>

(* A text import is activated and advances the workspace by one. *)
ImportText ==
  /\ imports < MaxImports /\ imports + crashes < MaxEvents
  /\ imports' = imports + 1
  /\ revision' = revision + 1
  /\ UNCHANGED <<kind, engine, job, objects, changeSet, memory, run, cancel,
                 crashes>>

(* The process dies, with every run and request in it. *)
Crash ==
  /\ crashes < MaxCrashes /\ imports + crashes < MaxEvents
  /\ crashes' = crashes + 1
  /\ controller' = [j \in Job |-> None]
  /\ run' = [r \in Run |-> IF run[r].pc \in Ended \cup {"idle"} THEN run[r]
                            ELSE [run[r] EXCEPT !.pc = "dead"]]
  /\ cancel' = [c \in Cancel |-> IF cancel[c].pc \in {"idle", "done"}
                                  THEN cancel[c]
                                  ELSE [cancel[c] EXCEPT !.pc = "dead"]]
  /\ UNCHANGED <<kind, engine, job, product, aborted, imports>>

-----------------------------------------------------------------------------

Step(r) ==
  \/ StartFinds(r) \/ Queue(r) \/ Register(r) \/ Begin(r) \/ Progress(r)
  \/ ReadWorkspace(r) \/ ReadLedger(r) \/ Execute(r) \/ Send(r) \/ Settle(r)
  \/ Cancelled(r) \/ GoOn(r) \/ Interrupted(r) \/ EmptyResult(r)
  \/ Caught(r)
  \/ Projecting(r) \/ Snapshot(r) \/ PutObjects(r) \/ CommitRelations(r)
  \/ Advance(r) \/ PutChangeSet(r) \/ Complete(r) \/ Last(r)

Next ==
  \/ \E r \in Run : Step(r) \/ \E j \in Job : StartReads(r, j)
  \/ \E c \in Cancel :
       \/ \E j \in Job : CancelReads(c, j)
       \/ CancelAborts(c) \/ CancelWrites(c)
  \/ ImportText
  \/ Crash

Spec == Init /\ [][Next]_vars

-----------------------------------------------------------------------------
(***************************************************************************)
(* Properties.                                                             *)
(***************************************************************************)

(* What the product holds was committed by the engine, and a job that is   *)
(* reported completed has its objects and its change set in the product,   *)
(* however runs, cancels and restarts overlapped.                          *)
CompletedIsProjected ==
  \A j \in Job :
    /\ j \in objects => ledger[j].status = "committed"
    /\ job[j] # None /\ job[j].phase = "completed" =>
         /\ j \in objects
         /\ kind[j] # "assessment" => changeSet[j] # None

(* The relation change sets of a workspace follow one another: each moved  *)
(* it one revision on, no two to the same one, and the workspace is where  *)
(* the imports and the projections together took it.                       *)
EveryRevisionHasOneAuthor ==
  LET moved == {j \in Job : kind[j] = "relation" /\ changeSet[j] # None}
      to == {changeSet[j].to : j \in moved}
  IN
  /\ Cardinality(to) = Cardinality(moved)
  /\ \A n \in to : n <= revision
  /\ moved \subseteq objects
  /\ (\A j \in Job : kind[j] # "import") =>
       revision = 1 + imports + Cardinality(moved)

(* A run that no other run and no cancel of its job met leaves a job that  *)
(* is over, and does not call it cancelled; what it says of the result     *)
(* agrees with the ledger, and it counts the model calls that were sent,   *)
(* unless the execution committed nothing for the product: then the job    *)
(* has failed, and the calls of the refused result are not counted.        *)
UndisturbedJobSettles ==
  \A r \in Run :
    LET j == run[r].job IN
    /\ run[r].pc = "ended"
    /\ \A q \in Run \ {r} : run[q].job # j
    /\ \A c \in Cancel : cancel[c].job # j
    =>
      /\ job[j].phase \in {"completed", "failed", "resumable"}
      /\ ledger[j].status = "failed" => job[j].phase = "failed"
      /\ j \in empty => job[j].phase \in {"failed", "resumable"}
      /\ kind[j] # "import" =>
           \/ job[j].calls = Cardinality({c \in 0 .. MaxRepair : sent[j][c] > 0})
           \/ j \in empty /\ job[j].phase = "failed" /\ job[j].calls = 0

(* A cancel request that read a job at work aborts its run, unless the run *)
(* has decided how it ends by then: as long as the job was started once.   *)
LoneRunHearsCancel ==
  \A c \in Cancel, r \in Run :
    LET j == run[r].job IN
    /\ cancel[c].job = j /\ cancel[c].pc \in {"write", "done"}
    /\ cancel[c].record.phase \in {"working", "projecting"}
    /\ \A q \in Run \ {r} : run[q].job # j
    => r \in aborted \/ run[r].pc \in {"last", "ended", "dead"}

(* The controllers, the job table and the runs agree on who may be         *)
(* cancelled.                                                              *)
ControllersOK == TypeOK /\ LoneRunHearsCancel

(* "A terminated, failed or cancelled run commits no canonical state"      *)
(* (ADR-0039, section 9): "no observation, relation, question or           *)
(* assessment, and no evidence-revision increment" (section 5).            *)
TerminatedLeavesNothing ==
  \A j \in Job :
    kind[j] # "import" /\ job[j] # None /\ job[j].phase \in {"cancelled", "failed"} =>
      j \notin objects /\ changeSet[j] = None

(* "The live observation job reports ... accumulated model calls" (docs/   *)
(* SYSTEMDOC.md): a job that says how its only run ended counts the calls. *)
CallsAreReported ==
  \A r \in Run :
    LET j == run[r].job IN
    /\ run[r].pc = "ended" /\ kind[j] = "observation"
    /\ \A q \in Run \ {r} : run[q].job # j
    /\ \A c \in Cancel : cancel[c].job # j
    => job[j].calls = Cardinality({c \in 0 .. MaxRepair : sent[j][c] > 0})
=============================================================================
