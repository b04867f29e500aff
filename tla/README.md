# Verification of acme-engine

This directory keeps the TLA+ specifications of the ACME engine and of the
evidence applications built on it, the TLC configurations that model-check them
on small instances, and proofs that TLAPS checks for every instance. Every
definition is translated from the source; the map in `PROJECT.json` names the
lines each one stands for, and its "hazards" the places in the code the
properties are aimed at.

## 1. The system

ACME executes *tasks*: a request names a task of a domain module, an entity and
the state revision it expects; the engine loads the entity's state and memory,
asks a language model, checks and interprets the answer, and commits state,
memory, documents and domain events in one unit of work. A request key makes
the whole idempotent, and a crash at any point must neither repeat a paid
provider call nor lose a recorded answer. Two applications, the Evidence Workbench
and its second version, run such executions from HTTP requests and jobs and
*project* what was committed into a product store of their own, where people
review it.

| Component | State it keeps | Operations | Interacts with |
|---|---|---|---|
| Execution engine (`packages/core/src/execution-engine.ts`) | one run's locals (attempt, response, repairs, prepared commit) | `execute` (accept, resume, stages, model call, repair, commit, terminalise), `replayVerify` | repository, gateway, task module, memory and state engines |
| Aggregate repository (`packages/core/src/repository.ts`; `adapter-memory`, `-sqlite`, `-postgres`) | executions, attempts, model calls, documents, memory records, state heads, events, outbox | `accept`, `appendAttempt`, `reserve/complete/failModelCall`, `loadContext`, `loadResumeState`, `commit`, `markTerminal`, outbox methods | engine, drains, CLI |
| Outbox delivery (`packages/core/src/outbox.ts`) | one batch per call | `drainOutbox`, `redriveOutbox` | repository's outbox, the injected dispatcher |
| Stranded executions (`stranded-execution.ts`, `apps/cli`) | none | list, discharge | repository |
| Model-only engine (`model-execution-engine.ts`, `packages/model-runtime`) | model execution records | `execute` with routes and fallbacks | gateway router |
| Memory and state engines, response pipeline, identity, hashing (`packages/core`) | none (pure) | `retrieve`, `prepare`, `process`, ... | engine |
| Launch jobs (`apps/test-ui/src/local/job-runner.ts`) | queue, active job, job and run files | enqueue, cancel, progress, finish, recovery | engine through the run plan |
| Evidence worker (`apps/evidence-workbench-worker`, executors of `evidence-workbench-api`) | runs and abort controllers by job; job records | `start`, `startLive*`, `cancel` | engine, product repository |
| Evidence artifacts (`evidence-product-contracts/src/artifact-service.ts`, `ingestion-service.ts`) | staging rows, encrypted objects, envelopes, lifecycle logs, import records | import, cancel, read, rewrap, delete, reconcile at the start | product repository, object store |
| Evidence product repositories (`adapter-evidence-product-postgres`, `-file`) | workspaces, jobs, observations, relations, change sets, artifacts, revisions | put, compare-and-set of revisions, append | worker, API |
| Evidence V2 (`apps/evidence-workbench-v2-api`, `module-evidence-v2`, `adapter-evidence-v2-postgres`) | parts, chain decisions and memberships, extraction and comparison windows, occurrences, review log, claims, relations | proposal and decisions on chains, extraction, comparison, review | engine, repository |
| Evidence sessions and access (`evidence-auth`) | sessions, memberships | create, rotate, revoke, authorise | API |
| Gateways, domain modules, evaluation, web clients, CLI rendering | none that a request outlives | | |

What makes it hard: calls of `execute` with one key race each other and an
operator's discharge; each may die between any two awaited calls; a run reads
state and memory, then spends seconds in a provider call before it commits;
outbox leases expire under a drain that is still busy; cancellation races
completion; the relational adapters run at READ COMMITTED and several methods
read before they update; and the applications write two stores, ledger and
product, or database and object store, that no transaction spans.

## 2. Modules

| Module | Models | Composes |
|---|---|---|
| `OutboxStore` | the outbox methods of the repository, one atomic operator each | |
| `OutboxDrain` | `drainOutbox`, `settle`, `redriveOutbox` by several drains | extends `OutboxStore` |
| `ExecutionRepository` | the execution methods: an error operator and an effect operator each | extends `OutboxStore` |
| `ExecutionEngine` | `execute`, one action per awaited call, crashes, discharge | extends `ExecutionRepository` |
| `EngineWithDrains` | calls of `execute` and drains at work together, over one outbox | extends `ExecutionEngine` and `OutboxDrain` |
| `IdempotentExecution` | the abstract promise of `execute` to its callers | refined by `ExecutionEngine`; instantiated by `EvidenceWorker` and `EvidenceV2Extraction` |
| `JobRunner` | the job runner of the test UI over its files | |
| `EvidenceWorker` | jobs of the Evidence Workbench, from request to projection | instantiates `IdempotentExecution` |
| `EvidenceV2Extraction` | windows of a source part, their extraction and projection | instantiates `IdempotentExecution` |
| `EvidenceV2Chains` | proposal, fold and concurrent decisions on chains | |
| `EvidenceV2Review` | reviews, claims, relations, comparisons, the review page | |
| `EvidenceArtifacts` | text import and the life of its encrypted representations | |
| `PostgresRepository` | the PostgreSQL adapter's methods, statement by statement | |
| `ExecutionEngineProofs`, `PostgresRepositoryProofs`, `JobRunnerProofs`, `EvidenceWorkerProofs`, `EvidenceV2ExtractionProofs`, `EvidenceV2ChainsProofs`, `EvidenceV2ReviewProofs`, `EvidenceArtifactsProofs` | theorems | extend the modules they are named for; `ExecutionEngineProofs` extends `EngineWithDrains` and has the theorems of the engine, of the drains and of both together |
| `MC...` | instances for TLC | |

### 2.1 Outbox (`OutboxStore`, `OutboxDrain`)

`outbox[e]` is the row of event `e`: status, attempt count, and `dueIn`, the time until
`availableAt` or the end of the lease, which goes on below zero. The methods of the
memory adapter (`leaseOutbox`, `markOutboxDelivered`, `markOutboxFailed`,
`redriveOutbox`) run without an await, so each is one atomic operator; the SQLite
adapter runs them in one immediate transaction. `drain[d]` holds the locals of a call of
`drainOutbox`: the batch with the attempt counts it leased, the time since it read the
clock, and the verdict of the dispatcher. `Start`, `Lease`, `Deliver` and the three
outcomes of `settle` (`SettleDelivered`, `SettleFailed`, `SettleRefused`) are the awaits
of the loop. The drain goes on with the clock it read at its start, as the code does:
lease ends and retry times are relative to it (`Left`), and an entry is due if it was
when the drain read the clock (`Due`). `DrainCrash` forgets a drain, `Redrive` is the
operator's command, `ExecutionCommits` publishes an event. `served` and `accepted` are
observations: which attempts the dispatcher was called for, and which events it
accepted.

### 2.2 Executions (`ExecutionRepository`, `ExecutionEngine`, `IdempotentExecution`)

A key is a request key (`idempotencyKey`) and the execution accepted under it.
`execution`, `attempt` (stage rows), `modelCall` (per key and call index: the
primary call is 0, repairs follow), `history` (the committed executions of an
entity, in the order of its revisions), `memory` (versions) and `outbox` are the
repository's tables. Each method is an error operator (`CommitError`,
`ReserveError`, ...: which error it throws first, or `None`) and an effect
operator (`Commit`, `ReserveModelCall`, ...). A request is reduced to what its
fingerprint tells apart, entity and expected revision; a response to what the
pipeline makes of it (`valid`, `repairable`, `unrepairable`, `oversized`).

`pc[r]` and `run[r]` are a call of `execute`. `Create`, `Conflict`, `Replay`,
`Rejoin` are the outcomes of `accept`; `Resume`, `Enter...` (a stage row),
`Load`, `Reserve`, `Dispatch`, `Respond`, `GatewayFails`, `Complete`,
`RecordFailure`, `Repairs`, `Validate`, `Interpret`, `Evaluate`, `Prepare`,
`CommitRun` and `Terminate` are the awaits in between, and the `...Refused`
actions are the errors the repository throws at them. `Throw` is the `catch` of
`execute`: it maps the error to a terminal status and goes to `markTerminal`.
`Inspect` and `Discharge` are `listStrandedExecutions` and the CLI's decision on
what it listed, which may be stale by then. `dispatched` observes what was sent
to the provider.

`IdempotentExecution` is what the callers rely on: a key is opened once, every
caller of it learns the one result, each logical call is sent at most once, and a
commit rests on a call that was sent and on the revision the request expected.
`ExecutionEngine` implements it under the mapping `Promise` (property
`KeepsPromise`). The worker and the extraction are modelled on top of the
abstract module: what they do with the engine is what any implementation of the
promise allows.

`EngineWithDrains` puts both over one outbox: the engine's `Next` and the
drains' `Delivery` (their `DrainNext` without `ExecutionCommits`, for which the
engine is there) each leave the variables of the other side alone, but for
`outbox`. It has no run; its properties are proved (section 5), and TLC agrees on
two callers, one key and one drain (519,624 states).

### 2.3 PostgreSQL (`PostgresRepository`)

`ExecutionRepository` and `OutboxStore` give every method as one step. This module looks
into the adapter: `tx[c]` is the transaction of a connection, `Begin` a call of a
method, `Read` its unlocked reads and the tests on them (`...Refused`; an attempt that
is recorded already ends there), `Write` one row written, `Abort` a rollback. A write
waits for the lock of its row; a conditional one (`Stale`) looks again at what the row
holds by then, an insert runs into the unique key, an unconditional update overwrites.
The properties are those of the atomic modules, as far as they survive: `GrantedOnce`
(accept, reserve and commit each say "first" once), `NoLostUpdate`, `CommitIsWhole`,
and, for the keys that no two transactions touched at once, finality.

### 2.4 Launch jobs (`JobRunner`)

`jobFile` and `runFile` are the workspace; `waitQueue`, `pending` (payloads),
`active` and `aborted` (controllers) the variables of `createJobRunner`; `run[j]`
is `runOne()` for job `j`, and the pump is busy while any `run` is not
idle. `patches[j]` is the chain of promises of `patch()`, of which `patcher[j]`
runs the first. `enqueuer` and `canceller` are requests to `enqueue()` and
`cancel()`. A write of a file is two steps because `writeFile` truncates before
it writes: a reader in between finds a file that does not parse, which
`readJson()` reports like a missing one. Two overlapping writers of different
lengths may leave a mixture (`Garbled`). `recordRun()` opens with `wx`.
`Crash` loses everything but the files; `RecoverOpen`, `RecoverWrite`, `Serve`
are `recoverInterrupted()` before the server listens.

### 2.5 Worker (`EvidenceWorker`)

`job` are the job records of the product store, whole records that `update()`
writes back from the copy the run or the request last read; `revision` is the
workspace's `evidenceRevision`, `objects` and `changeSet` what was projected.
`controller` and `aborted` live in the process. `StartReads`, `Queue`,
`Register`, `Begin` are `startLive*()`; `ReadWorkspace`, `ReadLedger`,
`Execute`, `Send`, `Settle` the executor around the engine. `empty` are the
executions that committed without an observation, a relation or an open question of
their own: the executor refuses such a result (`EmptyResult`, the errors
`*_EMPTY_RESULT`) although it is committed, and the worker records a failed job that
does not count the calls. An assessment always commits its document, so that its check
never bites (`Refusable`). `memories` is the evidence revision of the engine, which a
commit need not raise. `Projecting`,
`Snapshot`, `Store`/`PutObjects`/`CommitRelations`, `Advance`, `PutChangeSet`,
`Complete` are the projection, whose steps differ with the kind of the job;
`PutObjects` and `PutChangeSet` may meet the row of another run of the job between
their look and their insert. `Interrupted` is a failing `afterEngineCommit()`,
`Caught` the `catch` that all of it shares. `Cancel...` is the other request,
`ImportText` moves the revision from outside, `Crash` is a restart of the
process: nothing resumes a run, only a new start of the same command.

### 2.6 Evidence V2 (`EvidenceV2Extraction`, `EvidenceV2Chains`, `EvidenceV2Review`)

*Extraction.* `Windows(part)` is `planEvidenceV2ObserveWindows()`, checked on every
part of up to three units. A run reads the rows, plans (`Outstanding`, `Choose`
within the call ceiling), calls the engine for a window, and writes occurrences and
row (`Project`, `RecordFailure`) in separate steps. `row`, `occurrences` and the
engine's `ledger` are the three records that can disagree.

*Chains.* `Proposal` is `proposeEvidenceV2Chains()` (front matter, documents,
order by time, unknown times), `Place` is one turn of the loop of
`deriveEvidenceV2ChainState()`, with its rules on supersession and primaries, and
`Fold(r)` the whole of it over the decisions that `r` sees. A decision whose append
rolled back stays in `log` and is seen by nobody. `appendChainDecision()` is taken
statement by statement: the insert, the read of the log that only sees what is
committed, the delete of the membership rows it can see (it waits for an append
that is deleting them), the inserts, which wait for the primary key, the commit.
A row of `effective_memberships` carries its version, so that a delete can miss
rows that appear meanwhile, as at READ COMMITTED.

*Review.* One log for the three decision tables; `Standing` and the other folds
are over it, `Overview` are the counts in SQL (of the
latest decision of each subject, `Latest`). A request is one of the handlers in
`Operation`, a step per await: read the standing, append with the identity it
supersedes, author an occurrence and accept it, group under a claim, propose a
relation, compare an instance with the earlier ones of its chain (read, engine,
relations one by one, window row last), or read the page in its three reads.

### 2.7 Artifacts (`EvidenceArtifacts`)

One import command with its two representations, original and canonical text.
`staging`, `envelope`, `lifecycle`, `source`, `import` and `revision` are rows
of the product repository, `object` the object store. `ImportReads` to
`AdvanceRevision` are `importText()` with `secureSource()` in it (snapshot,
`StageArtifact`, `StatObject`, `CreateObject`, `ActivateSource`), once for each
representation; `CancelReads`, `PutCancelled`; `DeleteReads`, `AskDeletion`,
`DeleteObject`, `VerifyDeleted`, `Tombstone`; `RewrapReads`, `PutEnvelope`;
`ReadCase`, `FetchObject`. `Restart` kills the requests; `ReconcileReads`,
`ReconcileErases`, `Quarantine`, `Scan` are the reconciliation before the server
listens, which refuses to start if an active object is missing. Which stagings have
expired is a choice. With `Rolling` the old process would go on to serve; the
deployment has one process, and the run takes it so.

## 3. Runs

| Run | Question and result | Distinct states, about |
|---|---|---|
| `OutboxAll` | Two drains, two events, a crash or a redrive: an entry is delivered only if the dispatcher accepted it (`DeliveredWasAccepted`) and is final then (`DeliveredIsFinal`); every call of the dispatcher has an attempt of its own that the record counts (`CallsAreAccounted`); every published event ends as delivered or failed (`EventuallySettled`: whatever is unsettled, at some time nothing is). | 545k |
| `EngineOneKey` | Two callers of one key with different policies, a repair, crashes and discharges: one dispatch per logical call, outcomes agree with the ledger and a call that ends leaves a terminal execution (`EndedAsRecorded`), commits rest on recorded answers, every call ends, and what is listed as stranded with no call under way is never committed (`StrandedIsHopeless`). | 261k |
| `EngineTwoKeys` | Two executions of one entity that expect the same revision or follow one another: the history is linear and effects belong to commits (`HistoryIsWhole`), no memory update is lost, and the engine implements `IdempotentExecution` (`KeepsPromise`). | 157k |
| `JobsAll` | Two jobs, two requests to enqueue, a cancellation or a death: never two runs at once, a record is written once (`HistoryIsFinal`), a job file never claims a record that is not there (`RecordsAreTrue`), an unfinished job file that nobody asked to cancel has somebody at work on it (`NoGhost`), and every queued job leaves the queue (`QueueAdvances`). | 262k |
| `PostgresSafety` | Three connections, six transactions, two executions that expect the same revision: section 2.3. | 811k |
| `PostgresTerminal` | *Violated*: `TerminalIsFinal`, see section 6. | |
| `WorkerSafety` | A relation job and a job of each kind, two starts, a cancellation, an import or a restart: completed means projected (`CompletedIsProjected`), every revision has one author, an undisturbed job settles truthfully, an empty result's uncounted calls apart (`UndisturbedJobSettles`), a run on its own hears a cancellation (`ControllersOK`). | 3.1M |
| `ExtractionSafety` | Two runs over every plan of up to three windows, one death: the plan partitions the text, a run that says complete left everything shown, tables and ledger agree, every run ends. | 210k |
| `ChainsSafety` | Three appends, two at a time, over two artifacts: the proposal places every part once, memberships are well formed whatever the log, an append that ran alone repairs what others lost (`AloneHeals`), and none waits for ever. | 138k |
| `ChainsLost` | *Violated*: `EffectiveIsFold`, see section 6. | |
| `ReviewSafety` | Four requests of different kinds on two instances, an extraction, a death: every count of the overview agrees with the folds, who is superseded came before, comparisons show accepted material and leave all they committed, a page that says reviewed is right. | 924k |
| `ArtifactsSafety` | Four requests of any kind on one import, a restart: an import called activated is whole (`ImportIsWhole`), what is active can be read and the service starts again (`ContentIsKept`), a lifecycle reads as one story (`LifecycleIsOneStory`). | 1.1M |

Every property of a passing run has at least one mutant in `PROJECT.json`: a
plausible bug in a mapped definition under which the same run finds it violated.
The mutants stand beside the definitions they change, marked as such. Some
properties are conjunctions of named parts, each stated with its own comment.

**Bounds.** Two actors race for everything the code guards; what a third could add (one
that crashed, one that resumes, one that terminates) is left to the proofs.
`ChainsSafety` has three requests, two of them at a time. `LeaseTimeout` 1 tells a lease
that runs from one that has ended; ages of drains are not told apart from twice that on
(`Old`), and a drain asks for its lease within a `LeaseTimeout` of reading the clock (a
bound of `Tick`; the code reads it in the same call); `Limit` 1 makes a lease leave an
event behind, and batches of more than one are covered by the proofs, which hold for any
`Limit`. One fault (`MaxFaults`: a drain that dies, or a redrive) suffices for the
orders in which either meets the other actors. `MaxRepair` is 1 because repair calls
differ only in their index; in `EngineTwoKeys` and `WorkerSafety` it is 0, because
contention on the entity does not depend on it. `EngineOneKey` asks for one instant and
the responses `valid` and `repairable`; the other two verdicts end a call as a gateway's
error does, and `EngineTwoKeys` has them. A scenario has one step (`MaxSteps`), so a
progress patch can be the first, between or the last. `MayMeet` is false: a death
empties the queue and a cancellation decides from the files, so that an instance with
both in one behaviour adds cost and no new meeting of writers; the theorems hold with
both. `SmallParts` has parts of up to three units, enough for both bounds of a window
and a remainder; `SmallBodies` has decisions that agree, conflict, supersede each other
and come twice; a third append makes a log that the two concurrent ones have damaged
before. `PageLimit` 1, where an instance can hold two occurrences, makes the limit of
100 bite: one of them is out of a review's reach. The worker's `Kinds` pairs a relation
job, the one that moves revisions conditionally, with each kind it meets; `MaxEvents` 1
has an imported text or a restart in a behaviour, not both: where a run resumes over a
case that has moved on, the other job's projection moved it. Four requests
on one import are a failed import, its retry and two of the operations that may meet
them.

**Deadlock** is checked for the outbox, where time and drains go on; it is
switched off elsewhere: requests are finitely many and come to an end.

**Symmetry** is used in safety runs only (and `KeepsPromise`, a refinement without
fairness), over callers, connections, requests and keys that the modules compare
only for equality.

## 4. Fairness

- Drains (`DrainFairness`): weak fairness of each drain's next step and of
  time. `drainOutbox` is a loop of awaited calls that return; its command is
  called again by a scheduler. Commits, crashes and redrives need not happen.
- Engine: weak fairness of the next step of a call that has begun. The repository
  answers or throws, and gateways have a timeout. Nobody needs to call, retry or
  discharge.
- Job runner: weak fairness of each worker, queue of patches, request and the
  recovery: the event loop runs every callback, files are read and written, and a
  scenario has finitely many steps. No request is ever made of necessity and
  nothing has to crash. Which scenario step comes next, and whether a step fails,
  is not fair.
- Extraction and chains: weak fairness of the next step of a request that has
  begun. A statement that waits for another transaction is not enabled, and
  rollbacks are not fair: that everybody gets on is what `EveryAppendEnds` asks.
- The other modules state no liveness: a worker's run that dies is resumed by
  nobody, and an import is retried by whoever sent it.

## 5. Proofs

`tlapm` checks the theorems of eight modules without assumptions but those named in the
modules they extend (`OutboxAssumption`, `RepositoryAssumption`, `EngineAssumption`,
`PostgresAssumption`, `JobAssumption`, `WorkerAssumption`, `ExtractionAssumption`,
`ChainsAssumption`, `ReviewAssumption`, `OperationAssumption`, `ArtifactAssumption`:
types of constants, that the marks for "no value" are not values, and that requests name
what exists). They hold for every set of drains, events, keys, callers, connections,
jobs, runs and requests, any repair budget, number of steps, page of windows, crashes
and redrives. The inductive invariants were checked by TLC on the instances of the runs
before they were proved.

**Outbox** (in `ExecutionEngineProofs`). `DrainsTypeCorrect`; `OnlyAcceptedIsDelivered`
needs that a drain's positive verdict is about the first event of its batch
(`VerdictIsOfNext`), because `settle` is told only the event. `CallsAreCounted` and
`AttemptHasOneHolder`, together `EveryCallIsAccounted`, rest on `CountInv`: what any
drain holds and what was served is at most the count in the record, holders differ, and
what is held and not yet called for is not served. A lease takes count + 1, which is
more than anything held; nothing else lowers or raises a count. `DeliveredForever` is an
action property.

**Engine.** In two layers. The first treats a step of the repository as one of its
methods called without error: each preserves
`RepositoryOK` (types; attempts have a last one; what was accepted has a request) and
`Consistent`, the conjunction of `LinearHistory`, `NoLostMemoryUpdate`,
`NoEffectWithoutCommit` and `MemoryRead` (a committed memory write started from a
version older than the record's, so no later commit can start from the same).
The second shows that every step of every call, crash and discharge
is such a method or leaves the tables alone (`StepByMethods`), so both layers'
invariants hold of the system (`HistoryStaysWhole`, `NoMemoryUpdateIsLost`). On top of it:
`DispatchedOnce` by `DispatchOK`: a reservation belongs to a single call of
`execute` that has not passed the point of dispatch, and only a reserved call is
sent; `CallsEndAsRecorded` (from `OutcomesAreRecorded` and
`EndedCallsAreTerminal`) by the finality of terminal executions
(`TerminalForever`); `CommitsRestOnEvidence` by `AnswerOK`: what a call works
with is what the table records for its call index, after repairable answers.

`StrandedStaysUncommitted`, that no retry commits what was reported as stranded while
nobody was at work on it, is by `Hopeless`, which once true stays so: the row of the
primary call has no answer a resume could use, and every call on the execution has
ended, is about to be refused its resume, or is about to end it. It needs
`FailureHasError`: a failed row without its error would let a resume through.

`EngineKeepsPromise` is the refinement: every step of a call, a crash or a
discharge is, under the mapping `Promise`, one step of `IdempotentExecution` or
none. The mapping (`Standing`, `Ledger`, `Heads`, `Asked`, `Told`, `Answers`) reads
the promise's state off the tables and off where each call is. Two invariants carry
it: `SentOK`, that an execution with a recorded answer was sent to the provider,
and `UntoldOK`, that a call which has not ended has told its caller nothing. So
what the worker and the extraction are proved to do with the promise they do with
the engine.

**Engine and drains** (`EngineWithDrains`). Each side relies on something about the
other. For the drains a step of the engine is the first publication of one event or
nothing (`EngineStepPublishes`), so `SystemDrains`: every behaviour of both is one of
`OutboxDrain`, and all that is proved of the drains holds. For the engine a step of the
drains changes nothing but rows that are there (`DeliveryKeepsEvents`), so its
invariants stand and `SystemKeepsPromise` follows. With both, `EventsAreKept`
(the outbox has the events of the committed executions, and no others) and
`CallsFollowCommits` (the dispatcher is called for nothing else).

**PostgreSQL.** `TxInv` follows the row locks: a transaction that writes holds, or
has still to lock, every row it will publish (`LocksOK`), no two hold one row, and a
row that was not stale when it was locked is not stale at the commit
(`HeldIsFresh`). This gives `NoUpdateIsLost`, `InsertsAreGrantedOnce` and
`CommitsAreWhole` for any number of connections. What is read without a lock is
protected by nothing; that it still stands is proved for a key that no other
transaction has open (`WhatNobodyContestsIsFinal`), and `PostgresTerminal` shows
that no more can be.

**Job runner.** `TypeInv` adds to the types that whoever is on the way to a file
has a record to write there. `OneRunAtATime` follows because only an idle pump
takes a job and a run that returns is idle before the pump goes on.
`HistoryForever` needs `OneRecorder`: between creating a run file and writing it,
exactly one worker or cancellation is entitled to it, so `wx` protects the record
although it is written in a second step. `RecordedWhenWritten` and
`RecordsStayTrue` need `WritersKnow`: every record in the hands of a patch, a
cancellation or the recovery, and every patch that waits, claims only a record
that exists; since records stay (`HistoryForever`'s step), it is still true when
it is written, however late and over whatever. `NobodyIsAGhost`, that an unfinished
job file has somebody at work on it unless a cancellation was asked for, needs to
know that the recovery is over before anybody else writes (`RecoversFirst`), that the
last patch of a run that waits for its end is the final one (`PatchesOfRun`), and that
while the server is up every other job is settled (`QuietIsFinished`).

**Worker.** Whole job records travel through the memory of runs and requests and are
written back, so the invariant speaks of every copy: none calls a job completed whose
objects and change set are not in the product (`CompletedJobsAreProjected`). `RunOK`
ties a run's place to what the product and the ledger hold, `LoneOK` says that a run
which shared its job with nobody still has its own controller and the record it wrote,
`SettlesOK` that its answer is the ledger's, or that its result was committed empty and
it has failed with the calls of the engine uncounted. `LoneJobsSettle` and
`LoneRunsHearCancels` follow; `RevisionsHaveOneAuthor` from the compare-and-set: a
relation job's revision is above all earlier ones.

**Extraction.** `Windows`, the flattening of a plan and the sum of its words are
recursive functions over a part of any length. `WindowsHoldEveryUnit` proves
what they compute by an induction stated for sets of numbers: a
function that unfolds as the recursion asks exists (`RecursionExists`), so `CHOOSE`
yields one (`Windows` satisfies its own equation, `WindowsByUnit`), and a set with 0
that is closed under + 1 is `Nat` (`SetInduction`). Then: the windows, put together,
are the part, in order and with no unit twice, each within the bounds or a single
unit (`TakeFlattens`, `TakeCutsWell`). `CompleteRunsShowAll` uses that what a run
did not find outstanding had been shown to the model. `TheTablesAgree` has two
parts: for any interleaving, what the tables show was committed by the engine
(`BaseInv`); and for runs that follow one another (`Calm`), rows, occurrences and
ledger say the same of every window (`CalmOK`). The hypotheses of `CalmOK` are those of
the property itself: two runs at once on one window do disagree.

**Chains.** The opening of a part and the fold of the decisions are recursive too:
each unfolds as written (`OpeningByPart`, `FoldByDecision`), so that what one step
keeps holds of the whole. `ProposalsPlaceOnce` needs that the parts between a
document's opening and any of its parts open where they do, and that `Before` is a
strict total order of the documents, which makes `Ordinal` count distinct sets, one
inside the other. `MembershipsStayWellFormed` is the lemma that `Place` keeps
`WellFormed`, whatever the decision: the memberships it adds or leaves primary meet
no other one of that part. `AloneAppendsHeal` needs `RowsOK`, that a row version is
committed or belongs to an append about to commit, and `AloneOK`, which follows an
append nobody overlapped statement by statement: the fold it took, what its delete
is about to find, that nothing is left to see after it, and that its inserts are the
fold. A request that commits after it was overlapped is no longer `last` and alone,
and the property says nothing of it; `ChainsLost` shows why.

**Review.** What a request carries from a read to a write is out of date when it
writes. All of it is about a log, occurrences and executions that only grow
(`Grows`): a decision that was there, an occurrence that had been accepted and a
settled execution stay so, hence what a request carries keeps true (`WorkOK`,
`WorkStays`) and what it writes is justified, however requests interleave and die.
`OverviewsAgree` rests on `KnownOK`, that every decision is about something the store
holds and says what the schema allows, so that the latest decisions on a table are in
one-to-one correspondence with the subjects that have a standing (`RowsAreStandings`);
`ComparisonsAreWhole` follows a window from the acceptances it was read from to the
relations it proposed and the row written last; `ReviewedWasReviewed` puts the three
reads of the page together. Only that a review supersedes the *latest* decision
(`ReviewsFormAChain`) needs that no other request was at work since the read
(`AloneOK`). The proof shows where that stops even then: the identity of an authored
relation leaves out its author, so that two people who author one relation at one
instant accept it twice, the second time superseding nothing (`ByAuthor`).

**Artifacts.** `ActivatedImportsAreWhole` holds however processes replace each
other. `ActiveContentIsKept` and `LifecyclesAreStories` assume `~Rolling`, one
process at a time, as the deployment has it: the reconciliation erases what it read
as unreferenced, and this is still unreferenced when it erases it only because no
request runs meanwhile (`HandleOK`). With `Rolling` TLC finds it false.

**Only model-checked.** Liveness under fairness, which is out of the prover's reach:
`EventuallySettled`, `EveryCallEnds`, `QueueAdvances`, `EveryRunEnds`,
`EveryAppendEnds`: each rests on weak fairness of actions, and so on their ENABLED. Every
other property of a passing run is stated by a theorem.

## 6. Where the code and its words disagree

With a run:

- `TerminalIsFinal` (`PostgresTerminal`): `markTerminal()` and `appendAttempt()`
  of the PostgreSQL adapter read the status without a lock and update without a
  condition, so a status that became terminal in between is overwritten.
- `EffectiveIsFold` (`ChainsLost`): two appends of decisions at once each fold a
  log without the other, and what is kept is not the fold of what is stored. The next
  append that runs alone repairs it (`AloneHeals`).

Stated in the modules, refuted by TLC with the same constants, without a run of
their own:

- `DeliveredOncePerWindow` (`OutboxDrain`): ADR-0033 promises that no event is
  delivered twice within one lease window. A lease is counted from the drain's
  start, while a drain works through its batch without looking at the clock: an
  entry late in a batch is delivered after its lease ended. (With a batch of two.)
- `ProgressNeverRevives`, `DroppedNeverStarts` (`JobRunner`): `cancel()` writes the
  job file past the queue of patches, from what it read before. A patch that
  waits for the disk overwrites the cancellation, or the cancellation overwrites
  the final record and leaves the job at `cancelling` for good (so `NoGhost`
  speaks of jobs that nobody asked to cancel), or a job is reported as dropped
  that has begun. `DuplicateRefused`: two concurrent requests to enqueue the same
  run pass all checks.
- `NoCommittedWindowFails`, `FailureIsOfThisRun` (`EvidenceV2Extraction`;
  ADR-0048, section 7): a run can fail on a window whose execution had committed
  (the commit survived a death, the row did not, and the new request differs in
  its expected revision), and a window that failed once is not executed again but
  told of its old failure.
- `TerminatedLeavesNothing` (`EvidenceWorker`; ADR-0039, sections 5 and 9): a job
  that ends as cancelled or failed may have committed and projected.
- `CallsAreReported` (`EvidenceWorker`; SYSTEMDOC.md, "accumulated model calls"): an
  observation whose committed result is refused as empty ends as failed with no call
  counted, although one was paid for: the error has no `actualModelCalls`
  (`live-observation.ts:421`; so do `live-relation.ts:318` and
  `live-assessment.ts:338`). `UndisturbedJobSettles` names the exception.
- `NoHalfImport`, `RetrySucceeds` (`EvidenceArtifacts`; ADR-0038, section 2): the
  source row is there from the activation of the original on, before there is a
  canonical text to read; and a death between that activation and the import
  record makes every retry compute the next version ordinal and collide with its own
  command key. `TombstonesStayEmpty` (ADR-0037, section 7): a slow identical import
  re-creates the object after its tombstone.

In words only: ADR-0014 has a timed out call as `ambiguous`; the engine records
every error of the gateway as `failed`.

Seen while modelling, and part of the modules: a third decision can unsupersede
one of two rivals of which `chain.ts` says that neither wins; a review submitted
twice is logged twice; authoring a second time supersedes nothing; a review
looks at the first 100 occurrences of an instance; two overlapping reviews may
supersede the same decision; a run whose execution was refused writes its failed row
over the committed row of an overlapping run; a death between
`createRelation` and its review leaves an authored relation pending; a second
start of a live job replaces the controller that a cancellation would abort, and
a cancellation between queueing and registering aborts nothing; a cancellation's
write can revert a terminal phase; a death before the `projecting` write loses
the count of paid calls; observations of a job whose compare-and-set collided
remain; a text import that overlaps a cancellation may end activated or cancelled
whichever came first, and one that is submitted twice moves the evidence revision
twice; a death between the activated record and `advanceEvidenceRevision` never
moves it; a key rewrap between the request of a deletion and its tombstone makes
the tombstone be refused, with the object gone; a hydrated read of a case throws as
long as one of its sources has no readable canonical text.

## 7. What is left out

- The contents of states, memory, documents and events: `process`, `prepare`,
  `retrieve`, the parsers and validators are pure functions, of which the engine
  model keeps the verdict. `replayVerify` reads only.
- Of the PostgreSQL adapter: `completeModelCall`, `failModelCall`, the rows of attempts
  and documents, the reads. The unlocked SELECTs of a method are one step (`Read`): what
  they test only moves one way, so that reading it apart refuses no less. Its run has
  commits that expect revision 0 only; the proofs hold for any. The SQLite adapter,
  whose methods are one immediate transaction each, is covered by the atomic modules as
  far as its SQL does what the memory adapter does.
- Of the worker: `proposeAssessment`, failures of the audit log while settling,
  observations of several coverage windows, the relations and questions that
  `afterImport()` may add to an import (index.ts:772-790, with a second advance of the
  revision).
- Of Evidence V2: uploads and PDF extraction, paged reads, and that
  `readCaseProjectionInputs` takes six statements without one snapshot. Windows are
  planned for one part (`Windows`); the code goes on to the next part with an empty
  batch. A statement over several membership rows (`DeleteEnds` of the chains) is one
  step, where PostgreSQL locks row by row. Of the overview, the plain row counts
  (artifacts, lines, parts, claims and the like), `cross_instance_claims` and the resume
  pointer are left out.
- Of artifacts: redactions, backup manifests and their restoration, the S3 store,
  limits on size and rate, securing legacy sources at the start, and what the
  ciphers do. The lifecycle log is in the order of its commits; the code takes the
  latest record by `occurredAt`, which is stamped before the transaction
  (`artifact-service.ts:142`), so that clocks that disagree with that order are left
  out. The reconciliation takes original and canonical text in this order; the code
  goes by staging ids, which are random, and neither step looks at the other's.
- Errors of the file system other than an existing run file; evaluator runs of a
  finished job.
- The wall clock beyond what leases and expiries need, and the provider's side of
  a call.
- The model-only engine and sessions, which are in the plan; rendering, HTTP
  routing, authorisation, front ends and evaluation reports, which keep no state of
  their own that outlives a request. `PROJECT.json` lists every component with its
  reason.

## 8. Plan

1. `EvidenceSession`: resolve, rotate and logout over whole-record writes.
2. `ModelExecution`: the model-only engine with routes and fallbacks, two callers of
   the same call.
3. Pure algorithms as operators against a reference: memory retrieval and its budget,
   state versions, replay verification, the ceilings of live safety.
4. Redactions over the artifacts: a redacted text replaces the canonical one for
   readers, drafts race their application.
