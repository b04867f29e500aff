----------------------------- MODULE JobRunner -----------------------------
(***************************************************************************)
(* The in-process job runner of the test UI (apps/test-ui, src/local,      *)
(* job-runner.ts) over the files of its workspace (workspace.ts).          *)
(*                                                                         *)
(* One event loop interleaves requests to enqueue and to cancel, the pump  *)
(* that runs one job at a time, and the queue of patches of each job file. *)
(* A step is the synchronous code between two awaits.  A file is opened    *)
(* (which empties it) and written in two steps: a reader in between finds  *)
(* nothing, and writers that overlap may leave a file that does not parse. *)
(* The process may die at any step; the files survive and are recovered.   *)
(* Of the errors of the file system only the existing run file is kept.    *)
(***************************************************************************)
EXTENDS Naturals, Sequences, SequencesExt

CONSTANTS
  Job,         \* run identifiers; a job is named by its run
  Enqueuer,    \* requests to enqueue
  Canceller,   \* requests to cancel
  MaxSteps,    \* steps of a scenario
  MaxCrashes,  \* bound on deaths of the process
  MayMeet,     \* bound: whether a death and a cancellation may both happen
  None, Empty, Garbled   \* no file, an empty one, one that does not parse

Terminal == {"completed", "failed", "cancelled", "interrupted"}

JobStatus == {"queued", "running", "cancelling"} \cup Terminal

JobRecord == [status : JobStatus, runRecordWritten : BOOLEAN]

Unreadable == {None, Empty, Garbled}

RunStatus == {"passed", "failed", "cancelled"}

ASSUME JobAssumption ==
  /\ MaxSteps \in Nat /\ MaxCrashes \in Nat /\ MayMeet \in BOOLEAN
  /\ Unreadable \cap JobRecord = {}

VARIABLES
  jobFile,    \* jobs/<job>.json
  runFile,    \* runs/<job>.json: "none", "empty" or a run status
  server,     \* "up", or "recovering" until recoverInterrupted() is through
  recovery,   \* the record recoverInterrupted() is writing, or None
  waitQueue, pending, active,   \* the runner's own state
  aborted,    \* active jobs whose signal is aborted
  run,        \* runOne() for each job; the pump is busy while one is not idle
  patches,    \* calls of patch() for each job file, in order
  patcher,    \* the first of them
  enqueuer, canceller,          \* the requests
  crashes

memory == <<waitQueue, pending, active, aborted, run, patches, patcher>>

requests == <<enqueuer, canceller>>

files == <<jobFile, runFile>>

host == <<server, recovery, crashes>>

vars == <<files, memory, requests, host>>

IdleRun == [pc |-> "idle", phase |-> 0, status |-> "none", caught |-> FALSE]

IdlePatcher == [pc |-> "load", record |-> None]

IdleEnqueuer == [pc |-> "idle", job |-> None]

IdleCanceller == [pc |-> "idle", job |-> None, record |-> None, outcome |-> "none"]

RunState ==
  [pc : {"idle", "load", "claim", "starting", "dropping", "scenario", "record",
         "recording", "check-run", "ending"},
   phase : 0 .. 2 * MaxSteps,          \* calls of onStep so far
   status : RunStatus \cup {"none"}, caught : BOOLEAN]

Patch == [to : {"running", "progress", "dropped"} \cup Terminal,
          written : BOOLEAN]

EnqueuerState ==
  [pc : {"idle", "check-run", "check-job", "accept", "open", "write", "push",
         "accepted", "refused", "lost"},
   job : Job \cup {None}]

CancellerState ==
  [pc : {"idle", "decide", "check-run", "record", "recording", "recheck",
         "open", "write", "done", "lost"},
   job : Job \cup {None}, record : JobRecord \cup {None},
   outcome : {"none", "cancelled", "cancel-requested", "already-terminal",
              "unknown"}]

(* Types; only an active job has a signal that is aborted. *)
TypeOK ==
  /\ jobFile \in [Job -> JobRecord \cup Unreadable]
  /\ runFile \in [Job -> RunStatus \cup {"none", "empty"}]
  /\ server \in {"up", "recovering"}
  /\ recovery \in [job : Job, record : JobRecord] \cup {None}
  /\ waitQueue \in Seq(Job)
  /\ pending \subseteq Job /\ active \subseteq Job /\ aborted \subseteq active
  /\ run \in [Job -> RunState]
  /\ patches \in [Job -> Seq(Patch)]
  /\ patcher \in [Job -> [pc : {"load", "open", "write"},
                          record : JobRecord \cup {None}]]
  /\ enqueuer \in [Enqueuer -> EnqueuerState]
  /\ canceller \in [Canceller -> CancellerState]
  /\ crashes \in 0 .. MaxCrashes

MemoryInit ==
  /\ waitQueue = <<>> /\ pending = {} /\ active = {} /\ aborted = {}
  /\ run = [j \in Job |-> IdleRun]
  /\ patches = [j \in Job |-> <<>>]
  /\ patcher = [j \in Job |-> IdlePatcher]

Init ==
  /\ jobFile = [j \in Job |-> None]
  /\ runFile = [j \in Job |-> "none"]
  /\ server = "up" /\ recovery = None /\ crashes = 0
  /\ MemoryInit
  /\ enqueuer = [e \in Enqueuer |-> IdleEnqueuer]
  /\ canceller = [c \in Canceller |-> IdleCanceller]

-----------------------------------------------------------------------------
(* The workspace. *)

IsTerminal(job) == job.status \in Terminal

Load(j) == IF jobFile[j] \in Unreadable THEN None ELSE jobFile[j]

RunRecorded(j) == runFile[j] \in RunStatus     \* loadRun() is not null

OpenJob(j) == jobFile' = [jobFile EXCEPT ![j] = Empty]

(* The second of two overlapping writers may leave the first one's tail. *)
WriteJob(j, record) ==
  \E content \in IF jobFile[j] = Empty THEN {record} ELSE {record, Garbled} :
    jobFile' = [jobFile EXCEPT ![j] = content]

(* Mutant of RunMayBeRecorded: without the flag wx. *)
RunMayAlwaysBeRecorded(j) == TRUE

(* recordRun() creates its file exclusively. *)
RunMayBeRecorded(j) == runFile[j] = "none"

OpenRun(j) == runFile' = [runFile EXCEPT ![j] = "empty"]

WriteRun(j, status) == runFile' = [runFile EXCEPT ![j] = status]

-----------------------------------------------------------------------------
(* The pump. *)

(* Mutant of Pump: without the flag pumping. *)
PumpTwice(runs, queue, busy) ==
  IF queue = <<>> \/ busy # {}
  THEN run' = runs /\ waitQueue' = queue
  ELSE /\ run' = [runs EXCEPT ![Head(queue)].pc = "load"]
       /\ waitQueue' = Tail(queue)

(* The pump takes up the next job of queue unless it is running or a job is
   active. *)
Pump(runs, queue, busy) ==
  IF queue = <<>> \/ busy # {} \/ \E i \in Job : runs[i].pc # "idle"
  THEN run' = runs /\ waitQueue' = queue
  ELSE /\ run' = [runs EXCEPT ![Head(queue)].pc = "load"]
       /\ waitQueue' = Tail(queue)

RunGoto(j, next) == run' = [run EXCEPT ![j].pc = next]

(* Mutant of RunReturns: the job stays active. *)
RunReturnsActive(j) ==
  /\ UNCHANGED active
  /\ aborted' = aborted \ {j}
  /\ Pump([run EXCEPT ![j] = IdleRun], waitQueue, active')

(* runOne() is through: its slot is free for the next job. *)
RunReturns(j) ==
  /\ active' = active \ {j}
  /\ aborted' = aborted \ {j}
  /\ Pump([run EXCEPT ![j] = IdleRun], waitQueue, active')

AddPatch(j, to, written) ==
  patches' = [patches EXCEPT ![j] = Append(@, [to |-> to, written |-> written])]

(* runOne() *)
RunLoad(j) ==
  /\ run[j].pc = "load"
  /\ IF Load(j) = None \/ IsTerminal(Load(j))
     THEN pending' = pending \ {j} /\ RunReturns(j)
     ELSE RunGoto(j, "claim") /\ UNCHANGED <<pending, active, aborted, waitQueue>>
  /\ UNCHANGED <<files, requests, host, patches, patcher>>

(* Mutant of RunClaim: a job without payload is left as it is. *)
RunClaimQuietly(j) ==
  /\ run[j].pc = "claim"
  /\ pending' = pending \ {j}
  /\ IF j \in pending
     THEN /\ active' = active \cup {j}
          /\ AddPatch(j, "running", FALSE)
          /\ RunGoto(j, "starting")
     ELSE RunGoto(j, "dropping") /\ UNCHANGED <<active, patches>>
  /\ UNCHANGED <<files, requests, host, waitQueue, aborted, patcher>>

(* The payload is taken; without one the job was cancelled in between. *)
RunClaim(j) ==
  /\ run[j].pc = "claim"
  /\ pending' = pending \ {j}
  /\ IF j \in pending
     THEN /\ active' = active \cup {j}
          /\ AddPatch(j, "running", FALSE)
          /\ RunGoto(j, "starting")
     ELSE /\ AddPatch(j, "dropped", FALSE)
          /\ RunGoto(j, "dropping")
          /\ UNCHANGED active
  /\ UNCHANGED <<files, requests, host, waitQueue, aborted, patcher>>

RunDrop(j) ==
  /\ run[j].pc = "dropping" /\ patches[j] = <<>>
  /\ RunReturns(j)
  /\ UNCHANGED <<files, requests, host, pending, patches, patcher>>

RunScenario(j) ==
  /\ run[j].pc = "starting" /\ patches[j] = <<>>
  /\ RunGoto(j, "scenario")
  /\ UNCHANGED <<files, requests, host, waitQueue, pending, active, aborted,
                 patches, patcher>>

BetweenSteps(j) == run[j].pc = "scenario" /\ run[j].phase % 2 = 0

(* A step starts, unless the signal is aborted, or ends: onStep() is called. *)
RunStep(j) ==
  /\ run[j].pc = "scenario" /\ run[j].phase < 2 * MaxSteps
  /\ BetweenSteps(j) => j \notin aborted
  /\ run' = [run EXCEPT ![j].phase = @ + 1]
  /\ AddPatch(j, "progress", FALSE)
  /\ UNCHANGED <<files, requests, host, waitQueue, pending, active, aborted, patcher>>

Observed(j, status) == IF j \in aborted THEN "cancelled" ELSE status

(* runScenario() returns: every step passed, or one failed, or it saw the
   signal between two steps. *)
RunReport(j) ==
  /\ BetweenSteps(j)
  /\ \E status \in {"passed", "failed"} :
       /\ status = "passed" => run[j].phase = 2 * MaxSteps
       /\ status = "failed" => run[j].phase > 0 \/ j \in aborted
       /\ run' = [run EXCEPT ![j].pc = "record", ![j].status = Observed(j, status)]
  /\ UNCHANGED <<files, requests, host, waitQueue, pending, active, aborted,
                 patches, patcher>>

(* runScenario() throws before its first step. *)
RunThrows(j) ==
  /\ run[j].pc = "scenario" /\ run[j].phase = 0
  /\ run' = [run EXCEPT ![j].pc = "check-run", ![j].caught = TRUE,
                        ![j].status = Observed(j, "failed")]
  /\ UNCHANGED <<files, requests, host, waitQueue, pending, active, aborted,
                 patches, patcher>>

JobStatusOf(status) == IF status = "passed" THEN "completed" ELSE status

(* Mutant of Finish: the record is taken as written. *)
FinishWritten(j, written) ==
  /\ RunGoto(j, "ending")
  /\ AddPatch(j, JobStatusOf(run[j].status), TRUE)

Finish(j, written) ==
  /\ RunGoto(j, "ending")
  /\ AddPatch(j, JobStatusOf(run[j].status), written)

RunRecord(j) ==
  /\ run[j].pc = "record"
  /\ CASE RunMayBeRecorded(j) ->
            OpenRun(j) /\ RunGoto(j, "recording") /\ UNCHANGED patches
       [] ~RunMayBeRecorded(j) /\ ~run[j].caught ->
            /\ run' = [run EXCEPT ![j].pc = "check-run", ![j].caught = TRUE,
                                  ![j].status = Observed(j, "failed")]
            /\ UNCHANGED <<runFile, patches>>
       [] OTHER -> Finish(j, FALSE) /\ UNCHANGED runFile
  /\ UNCHANGED <<jobFile, requests, host, waitQueue, pending, active, aborted, patcher>>

RunCheck(j) ==
  /\ run[j].pc = "check-run"
  /\ IF RunRecorded(j) THEN Finish(j, TRUE) ELSE RunGoto(j, "record") /\ UNCHANGED patches
  /\ UNCHANGED <<files, requests, host, waitQueue, pending, active, aborted, patcher>>

RunRecording(j) ==
  /\ run[j].pc = "recording"
  /\ WriteRun(j, run[j].status)
  /\ Finish(j, TRUE)
  /\ UNCHANGED <<jobFile, requests, host, waitQueue, pending, active, aborted, patcher>>

RunEnd(j) ==
  /\ run[j].pc = "ending" /\ patches[j] = <<>>
  /\ RunReturns(j)
  /\ UNCHANGED <<files, requests, host, pending, patches, patcher>>

-----------------------------------------------------------------------------
(* patch(): the calls for one job file run one after the other. *)

Updated(patch, job) ==
  CASE patch.to = "progress" -> job
    [] patch.to = "dropped" ->
         IF IsTerminal(job) THEN job ELSE [job EXCEPT !.status = "cancelled"]
    [] patch.to = "running" -> [job EXCEPT !.status = "running"]
    [] OTHER -> [status |-> patch.to, runRecordWritten |-> patch.written]

PatchDone(j) ==
  /\ patches' = [patches EXCEPT ![j] = Tail(@)]
  /\ patcher' = [patcher EXCEPT ![j] = IdlePatcher]

Revives(next, job) == IsTerminal(job) /\ ~IsTerminal(next)

PatchLoad(j) ==
  /\ patcher[j].pc = "load" /\ patches[j] # <<>>
  /\ LET next == Updated(Head(patches[j]), Load(j)) IN
     IF Load(j) = None \/ Revives(next, Load(j))
     THEN PatchDone(j)
     ELSE /\ patcher' = [patcher EXCEPT ![j] = [pc |-> "open", record |-> next]]
          /\ UNCHANGED patches
  /\ UNCHANGED <<files, requests, host, waitQueue, pending, active, aborted, run>>

PatchOpen(j) ==
  /\ patcher[j].pc = "open"
  /\ OpenJob(j)
  /\ patcher' = [patcher EXCEPT ![j].pc = "write"]
  /\ UNCHANGED <<runFile, requests, host, waitQueue, pending, active, aborted, run,
                 patches>>

PatchWrite(j) ==
  /\ patcher[j].pc = "write"
  /\ WriteJob(j, patcher[j].record)
  /\ PatchDone(j)
  /\ UNCHANGED <<runFile, requests, host, waitQueue, pending, active, aborted, run>>

-----------------------------------------------------------------------------
(* enqueue() *)

EnqueuerGoto(e, next) == enqueuer' = [enqueuer EXCEPT ![e].pc = next]

Enqueue(e, j) ==
  /\ server = "up" /\ enqueuer[e].pc = "idle"
  /\ enqueuer' = [enqueuer EXCEPT ![e] =
       [pc |-> IF j \in active \cup Range(waitQueue) THEN "refused" ELSE "check-run",
        job |-> j]]
  /\ UNCHANGED <<files, memory, host, canceller>>

EnqueueCheckRun(e) ==
  /\ enqueuer[e].pc = "check-run"
  /\ EnqueuerGoto(e, IF RunRecorded(enqueuer[e].job) THEN "refused" ELSE "check-job")
  /\ UNCHANGED <<files, memory, host, canceller>>

EnqueueCheckJob(e) ==
  /\ enqueuer[e].pc = "check-job"
  /\ EnqueuerGoto(e, IF Load(enqueuer[e].job) # None THEN "refused" ELSE "accept")
  /\ UNCHANGED <<files, memory, host, canceller>>

EnqueueAccept(e) ==
  /\ enqueuer[e].pc = "accept"
  /\ pending' = pending \cup {enqueuer[e].job}
  /\ EnqueuerGoto(e, "open")
  /\ UNCHANGED <<files, host, canceller, waitQueue, active, aborted, run, patches,
                 patcher>>

EnqueueOpen(e) ==
  /\ enqueuer[e].pc = "open"
  /\ OpenJob(enqueuer[e].job)
  /\ EnqueuerGoto(e, "write")
  /\ UNCHANGED <<runFile, memory, host, canceller>>

EnqueueWrite(e) ==
  /\ enqueuer[e].pc = "write"
  /\ WriteJob(enqueuer[e].job, [status |-> "queued", runRecordWritten |-> FALSE])
  /\ EnqueuerGoto(e, "push")
  /\ UNCHANGED <<runFile, memory, host, canceller>>

EnqueuePush(e) ==
  /\ enqueuer[e].pc = "push"
  /\ Pump(run, Append(waitQueue, enqueuer[e].job), active)
  /\ EnqueuerGoto(e, "accepted")
  /\ UNCHANGED <<files, host, canceller, pending, active, aborted, patches, patcher>>

-----------------------------------------------------------------------------
(* cancel() *)

CancellerGoto(c, next) == canceller' = [canceller EXCEPT ![c].pc = next]

Cancel(c, j) ==
  /\ server = "up" /\ canceller[c].pc = "idle"
  /\ MayMeet \/ crashes = 0
  /\ LET outcome == CASE Load(j) = None -> "unknown"
                      [] IsTerminal(Load(j)) -> "already-terminal"
                      [] OTHER -> "none" IN
     canceller' = [canceller EXCEPT ![c] =
       [pc |-> IF outcome = "none" THEN "decide" ELSE "done",
        job |-> j, record |-> Load(j), outcome |-> outcome]]
  /\ UNCHANGED <<files, memory, host, enqueuer>>

(* splice() takes the first occurrence of j out of the queue. *)
Withdraw(j) ==
  \/ j \notin Range(waitQueue) /\ UNCHANGED waitQueue
  \/ \E n \in 1 .. Len(waitQueue) :
       /\ waitQueue[n] = j /\ \A m \in 1 .. n - 1 : waitQueue[m] # j
       /\ waitQueue' = RemoveAt(waitQueue, n)

CancelQueued(c) ==
  /\ canceller[c].pc = "decide" /\ canceller[c].record.status = "queued"
  /\ Withdraw(canceller[c].job)
  /\ pending' = pending \ {canceller[c].job}
  /\ canceller' = [canceller EXCEPT ![c].pc = "check-run",
                                    ![c].record.status = "cancelled"]
  /\ UNCHANGED <<files, host, enqueuer, active, aborted, run, patches, patcher>>

CancelRunning(c) ==
  /\ canceller[c].pc = "decide" /\ canceller[c].record.status # "queued"
  /\ aborted' = aborted \cup ({canceller[c].job} \cap active)
  /\ canceller' = [canceller EXCEPT ![c].pc = "open",
                                    ![c].record.status = "cancelling"]
  /\ UNCHANGED <<files, host, enqueuer, waitQueue, pending, active, run, patches,
                 patcher>>

CancelKeep(c, written) ==
  canceller' = [canceller EXCEPT ![c].pc = "open",
                                 ![c].record.runRecordWritten = written]

CancelCheckRun(c) ==
  /\ canceller[c].pc = "check-run"
  /\ IF RunRecorded(canceller[c].job) THEN CancelKeep(c, TRUE) ELSE CancellerGoto(c, "record")
  /\ UNCHANGED <<files, memory, host, enqueuer>>

CancelRecord(c) ==
  /\ canceller[c].pc = "record"
  /\ IF RunMayBeRecorded(canceller[c].job)
     THEN OpenRun(canceller[c].job) /\ CancellerGoto(c, "recording")
     ELSE CancellerGoto(c, "recheck") /\ UNCHANGED runFile
  /\ UNCHANGED <<jobFile, memory, host, enqueuer>>

CancelRecording(c) ==
  /\ canceller[c].pc = "recording"
  /\ WriteRun(canceller[c].job, "cancelled")
  /\ CancelKeep(c, TRUE)
  /\ UNCHANGED <<jobFile, memory, host, enqueuer>>

CancelRecheck(c) ==
  /\ canceller[c].pc = "recheck"
  /\ CancelKeep(c, RunRecorded(canceller[c].job))
  /\ UNCHANGED <<files, memory, host, enqueuer>>

CancelOpen(c) ==
  /\ canceller[c].pc = "open"
  /\ OpenJob(canceller[c].job)
  /\ CancellerGoto(c, "write")
  /\ UNCHANGED <<runFile, memory, host, enqueuer>>

CancelWrite(c) ==
  /\ canceller[c].pc = "write"
  /\ WriteJob(canceller[c].job, canceller[c].record)
  /\ canceller' = [canceller EXCEPT ![c].pc = "done",
       ![c].outcome = IF canceller[c].record.status = "cancelled"
                      THEN "cancelled" ELSE "cancel-requested"]
  /\ UNCHANGED <<runFile, memory, host, enqueuer>>

-----------------------------------------------------------------------------
(* The process dies; the next one calls recoverInterrupted() before it serves. *)

Crash ==
  /\ crashes < MaxCrashes
  /\ MayMeet \/ \A c \in Canceller : canceller[c].pc = "idle"
  /\ crashes' = crashes + 1
  /\ server' = "recovering" /\ recovery' = None
  /\ waitQueue' = <<>> /\ pending' = {} /\ active' = {} /\ aborted' = {}
  /\ run' = [j \in Job |-> IdleRun]
  /\ patches' = [j \in Job |-> <<>>]
  /\ patcher' = [j \in Job |-> IdlePatcher]
  /\ enqueuer' = [e \in Enqueuer |-> IF enqueuer[e].pc \in {"idle", "accepted", "refused"}
                    THEN enqueuer[e] ELSE [enqueuer[e] EXCEPT !.pc = "lost"]]
  /\ canceller' = [c \in Canceller |-> IF canceller[c].pc \in {"idle", "done"}
                    THEN canceller[c] ELSE [canceller[c] EXCEPT !.pc = "lost"]]
  /\ UNCHANGED files

Unfinished(j) == Load(j) # None /\ ~IsTerminal(Load(j))

RecoverOpen(j) ==
  /\ server = "recovering" /\ recovery = None /\ Unfinished(j)
  /\ OpenJob(j)
  /\ recovery' = [job |-> j, record |-> [jobFile[j] EXCEPT !.status = "interrupted"]]
  /\ UNCHANGED <<runFile, memory, requests, server, crashes>>

RecoverWrite ==
  /\ recovery # None
  /\ WriteJob(recovery.job, recovery.record)
  /\ recovery' = None
  /\ UNCHANGED <<runFile, memory, requests, server, crashes>>

Serve ==
  /\ server = "recovering" /\ recovery = None
  /\ \A j \in Job : ~Unfinished(j)
  /\ server' = "up"
  /\ UNCHANGED <<files, memory, requests, recovery, crashes>>

-----------------------------------------------------------------------------

Worker(j) ==
  \/ RunLoad(j) \/ RunClaim(j) \/ RunDrop(j) \/ RunScenario(j) \/ RunStep(j)
  \/ RunReport(j) \/ RunThrows(j) \/ RunRecord(j) \/ RunCheck(j)
  \/ RunRecording(j) \/ RunEnd(j)

Patcher(j) == PatchLoad(j) \/ PatchOpen(j) \/ PatchWrite(j)

Enqueues(e) ==
  \/ EnqueueCheckRun(e) \/ EnqueueCheckJob(e) \/ EnqueueAccept(e)
  \/ EnqueueOpen(e) \/ EnqueueWrite(e) \/ EnqueuePush(e)

Cancels(c) ==
  \/ CancelQueued(c) \/ CancelRunning(c) \/ CancelCheckRun(c) \/ CancelRecord(c)
  \/ CancelRecording(c) \/ CancelRecheck(c) \/ CancelOpen(c) \/ CancelWrite(c)

Recovers == (\E j \in Job : RecoverOpen(j)) \/ RecoverWrite \/ Serve

Next ==
  \/ \E j \in Job : Worker(j) \/ Patcher(j)
  \/ \E e \in Enqueuer : (\E j \in Job : Enqueue(e, j)) \/ Enqueues(e)
  \/ \E c \in Canceller : (\E j \in Job : Cancel(c, j)) \/ Cancels(c)
  \/ Recovers
  \/ Crash

Spec == Init /\ [][Next]_vars

(* The event loop runs every callback, and files are read and written;
   nobody has to make a request and nothing has to crash. *)
FairSpec ==
  /\ Spec
  /\ \A j \in Job : WF_vars(Worker(j)) /\ WF_vars(Patcher(j))
  /\ \A e \in Enqueuer : WF_vars(Enqueues(e))
  /\ \A c \in Canceller : WF_vars(Cancels(c))
  /\ WF_vars(Recovers)

-----------------------------------------------------------------------------

(* At most one job runs at a time: the pump never starts a second run, also
   between taking a job from the queue and registering it as active. *)
OneAtATime ==
  \A i, j \in Job : run[i].pc # "idle" /\ run[j].pc # "idle" => i = j

(* Existing history is never overwritten: a worker and a cancellation that
   race to record the same run leave the record of the first. *)
HistoryIsFinal ==
  [][\A j \in Job : RunRecorded(j) => runFile'[j] = runFile[j]]_vars

(* A job file that says its run is recorded is right, whoever wrote the job
   file, the run file, and in whatever order. *)
WrittenIsRecorded ==
  \A j \in Job : Load(j) # None /\ Load(j).runRecordWritten => RunRecorded(j)

(* The job files and the run files agree, and hold nothing but records. *)
RecordsAreTrue == TypeOK /\ WrittenIsRecorded

AtWork(j) ==
  \/ run[j].pc # "idle"
  \/ j \in Range(waitQueue)
  \/ patches[j] # <<>>
  \/ \E e \in Enqueuer : enqueuer[e].pc \in {"open", "write", "push"} /\ enqueuer[e].job = j
  \/ \E c \in Canceller : canceller[c].pc \notin {"idle", "done", "lost"} /\ canceller[c].job = j

(* No ghosts: an unfinished job file of a serving process is one somebody is
   still at work on, unless a request to cancel the job was made (cancel()
   writes job files past the queue of patches: see ProgressNeverRevives). *)
NoGhost ==
  server = "up" =>
    \A j \in Job : Unfinished(j) /\ (\A c \in Canceller : canceller[c].job # j) =>
      AtWork(j)

(* A queued job is taken up, cancelled or lost with the process: the queue
   never stalls behind a job that failed, was cancelled or vanished. *)
QueueAdvances == \A j \in Job : (j \in Range(waitQueue)) ~> (j \notin Range(waitQueue))

(* A progress patch never overwrites a finished job with an unfinished one
   (the comments of patch() in job-runner.ts). *)
ProgressNeverRevives ==
  [][\A j \in Job :
       patcher[j].pc = "open" /\ patcher'[j].pc = "write"
         /\ Head(patches[j]).to = "progress" /\ Load(j) # None =>
         ~Revives(patcher[j].record, Load(j))]_vars

(* A job reported as cancelled while queued does not start (ADR-0027:152). *)
DroppedNeverStarts ==
  \A c \in Canceller : canceller[c].outcome = "cancelled" =>
    run[canceller[c].job].pc \notin {"scenario", "record", "recording"}

(* enqueue() refuses an identifier that was accepted before (ADR-0027). *)
DuplicateRefused ==
  \A d, e \in Enqueuer :
    enqueuer[d].pc = "accepted" /\ enqueuer[e].pc = "accepted"
      /\ enqueuer[d].job = enqueuer[e].job => d = e
=============================================================================
