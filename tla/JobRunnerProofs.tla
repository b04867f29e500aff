-------------------------- MODULE JobRunnerProofs --------------------------
(***************************************************************************)
(* Proofs about JobRunner for every set of jobs and of requests, scenarios *)
(* of any length and any number of deaths of the process.                  *)
(***************************************************************************)
EXTENDS JobRunner, TLAPS

(* Who is on the way to a file has something to write there. *)
Fits ==
  /\ \A j \in Job :
       /\ run[j].pc \in {"record", "recording", "check-run", "ending"} =>
            run[j].status \in RunStatus
       /\ patcher[j].pc # "load" => /\ patcher[j].record \in JobRecord
                                    /\ patches[j] # <<>>
  /\ \A e \in Enqueuer : enqueuer[e].pc # "idle" => enqueuer[e].job \in Job
  /\ \A c \in Canceller :
       /\ canceller[c].pc # "idle" => canceller[c].job \in Job
       /\ canceller[c].pc \notin {"idle", "done", "lost"} =>
            canceller[c].record \in JobRecord

TypeInv == TypeOK /\ Fits

-----------------------------------------------------------------------------
(* Helpers. *)

LEMMA LoadType ==
  ASSUME TypeOK, NEW j \in Job
  PROVE  /\ Load(j) \in JobRecord \cup {None}
         /\ Load(j) # None => Load(j) = jobFile[j] /\ jobFile[j] \in JobRecord
BY JobAssumption DEF TypeOK, Load, Unreadable

LEMMA WriteType ==
  ASSUME TypeOK, NEW j \in Job, NEW record \in JobRecord, WriteJob(j, record)
  PROVE  jobFile' \in [Job -> JobRecord \cup Unreadable]
BY DEF TypeOK, WriteJob, Unreadable

LEMMA OpenType ==
  ASSUME TypeOK, NEW j \in Job, OpenJob(j)
  PROVE  jobFile' \in [Job -> JobRecord \cup Unreadable]
BY DEF TypeOK, OpenJob, Unreadable

LEMMA OpenRunType ==
  ASSUME TypeOK, NEW j \in Job, OpenRun(j)
  PROVE  runFile' \in [Job -> RunStatus \cup {"none", "empty"}]
BY DEF TypeOK, OpenRun

LEMMA WriteRunType ==
  ASSUME TypeOK, NEW j \in Job, NEW status \in RunStatus, WriteRun(j, status)
  PROVE  runFile' \in [Job -> RunStatus \cup {"none", "empty"}]
BY DEF TypeOK, WriteRun

(* The pump sets at most one run to load. *)
LEMMA PumpEffect ==
  ASSUME NEW runs \in [Job -> RunState], NEW queue \in Seq(Job), NEW busy,
         Pump(runs, queue, busy)
  PROVE  /\ waitQueue' \in Seq(Job)
         /\ \/ run' = runs
            \/ \E i \in Job : /\ \A k \in Job : runs[k].pc = "idle"
                              /\ run' = [runs EXCEPT ![i].pc = "load"]
<1>1. CASE queue = <<>> \/ busy # {} \/ \E i \in Job : runs[i].pc # "idle"
  BY <1>1 DEF Pump
<1>2. CASE ~(queue = <<>> \/ busy # {} \/ \E i \in Job : runs[i].pc # "idle")
  <2>1. Head(queue) \in Job /\ Tail(queue) \in Seq(Job)
    BY <1>2
  <2> QED
    BY <1>2, <2>1 DEF Pump
<1> QED
  BY <1>1, <1>2

(* A run that is set to load keeps its type. *)
LEMMA LoadingType ==
  ASSUME NEW runs \in [Job -> RunState], NEW i \in Job
  PROVE  [runs EXCEPT ![i].pc = "load"] \in [Job -> RunState]
BY DEF RunState

(* What Fits and TypeOK say about the runs, and that RunReturns preserves it. *)
RunsFit(runs) ==
  /\ runs \in [Job -> RunState]
  /\ \A j \in Job : runs[j].pc \in {"record", "recording", "check-run", "ending"}
                      => runs[j].status \in RunStatus

LEMMA IdleRunType == IdleRun \in RunState
BY JobAssumption DEF IdleRun, RunState

LEMMA PumpFits ==
  ASSUME NEW runs, RunsFit(runs), NEW queue \in Seq(Job), NEW busy,
         Pump(runs, queue, busy)
  PROVE  RunsFit(run') /\ waitQueue' \in Seq(Job)
<1>1. runs \in [Job -> RunState]
  BY DEF RunsFit
<1>2. waitQueue' \in Seq(Job)
  BY <1>1, PumpEffect
<1>3. CASE run' = runs
  BY <1>2, <1>3
<1>4. ASSUME NEW i \in Job, run' = [runs EXCEPT ![i].pc = "load"]
      PROVE  RunsFit(run')
  BY <1>1, <1>4, LoadingType DEF RunsFit
<1> QED
  BY <1>1, <1>2, <1>3, <1>4, PumpEffect

LEMMA ReturnsFits ==
  ASSUME TypeOK, RunsFit(run), NEW j \in Job, RunReturns(j)
  PROVE  /\ RunsFit(run') /\ waitQueue' \in Seq(Job)
         /\ active' \subseteq Job /\ aborted' \subseteq active'
<1>1. RunsFit([run EXCEPT ![j] = IdleRun])
  BY IdleRunType DEF RunsFit, IdleRun
<1>2. waitQueue \in Seq(Job) /\ active \subseteq Job /\ aborted \subseteq active
  BY DEF TypeOK
<1> QED
  BY <1>1, <1>2, PumpFits DEF RunReturns

LEMMA GotoFits ==
  ASSUME RunsFit(run), NEW j \in Job,
         NEW next \in {"claim", "starting", "dropping", "scenario", "record",
                       "recording", "check-run", "ending"},
         next \in {"record", "recording", "check-run", "ending"} =>
           run[j].status \in RunStatus,
         RunGoto(j, next)
  PROVE  RunsFit(run')
BY DEF RunsFit, RunGoto, RunState

LEMMA PatchType ==
  ASSUME TypeOK, NEW j \in Job, NEW to \in {"running", "progress", "dropped"} \cup Terminal,
         NEW written \in BOOLEAN, AddPatch(j, to, written)
  PROVE  /\ patches' \in [Job -> Seq(Patch)]
         /\ \A i \in Job : patches[i] # <<>> => patches'[i] # <<>>
<1>1. [to |-> to, written |-> written] \in Patch
  BY DEF Patch
<1>2. patches \in [Job -> Seq(Patch)]
  BY DEF TypeOK
<1>3. Append(patches[j], [to |-> to, written |-> written]) \in Seq(Patch) \ {<<>>}
  BY <1>1, <1>2
<1> QED
  BY <1>2, <1>3 DEF AddPatch

-----------------------------------------------------------------------------
(* Types: the steps of the worker. *)

LEMMA FitsRun == ASSUME TypeInv PROVE RunsFit(run)
BY DEF TypeInv, TypeOK, Fits, RunsFit

(* What a step of the worker has to keep. *)
LEMMA WorkerFits ==
  ASSUME TypeInv, RunsFit(run'), runFile' \in [Job -> RunStatus \cup {"none", "empty"}],
         waitQueue' \in Seq(Job), pending' \subseteq Job, active' \subseteq Job,
         aborted' \subseteq active', patches' \in [Job -> Seq(Patch)],
         \A i \in Job : patches[i] # <<>> => patches'[i] # <<>>,
         UNCHANGED <<jobFile, patcher, requests, host>>
  PROVE  TypeInv'
<1>1. TypeOK'
  BY DEF TypeInv, TypeOK, RunsFit, requests, host
<1>2. Fits'
  BY DEF TypeInv, Fits, RunsFit, requests
<1> QED
  BY <1>1, <1>2 DEF TypeInv

LEMMA StatusType == \A status \in RunStatus : JobStatusOf(status) \in Terminal
BY DEF RunStatus, JobStatusOf, Terminal

LEMMA FinishType ==
  ASSUME TypeInv, NEW j \in Job, NEW written \in BOOLEAN, Finish(j, written),
         run[j].status \in RunStatus
  PROVE  /\ RunsFit(run') /\ patches' \in [Job -> Seq(Patch)]
         /\ \A i \in Job : patches[i] # <<>> => patches'[i] # <<>>
<1>1. RunsFit(run')
  BY FitsRun, GotoFits DEF Finish
<1>2. JobStatusOf(run[j].status) \in Terminal
  BY StatusType
<1> QED
  BY <1>1, <1>2, PatchType DEF Finish, TypeInv

(* The catch of runOne(): the run counts as failed, or cancelled. *)
LEMMA CatchFits ==
  ASSUME TypeInv, NEW j \in Job,
         run' = [run EXCEPT ![j].pc = "check-run", ![j].caught = TRUE,
                            ![j].status = Observed(j, "failed")]
  PROVE  RunsFit(run')
<1> DEFINE caught == [run[j] EXCEPT !.pc = "check-run", !.caught = TRUE,
                                   !.status = Observed(j, "failed")]
<1>1. RunsFit(run) /\ run[j] \in RunState
  BY FitsRun DEF RunsFit
<1>2. Observed(j, "failed") \in RunStatus
  BY DEF Observed, RunStatus
<1>3. caught \in RunState /\ caught.status \in RunStatus
  BY <1>1, <1>2 DEF RunState
<1>4. run' = [run EXCEPT ![j] = caught]
  BY <1>1 DEF RunsFit
<1> QED
  BY <1>1, <1>3, <1>4 DEF RunsFit

LEMMA WorkerType == ASSUME TypeInv, NEW j \in Job, Worker(j) PROVE TypeInv'
<1> USE DEF files
<1>0. /\ TypeOK /\ RunsFit(run) /\ waitQueue \in Seq(Job)
      /\ pending \subseteq Job /\ active \subseteq Job /\ aborted \subseteq active
      /\ patches \in [Job -> Seq(Patch)]
      /\ runFile \in [Job -> RunStatus \cup {"none", "empty"}]
  BY FitsRun DEF TypeInv, TypeOK
<1>1. CASE RunLoad(j)
  <2>1. CASE Load(j) = None \/ IsTerminal(Load(j))
    BY <1>0, <1>1, <2>1, ReturnsFits, WorkerFits DEF RunLoad
  <2>2. CASE ~(Load(j) = None \/ IsTerminal(Load(j)))
    BY <1>0, <1>1, <2>2, GotoFits, WorkerFits DEF RunLoad
  <2> QED
    BY <2>1, <2>2
<1>2. CASE RunClaim(j)
  <2>1. CASE j \in pending
    BY <1>0, <1>2, <2>1, GotoFits, PatchType, WorkerFits DEF RunClaim
  <2>2. CASE j \notin pending
    BY <1>0, <1>2, <2>2, GotoFits, PatchType, WorkerFits DEF RunClaim
  <2> QED
    BY <2>1, <2>2
<1>3. CASE RunDrop(j)
  BY <1>0, <1>3, ReturnsFits, WorkerFits DEF RunDrop
<1>4. CASE RunScenario(j)
  BY <1>0, <1>4, GotoFits, WorkerFits DEF RunScenario
<1>5. CASE RunStep(j)
  <2> DEFINE stepped == [run[j] EXCEPT !.phase = @ + 1]
  <2>1. run' = [run EXCEPT ![j] = stepped] /\ run[j] \in RunState
    BY <1>0, <1>5 DEF RunStep, RunsFit
  <2>2. stepped \in RunState /\ stepped.pc = "scenario"
    BY <1>5, <2>1, JobAssumption DEF RunStep, RunState
  <2>3. RunsFit(run')
    BY <1>0, <2>1, <2>2 DEF RunsFit
  <2> QED
    BY <1>0, <1>5, <2>3, PatchType, WorkerFits DEF RunStep
<1>6. CASE RunReport(j)
  <2> PICK status \in {"passed", "failed"} :
        run' = [run EXCEPT ![j].pc = "record", ![j].status = Observed(j, status)]
    BY <1>6 DEF RunReport
  <2> DEFINE reported == [run[j] EXCEPT !.pc = "record", !.status = Observed(j, status)]
  <2>2. Observed(j, status) \in RunStatus
    BY DEF Observed, RunStatus
  <2>3. run[j] \in RunState /\ run' = [run EXCEPT ![j] = reported]
    BY <1>0 DEF RunsFit
  <2>4. reported \in RunState /\ reported.status \in RunStatus
    BY <2>2, <2>3 DEF RunState
  <2>1. RunsFit(run')
    BY <1>0, <2>3, <2>4 DEF RunsFit
  <2> QED
    BY <1>0, <1>6, <2>1, WorkerFits DEF RunReport
<1>7. CASE RunThrows(j)
  <2>1. RunsFit(run')
    BY <1>7, CatchFits DEF RunThrows
  <2> QED
    BY <1>0, <1>7, <2>1, WorkerFits DEF RunThrows
<1>8. CASE RunRecord(j)
  <2>0. run[j].status \in RunStatus
    BY <1>0, <1>8 DEF RunRecord, RunsFit
  <2>1. CASE RunMayBeRecorded(j)
    BY <1>0, <1>8, <2>0, <2>1, GotoFits, OpenRunType, WorkerFits DEF RunRecord
  <2>2. CASE ~RunMayBeRecorded(j) /\ ~run[j].caught
    BY <1>0, <1>8, <2>2, CatchFits, WorkerFits DEF RunRecord
  <2>3. CASE ~RunMayBeRecorded(j) /\ run[j].caught
    BY <1>0, <1>8, <2>0, <2>3, FinishType, WorkerFits DEF RunRecord
  <2> QED
    BY <2>1, <2>2, <2>3
<1>9. CASE RunCheck(j)
  <2>0. run[j].status \in RunStatus
    BY <1>0, <1>9 DEF RunCheck, RunsFit
  <2>1. CASE RunRecorded(j)
    BY <1>0, <1>9, <2>0, <2>1, FinishType, WorkerFits DEF RunCheck
  <2>2. CASE ~RunRecorded(j)
    BY <1>0, <1>9, <2>0, <2>2, GotoFits, WorkerFits DEF RunCheck
  <2> QED
    BY <2>1, <2>2
<1>10. CASE RunRecording(j)
  <2>0. run[j].status \in RunStatus
    BY <1>0, <1>10 DEF RunRecording, RunsFit
  <2> QED
    BY <1>0, <1>10, <2>0, FinishType, WriteRunType, WorkerFits DEF RunRecording
<1>11. CASE RunEnd(j)
  BY <1>0, <1>11, ReturnsFits, WorkerFits DEF RunEnd
<1> QED
  BY <1>1, <1>2, <1>3, <1>4, <1>5, <1>6, <1>7, <1>8, <1>9, <1>10, <1>11 DEF Worker

-----------------------------------------------------------------------------
(* Types: the steps of patch(). *)

LEMMA UpdatedType ==
  ASSUME NEW patch \in Patch, NEW job \in JobRecord,
         patch.to \in Terminal => patch.to \notin {"running", "progress", "dropped"}
  PROVE  Updated(patch, job) \in JobRecord
BY DEF Updated, Patch, JobRecord, JobStatus, Terminal, IsTerminal

LEMMA PatcherFits ==
  ASSUME TypeInv, NEW j \in Job,
         jobFile' \in [Job -> JobRecord \cup Unreadable],
         patches' \in [Job -> Seq(Patch)],
         \A i \in Job \ {j} : patches'[i] = patches[i] /\ patcher'[i] = patcher[i],
         patcher' \in [Job -> [pc : {"load", "open", "write"},
                               record : JobRecord \cup {None}]],
         patcher'[j].pc # "load" => patcher'[j].record \in JobRecord /\ patches'[j] # <<>>,
         UNCHANGED <<runFile, requests, host, waitQueue, pending, active, aborted, run>>
  PROVE  TypeInv'
<1>1. TypeOK'
  BY DEF TypeInv, TypeOK, requests, host
<1>2. Fits'
  BY DEF TypeInv, Fits, requests
<1> QED
  BY <1>1, <1>2 DEF TypeInv

LEMMA PatchDoneType ==
  ASSUME TypeOK, NEW j \in Job, patches[j] # <<>>, PatchDone(j)
  PROVE  /\ patches' \in [Job -> Seq(Patch)]
         /\ patcher' \in [Job -> [pc : {"load", "open", "write"},
                                  record : JobRecord \cup {None}]]
         /\ \A i \in Job \ {j} : patches'[i] = patches[i] /\ patcher'[i] = patcher[i]
         /\ patcher'[j].pc = "load"
<1>1. Tail(patches[j]) \in Seq(Patch)
  BY DEF TypeOK
<1> QED
  BY <1>1 DEF TypeOK, PatchDone, IdlePatcher

LEMMA PatcherType == ASSUME TypeInv, NEW j \in Job, Patcher(j) PROVE TypeInv'
<1> USE DEF files
<1>0. /\ TypeOK /\ patches \in [Job -> Seq(Patch)]
      /\ jobFile \in [Job -> JobRecord \cup Unreadable]
      /\ patcher \in [Job -> [pc : {"load", "open", "write"},
                              record : JobRecord \cup {None}]]
      /\ patcher[j].pc # "load" => patcher[j].record \in JobRecord /\ patches[j] # <<>>
  BY DEF TypeInv, TypeOK, Fits
<1>1. CASE PatchLoad(j)
  <2> DEFINE next == Updated(Head(patches[j]), Load(j))
  <2>1. CASE Load(j) = None \/ Revives(next, Load(j))
    BY <1>0, <1>1, <2>1, PatchDoneType, PatcherFits DEF PatchLoad
  <2>2. CASE ~(Load(j) = None \/ Revives(next, Load(j)))
    <3>1. Head(patches[j]) \in Patch
      BY <1>0, <1>1 DEF PatchLoad
    <3>2. Load(j) \in JobRecord
      BY <1>0, <2>2, LoadType
    <3>3. next \in JobRecord
      BY <3>1, <3>2, UpdatedType DEF Terminal
    <3>4. /\ patcher' = [patcher EXCEPT ![j] = [pc |-> "open", record |-> next]]
          /\ UNCHANGED patches /\ patches[j] # <<>>
      BY <1>1, <2>2 DEF PatchLoad
    <3>5. patcher' \in [Job -> [pc : {"load", "open", "write"},
                                record : JobRecord \cup {None}]]
      BY <1>0, <3>3, <3>4
    <3> HIDE DEF next
    <3> QED
      BY <1>0, <1>1, <3>3, <3>4, <3>5, PatcherFits DEF PatchLoad
  <2> QED
    BY <2>1, <2>2
<1>2. CASE PatchOpen(j)
  BY <1>0, <1>2, OpenType, PatcherFits DEF PatchOpen
<1>3. CASE PatchWrite(j)
  BY <1>0, <1>3, WriteType, PatchDoneType, PatcherFits DEF PatchWrite
<1> QED
  BY <1>1, <1>2, <1>3 DEF Patcher

-----------------------------------------------------------------------------
(* Types: the steps of the requests. *)

LEMMA EnqueuerFits ==
  ASSUME TypeInv, NEW e \in Enqueuer,
         jobFile' \in [Job -> JobRecord \cup Unreadable], RunsFit(run'),
         waitQueue' \in Seq(Job), pending' \subseteq Job,
         enqueuer' \in [Enqueuer -> EnqueuerState], enqueuer'[e].job \in Job,
         \A d \in Enqueuer \ {e} : enqueuer'[d] = enqueuer[d],
         UNCHANGED <<runFile, host, canceller, active, aborted, patches, patcher>>
  PROVE  TypeInv'
<1>1. TypeOK'
  BY DEF TypeInv, TypeOK, RunsFit, host
<1>2. Fits'
  BY DEF TypeInv, Fits, RunsFit
<1> QED
  BY <1>1, <1>2 DEF TypeInv

LEMMA EnqueuerGotoType ==
  ASSUME TypeInv, NEW e \in Enqueuer, enqueuer[e].pc # "idle",
         NEW next \in {"check-run", "check-job", "accept", "open", "write", "push",
                       "accepted", "refused", "lost"},
         EnqueuerGoto(e, next)
  PROVE  /\ enqueuer' \in [Enqueuer -> EnqueuerState] /\ enqueuer'[e].job \in Job
         /\ \A d \in Enqueuer \ {e} : enqueuer'[d] = enqueuer[d]
<1>1. enqueuer \in [Enqueuer -> EnqueuerState] /\ enqueuer[e].job \in Job
  BY DEF TypeInv, TypeOK, Fits
<1>2. enqueuer' = [enqueuer EXCEPT ![e].pc = next]
  BY DEF EnqueuerGoto
<1>3. [enqueuer[e] EXCEPT !.pc = next] \in EnqueuerState
  BY <1>1 DEF EnqueuerState
<1>4. enqueuer' \in [Enqueuer -> EnqueuerState]
  BY <1>1, <1>2, <1>3
<1>5. enqueuer'[e].job = enqueuer[e].job
  BY <1>1, <1>2 DEF EnqueuerState
<1> QED
  BY <1>1, <1>2, <1>4, <1>5

LEMMA EnqueuerType ==
  ASSUME TypeInv, NEW e \in Enqueuer, (\E j \in Job : Enqueue(e, j)) \/ Enqueues(e)
  PROVE  TypeInv'
<1> USE DEF files, memory
<1>0. /\ TypeOK /\ RunsFit(run) /\ waitQueue \in Seq(Job) /\ pending \subseteq Job
      /\ jobFile \in [Job -> JobRecord \cup Unreadable]
      /\ enqueuer \in [Enqueuer -> EnqueuerState]
      /\ enqueuer[e].pc # "idle" => enqueuer[e].job \in Job
  BY FitsRun DEF TypeInv, TypeOK, Fits
<1>1. ASSUME NEW j \in Job, Enqueue(e, j) PROVE TypeInv'
  BY <1>0, <1>1, EnqueuerFits DEF Enqueue, EnqueuerState
<1>2. CASE EnqueueCheckRun(e)
  BY <1>0, <1>2, EnqueuerGotoType, EnqueuerFits DEF EnqueueCheckRun
<1>3. CASE EnqueueCheckJob(e)
  BY <1>0, <1>3, EnqueuerGotoType, EnqueuerFits DEF EnqueueCheckJob
<1>4. CASE EnqueueAccept(e)
  BY <1>0, <1>4, EnqueuerGotoType, EnqueuerFits DEF EnqueueAccept
<1>5. CASE EnqueueOpen(e)
  BY <1>0, <1>5, EnqueuerGotoType, OpenType, EnqueuerFits DEF EnqueueOpen
<1>6. CASE EnqueueWrite(e)
  <2>1. [status |-> "queued", runRecordWritten |-> FALSE] \in JobRecord
    BY DEF JobRecord, JobStatus
  <2> QED
    BY <1>0, <1>6, <2>1, EnqueuerGotoType, WriteType, EnqueuerFits DEF EnqueueWrite
<1>7. CASE EnqueuePush(e)
  <2>1. Append(waitQueue, enqueuer[e].job) \in Seq(Job)
    BY <1>0, <1>7 DEF EnqueuePush
  <2>2. RunsFit(run') /\ waitQueue' \in Seq(Job)
    BY <1>0, <1>7, <2>1, PumpFits DEF EnqueuePush
  <2> QED
    BY <1>0, <1>7, <2>2, EnqueuerGotoType, EnqueuerFits DEF EnqueuePush
<1> QED
  BY <1>1, <1>2, <1>3, <1>4, <1>5, <1>6, <1>7 DEF Enqueues

LEMMA CancellerFits ==
  ASSUME TypeInv, NEW c \in Canceller,
         jobFile' \in [Job -> JobRecord \cup Unreadable],
         runFile' \in [Job -> RunStatus \cup {"none", "empty"}],
         waitQueue' \in Seq(Job), pending' \subseteq Job, aborted' \subseteq active,
         canceller' \in [Canceller -> CancellerState], canceller'[c].job \in Job,
         canceller'[c].pc \notin {"idle", "done", "lost"} =>
           canceller'[c].record \in JobRecord,
         \A d \in Canceller \ {c} : canceller'[d] = canceller[d],
         UNCHANGED <<host, enqueuer, active, run, patches, patcher>>
  PROVE  TypeInv'
<1>1. TypeOK'
  BY DEF TypeInv, TypeOK, host
<1>2. Fits'
  BY DEF TypeInv, Fits
<1> QED
  BY <1>1, <1>2 DEF TypeInv

(* A canceller under way moves on with another record. *)
LEMMA CancellerMoves ==
  ASSUME TypeInv, NEW c \in Canceller, canceller[c].pc \notin {"idle", "done", "lost"},
         NEW next \in {"check-run", "record", "recording", "recheck", "open", "write"},
         NEW record \in JobRecord,
         canceller' = [canceller EXCEPT ![c] = [@ EXCEPT !.pc = next, !.record = record]]
  PROVE  /\ canceller' \in [Canceller -> CancellerState] /\ canceller'[c].job \in Job
         /\ canceller'[c].record \in JobRecord
         /\ \A d \in Canceller \ {c} : canceller'[d] = canceller[d]
<1> DEFINE moved == [canceller[c] EXCEPT !.pc = next, !.record = record]
<1>1. /\ canceller \in [Canceller -> CancellerState] /\ canceller[c] \in CancellerState
      /\ canceller[c].job \in Job
  BY DEF TypeInv, TypeOK, Fits
<1>2. moved \in CancellerState /\ moved.job \in Job /\ moved.record \in JobRecord
  BY <1>1 DEF CancellerState
<1>3. canceller' = [canceller EXCEPT ![c] = moved]
  OBVIOUS
<1> HIDE DEF moved
<1> QED
  BY <1>1, <1>2, <1>3

LEMMA CancellerGotoType ==
  ASSUME TypeInv, NEW c \in Canceller, canceller[c].pc \notin {"idle", "done", "lost"},
         NEW next \in {"check-run", "record", "recording", "recheck", "open", "write"},
         CancellerGoto(c, next)
  PROVE  /\ canceller' \in [Canceller -> CancellerState] /\ canceller'[c].job \in Job
         /\ canceller'[c].record \in JobRecord
         /\ \A d \in Canceller \ {c} : canceller'[d] = canceller[d]
<1> DEFINE moved == [canceller[c] EXCEPT !.pc = next]
<1>1. /\ canceller \in [Canceller -> CancellerState] /\ canceller[c] \in CancellerState
      /\ canceller[c].job \in Job /\ canceller[c].record \in JobRecord
  BY DEF TypeInv, TypeOK, Fits
<1>2. moved \in CancellerState /\ moved.job \in Job /\ moved.record \in JobRecord
  BY <1>1 DEF CancellerState
<1>3. canceller' = [canceller EXCEPT ![c] = moved]
  BY DEF CancellerGoto
<1> HIDE DEF moved
<1> QED
  BY <1>1, <1>2, <1>3

LEMMA CancelKeepIsMove ==
  ASSUME TypeInv, NEW c \in Canceller, NEW written \in BOOLEAN,
         canceller[c].record \in JobRecord, CancelKeep(c, written)
  PROVE  /\ [canceller[c].record EXCEPT !.runRecordWritten = written] \in JobRecord
         /\ canceller' = [canceller EXCEPT ![c] = [@ EXCEPT !.pc = "open",
              !.record = [canceller[c].record EXCEPT !.runRecordWritten = written]]]
BY DEF TypeInv, TypeOK, CancelKeep, CancellerState, JobRecord

LEMMA WithdrawType ==
  ASSUME waitQueue \in Seq(Job), NEW j, Withdraw(j)
  PROVE  waitQueue' \in Seq(Job)
<1>1. ASSUME NEW n \in 1 .. Len(waitQueue)
      PROVE  RemoveAt(waitQueue, n) \in Seq(Job)
  <2>1. SubSeq(waitQueue, 1, n - 1) \in Seq(Job)
    OBVIOUS
  <2>2. SubSeq(waitQueue, n + 1, Len(waitQueue)) \in Seq(Job)
    OBVIOUS
  <2> QED
    BY <2>1, <2>2 DEF RemoveAt
<1> QED
  BY <1>1 DEF Withdraw

LEMMA CancellerType ==
  ASSUME TypeInv, NEW c \in Canceller, (\E j \in Job : Cancel(c, j)) \/ Cancels(c)
  PROVE  TypeInv'
<1> USE DEF files, memory
<1>0. /\ TypeOK /\ waitQueue \in Seq(Job) /\ pending \subseteq Job
      /\ active \subseteq Job /\ aborted \subseteq active
      /\ jobFile \in [Job -> JobRecord \cup Unreadable]
      /\ runFile \in [Job -> RunStatus \cup {"none", "empty"}]
      /\ canceller \in [Canceller -> CancellerState]
      /\ canceller[c].pc # "idle" => canceller[c].job \in Job
      /\ canceller[c].pc \notin {"idle", "done", "lost"} =>
           canceller[c].record \in JobRecord
  BY DEF TypeInv, TypeOK, Fits
<1>1. ASSUME NEW j \in Job, Cancel(c, j) PROVE TypeInv'
  <2>1. Load(j) \in JobRecord \cup {None}
    BY <1>0, LoadType
  <2> DEFINE outcome == CASE Load(j) = None -> "unknown"
                          [] IsTerminal(Load(j)) -> "already-terminal"
                          [] OTHER -> "none"
             next == [pc |-> IF outcome = "none" THEN "decide" ELSE "done",
                      job |-> j, record |-> Load(j), outcome |-> outcome]
  <2>2. /\ outcome \in {"none", "unknown", "already-terminal"}
        /\ outcome = "none" => Load(j) \in JobRecord
    BY <2>1
  <2>3. canceller' = [canceller EXCEPT ![c] = next]
    BY <1>1 DEF Cancel
  <2> HIDE DEF outcome
  <2>4. next \in CancellerState
    BY <2>1, <2>2 DEF CancellerState
  <2>5. /\ canceller' \in [Canceller -> CancellerState] /\ canceller'[c] = next
        /\ \A d \in Canceller \ {c} : canceller'[d] = canceller[d]
    BY <1>0, <2>3, <2>4
  <2> QED
    BY <1>0, <1>1, <2>2, <2>5, CancellerFits DEF Cancel
<1>2. CASE CancelQueued(c)
  <2> DEFINE record == [canceller[c].record EXCEPT !.status = "cancelled"]
  <2>1. record \in JobRecord
    BY <1>0, <1>2 DEF CancelQueued, JobRecord, JobStatus, Terminal
  <2>2. canceller' = [canceller EXCEPT ![c] = [@ EXCEPT !.pc = "check-run",
                                                        !.record = record]]
    BY <1>0, <1>2 DEF CancelQueued, CancellerState
  <2>3. waitQueue' \in Seq(Job)
    BY <1>0, <1>2, WithdrawType DEF CancelQueued
  <2> HIDE DEF record
  <2> QED
    BY <1>0, <1>2, <2>1, <2>2, <2>3, CancellerMoves, CancellerFits DEF CancelQueued
<1>3. CASE CancelRunning(c)
  <2> DEFINE record == [canceller[c].record EXCEPT !.status = "cancelling"]
  <2>1. record \in JobRecord
    BY <1>0, <1>3 DEF CancelRunning, JobRecord, JobStatus
  <2>2. canceller' = [canceller EXCEPT ![c] = [@ EXCEPT !.pc = "open",
                                                        !.record = record]]
    BY <1>0, <1>3 DEF CancelRunning, CancellerState
  <2> HIDE DEF record
  <2> QED
    BY <1>0, <1>3, <2>1, <2>2, CancellerMoves, CancellerFits DEF CancelRunning
<1>4. CASE CancelCheckRun(c)
  <2>1. CASE RunRecorded(canceller[c].job)
    BY <1>0, <1>4, <2>1, CancelKeepIsMove, CancellerMoves, CancellerFits
       DEF CancelCheckRun
  <2>2. CASE ~RunRecorded(canceller[c].job)
    BY <1>0, <1>4, <2>2, CancellerGotoType, CancellerFits
       DEF CancelCheckRun
  <2> QED
    BY <2>1, <2>2
<1>5. CASE CancelRecord(c)
  <2>1. CASE RunMayBeRecorded(canceller[c].job)
    BY <1>0, <1>5, <2>1, OpenRunType, CancellerGotoType, CancellerFits
       DEF CancelRecord
  <2>2. CASE ~RunMayBeRecorded(canceller[c].job)
    BY <1>0, <1>5, <2>2, CancellerGotoType, CancellerFits
       DEF CancelRecord
  <2> QED
    BY <2>1, <2>2
<1>6. CASE CancelRecording(c)
  <2>1. "cancelled" \in RunStatus
    BY DEF RunStatus
  <2> QED
    BY <1>0, <1>6, <2>1, WriteRunType, CancelKeepIsMove, CancellerMoves, CancellerFits
       DEF CancelRecording
<1>7. CASE CancelRecheck(c)
  <2> DEFINE written == RunRecorded(canceller[c].job)
  <2>1. written \in BOOLEAN
    BY DEF RunRecorded
  <2>2. /\ canceller[c].record \in JobRecord /\ canceller[c].pc = "recheck"
        /\ CancelKeep(c, written)
    BY <1>0, <1>7 DEF CancelRecheck
  <2> HIDE DEF written
  <2> DEFINE kept == [canceller[c].record EXCEPT !.runRecordWritten = written]
  <2>3. /\ kept \in JobRecord
        /\ canceller' = [canceller EXCEPT ![c] = [@ EXCEPT !.pc = "open",
                                                            !.record = kept]]
    BY <2>1, <2>2, CancelKeepIsMove
  <2> HIDE DEF kept
  <2> QED
    BY <1>0, <1>7, <2>2, <2>3, CancellerMoves, CancellerFits DEF CancelRecheck
<1>8. CASE CancelOpen(c)
  BY <1>0, <1>8, OpenType, CancellerGotoType, CancellerFits
     DEF CancelOpen
<1>9. CASE CancelWrite(c)
  <2>1. jobFile' \in [Job -> JobRecord \cup Unreadable]
    BY <1>0, <1>9, WriteType DEF CancelWrite
  <2> DEFINE outcome == IF canceller[c].record.status = "cancelled"
                        THEN "cancelled" ELSE "cancel-requested"
             next == [canceller[c] EXCEPT !.pc = "done", !.outcome = outcome]
  <2>2. canceller' = [canceller EXCEPT ![c] = next]
    BY <1>0, <1>9 DEF CancelWrite
  <2>3. next \in CancellerState /\ next.pc = "done" /\ next.job = canceller[c].job
    BY <1>0 DEF CancellerState
  <2> HIDE DEF next
  <2>4. /\ canceller' \in [Canceller -> CancellerState] /\ canceller'[c] = next
        /\ \A d \in Canceller \ {c} : canceller'[d] = canceller[d]
    BY <1>0, <2>2, <2>3
  <2>5. next.job \in Job
    BY <1>0, <1>9, <2>3 DEF CancelWrite
  <2>6. /\ runFile' = runFile /\ waitQueue' = waitQueue /\ pending' = pending
        /\ aborted' = aborted
        /\ UNCHANGED <<host, enqueuer, active, run, patches, patcher>>
    BY <1>9 DEF CancelWrite
  <2> QED
    BY <1>0, <2>1, <2>3, <2>4, <2>5, <2>6, CancellerFits
<1> QED
  BY <1>1, <1>2, <1>3, <1>4, <1>5, <1>6, <1>7, <1>8, <1>9 DEF Cancels

-----------------------------------------------------------------------------
(* Types: recovery, death, and the theorem. *)

LEMMA RecoverFits ==
  ASSUME TypeInv, jobFile' \in [Job -> JobRecord \cup Unreadable],
         recovery' \in [job : Job, record : JobRecord] \cup {None},
         server' \in {"up", "recovering"},
         UNCHANGED <<runFile, memory, requests, crashes>>
  PROVE  TypeInv'
<1>1. TypeOK'
  BY DEF TypeInv, TypeOK, memory, requests
<1>2. Fits'
  BY DEF TypeInv, Fits, memory, requests
<1> QED
  BY <1>1, <1>2 DEF TypeInv

LEMMA RecoversType == ASSUME TypeInv, Recovers PROVE TypeInv'
<1>0. /\ TypeOK /\ jobFile \in [Job -> JobRecord \cup Unreadable]
      /\ recovery \in [job : Job, record : JobRecord] \cup {None}
      /\ server \in {"up", "recovering"}
  BY DEF TypeInv, TypeOK
<1>1. ASSUME NEW j \in Job, RecoverOpen(j) PROVE TypeInv'
  <2>1. jobFile[j] \in JobRecord
    BY <1>0, <1>1, LoadType DEF RecoverOpen, Unfinished
  <2>2. [jobFile[j] EXCEPT !.status = "interrupted"] \in JobRecord
    BY <2>1 DEF JobRecord, JobStatus, Terminal
  <2> QED
    BY <1>0, <1>1, <2>2, OpenType, RecoverFits DEF RecoverOpen
<1>2. CASE RecoverWrite
  <2>1. recovery.job \in Job /\ recovery.record \in JobRecord
    BY <1>0, <1>2 DEF RecoverWrite
  <2> QED
    BY <1>0, <1>2, <2>1, WriteType, RecoverFits DEF RecoverWrite
<1>3. CASE Serve
  BY <1>0, <1>3, RecoverFits DEF Serve, files
<1> QED
  BY <1>1, <1>2, <1>3 DEF Recovers

LEMMA CrashType == ASSUME TypeInv, Crash PROVE TypeInv'
<1>1. jobFile \in [Job -> JobRecord \cup Unreadable] /\ crashes \in 0 .. MaxCrashes
  BY DEF TypeInv, TypeOK
<1>2. crashes' \in 0 .. MaxCrashes
  BY <1>1, JobAssumption DEF Crash
<1>3. enqueuer' \in [Enqueuer -> EnqueuerState]
  BY DEF TypeInv, TypeOK, Crash, EnqueuerState
<1>4. canceller' \in [Canceller -> CancellerState]
  <2>1. canceller' = [c \in Canceller |->
                        IF canceller[c].pc \in {"idle", "done"} THEN canceller[c]
                        ELSE [canceller[c] EXCEPT !.pc = "lost"]]
    BY DEF Crash
  <2>2. ASSUME NEW c \in Canceller
        PROVE  /\ canceller[c] \in CancellerState
               /\ [canceller[c] EXCEPT !.pc = "lost"] \in CancellerState
    <3>1. canceller[c] \in CancellerState
      BY DEF TypeInv, TypeOK
    <3> QED
      BY <3>1 DEF CancellerState
  <2> QED
    BY <2>1, <2>2
<1>5. run' \in [Job -> RunState] /\ patches' \in [Job -> Seq(Patch)]
      /\ patcher' \in [Job -> [pc : {"load", "open", "write"},
                               record : JobRecord \cup {None}]]
  BY IdleRunType DEF Crash, IdlePatcher
<1>6. TypeOK'
  BY <1>2, <1>3, <1>4, <1>5 DEF TypeInv, TypeOK, Crash, files
<1>7. Fits'
  <2>1. \A j \in Job : run'[j].pc = "idle" /\ patcher'[j].pc = "load"
    BY DEF Crash, IdleRun, IdlePatcher
  <2>2. \A e \in Enqueuer : enqueuer'[e].pc # "idle" => enqueuer'[e].job \in Job
    BY DEF TypeInv, TypeOK, Fits, Crash, EnqueuerState
  <2>3. \A c \in Canceller : /\ canceller'[c].pc # "idle" => canceller'[c].job \in Job
                             /\ canceller'[c].pc \in {"idle", "done", "lost"}
    BY DEF TypeInv, TypeOK, Fits, Crash, CancellerState
  <2> QED
    BY <2>1, <2>2, <2>3 DEF Fits
<1> QED
  BY <1>6, <1>7 DEF TypeInv

LEMMA TypeStep == TypeInv /\ [Next]_vars => TypeInv'
<1> SUFFICES ASSUME TypeInv, [Next]_vars PROVE TypeInv'
  OBVIOUS
<1>1. CASE UNCHANGED vars
  BY <1>1 DEF TypeInv, TypeOK, Fits, vars, files, memory, requests, host
<1> QED
  BY <1>1, WorkerType, PatcherType, EnqueuerType, CancellerType, RecoversType, CrashType
     DEF Next

LEMMA InitType == Init => TypeInv
<1> SUFFICES ASSUME Init PROVE TypeInv
  OBVIOUS
<1>1. TypeOK
  BY IdleRunType, JobAssumption
     DEF Init, MemoryInit, TypeOK, IdlePatcher, IdleEnqueuer, IdleCanceller,
         EnqueuerState, CancellerState, Unreadable
<1>2. Fits
  BY DEF Init, MemoryInit, Fits, IdleRun, IdlePatcher, IdleEnqueuer, IdleCanceller
<1> QED
  BY <1>1, <1>2 DEF TypeInv

LEMMA TypeAlways == Spec => []TypeInv
BY InitType, TypeStep, PTL DEF Spec

(* All variables of the runner keep their types, and only active jobs have  *)
(* an aborted signal, whatever requests, failures and deaths interleave.    *)
THEOREM TypeCorrect == Spec => []TypeOK
<1>1. TypeInv => TypeOK
  BY DEF TypeInv
<1> QED
  BY <1>1, TypeAlways, PTL

-----------------------------------------------------------------------------
(* One job at a time. *)

(* A run that goes on, with the others where they were. *)
LEMMA GoesOn ==
  ASSUME OneAtATime, NEW j \in Job, run[j].pc # "idle",
         \A i \in Job \ {j} : run'[i] = run[i]
  PROVE  OneAtATime'
BY DEF OneAtATime

LEMMA PumpsOne ==
  ASSUME NEW runs \in [Job -> RunState], NEW queue \in Seq(Job), NEW busy,
         Pump(runs, queue, busy),
         \A i, k \in Job : runs[i].pc # "idle" /\ runs[k].pc # "idle" => i = k
  PROVE  OneAtATime'
<1>1. CASE run' = runs
  BY <1>1 DEF OneAtATime
<1>2. ASSUME NEW i \in Job, \A k \in Job : runs[k].pc = "idle",
             run' = [runs EXCEPT ![i].pc = "load"]
      PROVE  OneAtATime'
  <2>1. \A k \in Job : k # i => run'[k].pc = "idle"
    BY <1>2
  <2> QED
    BY <2>1 DEF OneAtATime
<1> QED
  BY <1>1, <1>2, PumpEffect

LEMMA ReturnsOne ==
  ASSUME TypeInv, OneAtATime, NEW j \in Job, RunReturns(j)
  PROVE  OneAtATime'
<1> DEFINE runs == [run EXCEPT ![j] = IdleRun]
<1>1. runs \in [Job -> RunState] /\ waitQueue \in Seq(Job)
  BY IdleRunType DEF TypeInv, TypeOK
<1>2. \A i \in Job : runs[i].pc # "idle" => run[i].pc # "idle"
  BY DEF TypeInv, TypeOK, IdleRun
<1>3. \A i, k \in Job : runs[i].pc # "idle" /\ runs[k].pc # "idle" => i = k
  BY <1>2 DEF OneAtATime
<1>4. Pump(runs, waitQueue, active')
  BY DEF RunReturns
<1> HIDE DEF runs
<1> QED
  BY <1>1, <1>3, <1>4, PumpsOne

LEMMA OneStep == TypeInv /\ OneAtATime /\ [Next]_vars => OneAtATime'
<1> SUFFICES ASSUME TypeInv, OneAtATime, [Next]_vars PROVE OneAtATime'
  OBVIOUS
<1>0. run \in [Job -> RunState]
  BY DEF TypeInv, TypeOK
<1>1. ASSUME NEW j \in Job, Worker(j) PROVE OneAtATime'
  <2>1. CASE RunReturns(j)
    BY <2>1, ReturnsOne
  <2>2. CASE ~RunReturns(j)
    <3>1. run[j].pc # "idle"
      BY <1>1 DEF Worker, RunLoad, RunClaim, RunDrop, RunScenario, RunStep, RunReport,
                  BetweenSteps, RunThrows, RunRecord, RunCheck, RunRecording, RunEnd
    <3>2. \A i \in Job \ {j} : run'[i] = run[i]
      BY <1>0, <1>1, <2>2
         DEF Worker, RunLoad, RunClaim, RunDrop, RunScenario, RunStep, RunReport,
             RunThrows, RunRecord, RunCheck, RunRecording, RunEnd, RunGoto, Finish
    <3> QED
      BY <3>1, <3>2, GoesOn
  <2> QED
    BY <2>1, <2>2
<1>2. ASSUME NEW e \in Enqueuer, EnqueuePush(e) PROVE OneAtATime'
  <2>1. Append(waitQueue, enqueuer[e].job) \in Seq(Job)
    BY <1>2 DEF TypeInv, TypeOK, Fits, EnqueuePush
  <2>2. \A i, k \in Job : run[i].pc # "idle" /\ run[k].pc # "idle" => i = k
    BY DEF OneAtATime
  <2> QED
    BY <1>0, <1>2, <2>1, <2>2, PumpsOne DEF EnqueuePush
<1>3. CASE Crash
  BY <1>3 DEF Crash, OneAtATime, IdleRun
<1>4. CASE run' = run
  BY <1>4 DEF OneAtATime
<1>5. ASSUME NEW j \in Job, Patcher(j) PROVE run' = run
  BY <1>5 DEF Patcher, PatchLoad, PatchOpen, PatchWrite
<1>6. ASSUME NEW e \in Enqueuer, (\E j \in Job : Enqueue(e, j)) \/ Enqueues(e)
      PROVE  EnqueuePush(e) \/ run' = run
  BY <1>6 DEF Enqueue, Enqueues, EnqueueCheckRun, EnqueueCheckJob, EnqueueAccept,
              EnqueueOpen, EnqueueWrite, memory
<1>7. ASSUME NEW c \in Canceller, (\E j \in Job : Cancel(c, j)) \/ Cancels(c)
      PROVE  run' = run
  BY <1>7 DEF Cancel, Cancels, CancelQueued, CancelRunning, CancelCheckRun, CancelRecord,
              CancelRecording, CancelRecheck, CancelOpen, CancelWrite, memory
<1>8. CASE Recovers \/ UNCHANGED vars
  BY <1>4, <1>8 DEF Recovers, RecoverOpen, RecoverWrite, Serve, memory, vars
<1> QED
  BY <1>1, <1>2, <1>3, <1>4, <1>5, <1>6, <1>7, <1>8 DEF Next

(* For any number of jobs, requests and deaths the pump runs at most one    *)
(* job at a time.                                                           *)
THEOREM OneRunAtATime == Spec => []OneAtATime
<1>1. Init => OneAtATime
  BY DEF Init, MemoryInit, OneAtATime, IdleRun
<1> QED
  BY <1>1, OneStep, TypeAlways, PTL DEF Spec

-----------------------------------------------------------------------------
(* The record of a run. *)

(* Who writes the record of a run created its file, and is the only one.    *)
OneRecorder ==
  /\ \A j \in Job : run[j].pc = "recording" =>
       /\ runFile[j] = "empty"
       /\ \A c \in Canceller : canceller[c].pc = "recording" => canceller[c].job # j
  /\ \A c \in Canceller : canceller[c].pc = "recording" =>
       /\ runFile[canceller[c].job] = "empty"
       /\ \A d \in Canceller :
            canceller[d].pc = "recording" /\ canceller[d].job = canceller[c].job => d = c

(* No step but those of a recorder concerns run files. *)
LEMMA NoRecorderSteps ==
  ASSUME OneRecorder, runFile' = runFile,
         \A j \in Job : run'[j].pc = "recording" => run[j].pc = "recording",
         \A c \in Canceller : canceller'[c].pc = "recording" =>
           canceller[c].pc = "recording" /\ canceller'[c].job = canceller[c].job
  PROVE  OneRecorder'
BY DEF OneRecorder

(* The pump starts no recording. *)
LEMMA PumpRecordsNothing ==
  ASSUME NEW runs \in [Job -> RunState], NEW queue \in Seq(Job), NEW busy,
         Pump(runs, queue, busy)
  PROVE  \A j \in Job : run'[j].pc = "recording" => runs[j].pc = "recording"
<1>1. ASSUME NEW i \in Job, run' = [runs EXCEPT ![i].pc = "load"], NEW j \in Job,
             run'[j].pc = "recording"
      PROVE  runs[j].pc = "recording"
  BY <1>1 DEF RunState
<1> QED
  BY <1>1, PumpEffect

LEMMA ReturnsRecordNothing ==
  ASSUME TypeInv, NEW j \in Job, RunReturns(j)
  PROVE  \A i \in Job : run'[i].pc = "recording" => run[i].pc = "recording"
<1> DEFINE runs == [run EXCEPT ![j] = IdleRun]
<1>1. runs \in [Job -> RunState] /\ waitQueue \in Seq(Job) /\ run \in [Job -> RunState]
  BY IdleRunType DEF TypeInv, TypeOK
<1>2. \A i \in Job : runs[i].pc = "recording" => run[i].pc = "recording"
  BY <1>1 DEF IdleRun
<1>3. Pump(runs, waitQueue, active')
  BY DEF RunReturns
<1> HIDE DEF runs
<1> QED
  BY <1>1, <1>2, <1>3, PumpRecordsNothing

LEMMA RecorderWorker ==
  ASSUME TypeInv, OneRecorder, NEW j \in Job, Worker(j)
  PROVE  OneRecorder'
<1>0. run \in [Job -> RunState]
  BY DEF TypeInv, TypeOK
<1>1. CASE RunReturns(j) /\ (RunLoad(j) \/ RunDrop(j) \/ RunEnd(j))
  BY <1>1, ReturnsRecordNothing, NoRecorderSteps
     DEF RunLoad, RunDrop, RunEnd, files, requests
<1>2. CASE RunRecord(j) /\ RunMayBeRecorded(j)
  <2>1. runFile[j] = "none" /\ runFile' = [runFile EXCEPT ![j] = "empty"]
    BY <1>2 DEF RunRecord, RunMayBeRecorded, OpenRun
  <2>2. /\ run' = [run EXCEPT ![j].pc = "recording"] /\ canceller' = canceller
    BY <1>2 DEF RunRecord, RunGoto, requests
  <2> QED
    BY <1>0, <2>1, <2>2 DEF OneRecorder, TypeInv, TypeOK
<1>3. CASE RunRecording(j)
  <2>1. /\ runFile' = [runFile EXCEPT ![j] = run[j].status] /\ canceller' = canceller
        /\ run' = [run EXCEPT ![j].pc = "ending"] /\ run[j].pc = "recording"
    BY <1>3 DEF RunRecording, WriteRun, Finish, RunGoto, requests
  <2> QED
    BY <1>0, <2>1 DEF OneRecorder, TypeInv, TypeOK
<1>4. CASE \/ RunLoad(j) /\ ~RunReturns(j)
           \/ RunRecord(j) /\ ~RunMayBeRecorded(j)
           \/ RunClaim(j) \/ RunScenario(j) \/ RunStep(j)
           \/ RunReport(j) \/ RunThrows(j) \/ RunCheck(j)
  <2>1. runFile' = runFile /\ canceller' = canceller
    BY <1>4 DEF RunLoad, RunClaim, RunScenario, RunStep, RunReport, RunThrows, RunRecord,
                RunCheck, Finish, files, requests
  <2>2. /\ \A i \in Job \ {j} : run'[i] = run[i]
        /\ run'[j].pc # "recording"
    <3>1. CASE (RunLoad(j) /\ ~RunReturns(j)) \/ RunClaim(j) \/ RunScenario(j) \/ RunCheck(j)
      BY <1>0, <3>1 DEF RunLoad, RunClaim, RunScenario, RunCheck, Finish, RunGoto, RunState
    <3>2. CASE RunStep(j)
      BY <1>0, <3>2 DEF RunStep, RunState
    <3>3. CASE RunReport(j)
      BY <1>0, <3>3 DEF RunReport, RunState
    <3>4. CASE RunThrows(j)
      BY <1>0, <3>4 DEF RunThrows, RunState
    <3>5. CASE RunRecord(j) /\ ~RunMayBeRecorded(j) /\ ~run[j].caught
      BY <1>0, <3>5 DEF RunRecord, RunState
    <3>6. CASE RunRecord(j) /\ ~RunMayBeRecorded(j) /\ run[j].caught
      BY <1>0, <3>6 DEF RunRecord, Finish, RunGoto, RunState
    <3> QED
      BY <1>4, <3>1, <3>2, <3>3, <3>4, <3>5, <3>6
  <2> QED
    BY <2>1, <2>2, NoRecorderSteps
<1>5. CASE RunLoad(j)
  BY <1>1, <1>4, <1>5
<1>6. CASE RunRecord(j)
  BY <1>2, <1>4, <1>6
<1>7. CASE RunDrop(j) \/ RunEnd(j)
  <2>1. RunReturns(j)
    BY <1>7 DEF RunDrop, RunEnd
  <2> QED
    BY <1>1, <1>7, <2>1
<1>8. CASE RunClaim(j) \/ RunScenario(j) \/ RunStep(j)
  BY <1>4, <1>8
<1>9. CASE RunReport(j) \/ RunThrows(j) \/ RunCheck(j)
  BY <1>4, <1>9
<1> QED
  <2>1. \/ RunLoad(j) \/ RunRecord(j) \/ RunRecording(j)
        \/ (RunDrop(j) \/ RunEnd(j))
        \/ (RunClaim(j) \/ RunScenario(j) \/ RunStep(j))
        \/ (RunReport(j) \/ RunThrows(j) \/ RunCheck(j))
    BY Zenon DEF Worker
  <2> QED
    BY <1>3, <1>5, <1>6, <1>7, <1>8, <1>9, <2>1

LEMMA RecorderCanceller ==
  ASSUME TypeInv, OneRecorder, NEW c \in Canceller,
         (\E j \in Job : Cancel(c, j)) \/ Cancels(c)
  PROVE  OneRecorder'
<1>0. canceller \in [Canceller -> CancellerState]
  BY DEF TypeInv, TypeOK
<1>1. CASE CancelRecord(c) /\ RunMayBeRecorded(canceller[c].job)
  <2>1. canceller[c].job \in Job
    BY <1>1 DEF CancelRecord, TypeInv, Fits
  <2>2. /\ runFile[canceller[c].job] = "none"
        /\ runFile' = [runFile EXCEPT ![canceller[c].job] = "empty"]
    BY <1>1 DEF CancelRecord, RunMayBeRecorded, OpenRun
  <2>3. canceller' = [canceller EXCEPT ![c].pc = "recording"] /\ run' = run
    BY <1>1 DEF CancelRecord, CancellerGoto, memory
  <2> QED
    BY <1>0, <2>1, <2>2, <2>3 DEF OneRecorder, TypeInv, TypeOK
<1>2. CASE CancelRecording(c)
  <2>1. canceller[c].job \in Job /\ canceller[c].pc = "recording"
    BY <1>2 DEF CancelRecording, TypeInv, Fits
  <2>2. /\ runFile' = [runFile EXCEPT ![canceller[c].job] = "cancelled"] /\ run' = run
        /\ canceller' = [canceller EXCEPT ![c].pc = "open",
                                          ![c].record.runRecordWritten = TRUE]
    BY <1>2 DEF CancelRecording, WriteRun, CancelKeep, memory
  <2>3. /\ canceller'[c].pc = "open"
        /\ \A d \in Canceller \ {c} : canceller'[d] = canceller[d]
    BY <1>0, <2>2 DEF CancellerState
  <2> QED
    BY <2>1, <2>2, <2>3 DEF OneRecorder, TypeInv, TypeOK
<1>3. CASE ~CancelRecording(c) /\ ~(CancelRecord(c) /\ RunMayBeRecorded(canceller[c].job))
  <2>1. runFile' = runFile /\ run' = run
    BY <1>3 DEF Cancel, Cancels, CancelQueued, CancelRunning, CancelCheckRun, CancelRecord,
                CancelRecheck, CancelOpen, CancelWrite, memory, files
  <2>2. /\ canceller'[c].pc # "recording"
        /\ \A d \in Canceller \ {c} : canceller'[d] = canceller[d]
    BY <1>0, <1>3
       DEF Cancel, Cancels, CancelQueued, CancelRunning, CancelCheckRun, CancelRecord,
           CancelRecheck, CancelOpen, CancelWrite, CancellerGoto, CancelKeep,
           CancellerState
  <2> QED
    BY <2>1, <2>2, NoRecorderSteps
<1> QED
  BY <1>1, <1>2, <1>3

LEMMA RecorderStep == TypeInv /\ OneRecorder /\ [Next]_vars => OneRecorder'
<1> SUFFICES ASSUME TypeInv, OneRecorder, [Next]_vars PROVE OneRecorder'
  OBVIOUS
<1>1. ASSUME NEW j \in Job, Patcher(j) PROVE OneRecorder'
  BY <1>1, NoRecorderSteps DEF Patcher, PatchLoad, PatchOpen, PatchWrite, files, requests
<1>2. ASSUME NEW e \in Enqueuer, (\E j \in Job : Enqueue(e, j)) \/ Enqueues(e)
      PROVE  OneRecorder'
  <2>1. runFile' = runFile /\ canceller' = canceller
    BY <1>2 DEF Enqueue, Enqueues, EnqueueCheckRun, EnqueueCheckJob, EnqueueAccept,
                EnqueueOpen, EnqueueWrite, EnqueuePush, files
  <2>2. CASE EnqueuePush(e)
    <3>1. Append(waitQueue, enqueuer[e].job) \in Seq(Job) /\ run \in [Job -> RunState]
      BY <2>2 DEF TypeInv, TypeOK, Fits, EnqueuePush
    <3>2. \A j \in Job : run'[j].pc = "recording" => run[j].pc = "recording"
      BY <2>2, <3>1, PumpRecordsNothing DEF EnqueuePush
    <3> QED
      BY <2>1, <3>2, NoRecorderSteps
  <2>3. CASE ~EnqueuePush(e)
    <3>1. run' = run
      BY <1>2, <2>3 DEF Enqueue, Enqueues, EnqueueCheckRun, EnqueueCheckJob,
                        EnqueueAccept, EnqueueOpen, EnqueueWrite, memory
    <3> QED
      BY <2>1, <3>1, NoRecorderSteps
  <2> QED
    BY <2>2, <2>3
<1>3. CASE Recovers \/ UNCHANGED vars
  BY <1>3, NoRecorderSteps
     DEF Recovers, RecoverOpen, RecoverWrite, Serve, memory, files, requests, vars
<1>4. CASE Crash
  <2>1. /\ \A j \in Job : run'[j].pc = "idle"
        /\ \A c \in Canceller : canceller'[c].pc # "recording"
    BY <1>4 DEF Crash, IdleRun, TypeInv, TypeOK, CancellerState
  <2> QED
    BY <2>1 DEF OneRecorder
<1> QED
  BY <1>1, <1>2, <1>3, <1>4, RecorderWorker, RecorderCanceller DEF Next

LEMMA RecorderAlways == Spec => []OneRecorder
<1>1. Init => OneRecorder
  BY DEF Init, MemoryInit, OneRecorder, IdleRun, IdleCanceller
<1> QED
  BY <1>1, RecorderStep, TypeAlways, PTL DEF Spec

(* No step changes the record of a run. *)
LEMMA HistoryStep ==
  ASSUME TypeInv, OneRecorder, [Next]_vars, NEW j \in Job, RunRecorded(j)
  PROVE  runFile'[j] = runFile[j]
<1>0. /\ runFile \in [Job -> RunStatus \cup {"none", "empty"}]
      /\ runFile[j] \notin {"none", "empty"}
  BY DEF TypeInv, TypeOK, RunRecorded, RunStatus
<1>1. ASSUME NEW i \in Job, Worker(i) PROVE runFile'[j] = runFile[j]
  BY <1>0, <1>1
     DEF OneRecorder, Worker, RunLoad, RunClaim, RunDrop, RunScenario, RunStep, RunReport,
         RunThrows, RunRecord, RunCheck, RunRecording, RunEnd, Finish, OpenRun, WriteRun,
         RunMayBeRecorded, files
<1>2. ASSUME NEW c \in Canceller, (\E i \in Job : Cancel(c, i)) \/ Cancels(c)
      PROVE  runFile'[j] = runFile[j]
  BY <1>0, <1>2
     DEF OneRecorder, Cancel, Cancels, CancelQueued, CancelRunning, CancelCheckRun,
         CancelRecord, CancelRecording, CancelRecheck, CancelOpen, CancelWrite, OpenRun,
         WriteRun, RunMayBeRecorded, files
<1>3. ASSUME NEW i \in Job, Patcher(i) PROVE runFile' = runFile
  BY <1>3 DEF Patcher, PatchLoad, PatchOpen, PatchWrite, files
<1>4. ASSUME NEW e \in Enqueuer, (\E i \in Job : Enqueue(e, i)) \/ Enqueues(e)
      PROVE  runFile' = runFile
  BY <1>4 DEF Enqueue, Enqueues, EnqueueCheckRun, EnqueueCheckJob, EnqueueAccept,
              EnqueueOpen, EnqueueWrite, EnqueuePush, files
<1>5. CASE Recovers \/ Crash \/ UNCHANGED vars
  BY <1>5 DEF Recovers, RecoverOpen, RecoverWrite, Serve, Crash, files, vars
<1> QED
  BY <1>1, <1>2, <1>3, <1>4, <1>5 DEF Next

(* Existing history is never overwritten, for any number of racing runs,    *)
(* cancellations and deaths.                                                *)
THEOREM HistoryForever == Spec => HistoryIsFinal
<1>1. TypeInv /\ OneRecorder /\ [Next]_vars =>
        [\A j \in Job : RunRecorded(j) => runFile'[j] = runFile[j]]_vars
  BY HistoryStep
<1> QED
  BY <1>1, TypeAlways, RecorderAlways, PTL DEF Spec, HistoryIsFinal

-----------------------------------------------------------------------------
(* A job file that says its run is recorded is right, because whatever is  *)
(* on its way into a job file is: the records at the head of a patch, of a *)
(* cancellation and of a recovery, and the patches that wait.              *)

RecordFits(record, j) == record.runRecordWritten => RunRecorded(j)

PatchesKnow ==
  \A j \in Job : \A n \in 1 .. Len(patches[j]) : patches[j][n].written => RunRecorded(j)

PatchersKnow ==
  \A j \in Job : patcher[j].pc # "load" => RecordFits(patcher[j].record, j)

CancellersKnow ==
  \A c \in Canceller : canceller[c].pc \notin {"idle", "done", "lost"} =>
    RecordFits(canceller[c].record, canceller[c].job)

RecoveryKnows == recovery # None => RecordFits(recovery.record, recovery.job)

WritersKnow == PatchesKnow /\ PatchersKnow /\ CancellersKnow /\ RecoveryKnows

Stable == \A j \in Job : RunRecorded(j) => RunRecorded(j)'

LEMMA RecordsStay == TypeInv /\ OneRecorder /\ [Next]_vars => Stable
BY HistoryStep DEF Stable, RunRecorded

(* What may happen to the job files. *)
LEMMA FilesFit ==
  ASSUME TypeInv, TypeInv', Stable, WrittenIsRecorded,
         \/ jobFile' = jobFile
         \/ \E j \in Job : OpenJob(j)
         \/ \E j \in Job, record \in JobRecord :
              WriteJob(j, record) /\ (record.runRecordWritten => RunRecorded(j)')
  PROVE  WrittenIsRecorded'
<1>0. jobFile \in [Job -> JobRecord \cup Unreadable]
  BY DEF TypeInv, TypeOK
<1>1. CASE jobFile' = jobFile
  BY <1>1 DEF WrittenIsRecorded, Stable, Load, RunRecorded
<1>2. CASE \E j \in Job : OpenJob(j)
  BY <1>0, <1>2 DEF WrittenIsRecorded, Stable, Load, RunRecorded, OpenJob, Unreadable
<1>3. ASSUME NEW j \in Job, NEW record \in JobRecord, WriteJob(j, record),
             (record.runRecordWritten => RunRecorded(j)')
      PROVE  WrittenIsRecorded'
  <2>1. PICK content \in {record, Garbled} : jobFile' = [jobFile EXCEPT ![j] = content]
    BY <1>3 DEF WriteJob
  <2>2. SUFFICES ASSUME NEW i \in Job, Load(i)' # None, Load(i)'.runRecordWritten
                 PROVE  RunRecorded(i)'
    BY DEF WrittenIsRecorded
  <2>3. CASE i = j
    <3>1. jobFile'[i] = record
      BY <1>0, <2>1, <2>2, <2>3 DEF Load, Unreadable
    <3> QED
      BY <1>3, <2>2, <2>3, <3>1 DEF Load, RecordFits
  <2>4. CASE i # j
    BY <1>0, <2>1, <2>2, <2>4 DEF Load, Stable, WrittenIsRecorded
  <2> QED
    BY <2>3, <2>4
<1> QED
  BY <1>1, <1>2, <1>3

LEMMA AddPatchKnown ==
  ASSUME TypeInv, PatchesKnow, Stable, NEW j \in Job, NEW to, NEW written \in BOOLEAN,
         AddPatch(j, to, written), written => RunRecorded(j)'
  PROVE  PatchesKnow'
<1>0. patches \in [Job -> Seq(Patch)]
  BY DEF TypeInv, TypeOK
<1> SUFFICES ASSUME NEW i \in Job, NEW n \in 1 .. Len(patches'[i]), patches'[i][n].written
             PROVE  RunRecorded(i)'
  BY DEF PatchesKnow
<1>1. CASE i # j
  <2>1. patches'[i] = patches[i]
    BY <1>0, <1>1 DEF AddPatch
  <2> QED
    BY <2>1 DEF PatchesKnow, Stable
<1>2. CASE i = j
  <2>1. patches'[i] = Append(patches[i], [to |-> to, written |-> written])
    BY <1>0, <1>2 DEF AddPatch
  <2>2. patches[i] \in Seq(Patch) /\ Len(patches'[i]) = Len(patches[i]) + 1
    BY <1>0, <2>1
  <2>3. CASE n = Len(patches[i]) + 1
    BY <1>2, <2>1, <2>2, <2>3
  <2>4. CASE n \in 1 .. Len(patches[i])
    <3>1. patches'[i][n] = patches[i][n]
      BY <2>1, <2>2, <2>4
    <3> QED
      BY <2>4, <3>1 DEF PatchesKnow, Stable
  <2> QED
    BY <2>2, <2>3, <2>4
<1> QED
  BY <1>1, <1>2

LEMMA DonePatchKnown ==
  ASSUME TypeInv, PatchesKnow, PatchersKnow, Stable, NEW j \in Job,
         patches[j] # <<>>, PatchDone(j)
  PROVE  PatchesKnow' /\ PatchersKnow'
<1>0. patches \in [Job -> Seq(Patch)]
  BY DEF TypeInv, TypeOK
<1>1. ASSUME NEW i \in Job, NEW n \in 1 .. Len(patches'[i]), patches'[i][n].written
      PROVE  RunRecorded(i)'
  <2>1. CASE i # j
    <3>1. patches'[i] = patches[i]
      BY <1>0, <2>1 DEF PatchDone
    <3> QED
      BY <1>1, <3>1 DEF PatchesKnow, Stable
  <2>2. CASE i = j
    <3>1. patches'[i] = Tail(patches[i]) /\ patches[i] \in Seq(Patch) /\ patches[i] # <<>>
      BY <1>0, <2>2 DEF PatchDone
    <3>2. n + 1 \in 1 .. Len(patches[i]) /\ patches'[i][n] = patches[i][n + 1]
      BY <1>1, <3>1
    <3> QED
      BY <1>1, <3>2 DEF PatchesKnow, Stable
  <2> QED
    BY <2>1, <2>2
<1>2. PatchersKnow'
  <2>1. patcher' = [patcher EXCEPT ![j] = IdlePatcher]
    BY DEF PatchDone
  <2> QED
    BY <2>1 DEF PatchersKnow, RecordFits, Stable, IdlePatcher, TypeInv, TypeOK
<1> QED
  BY <1>1, <1>2 DEF PatchesKnow

(* What the steps of each group do to the records in hand. *)
LEMMA KnownWhenKept ==
  ASSUME TypeInv, WritersKnow, Stable
  PROVE  /\ patches' = patches => PatchesKnow'
         /\ patcher' = patcher => PatchersKnow'
         /\ canceller' = canceller => CancellersKnow'
         /\ recovery' = recovery => RecoveryKnows'
<1>1. patches' = patches => PatchesKnow'
  BY DEF WritersKnow, PatchesKnow, Stable
<1>2. patcher' = patcher => PatchersKnow'
  BY DEF WritersKnow, PatchersKnow, Stable, RecordFits
<1>3. ASSUME canceller' = canceller PROVE CancellersKnow'
  <2>1. \A c \in Canceller : canceller[c].pc # "idle" => canceller[c].job \in Job
    BY DEF TypeInv, Fits
  <2> QED
    BY <1>3, <2>1 DEF WritersKnow, CancellersKnow, Stable, RecordFits
<1>4. recovery' = recovery => RecoveryKnows'
  <2>1. recovery # None => recovery.job \in Job
    BY DEF TypeInv, TypeOK
  <2> QED
    BY <2>1 DEF WritersKnow, RecoveryKnows, Stable, RecordFits
<1> QED
  BY <1>1, <1>2, <1>3, <1>4

LEMMA WorkerKnows ==
  ASSUME TypeInv, WritersKnow, Stable, NEW j \in Job, Worker(j)
  PROVE  jobFile' = jobFile /\ WritersKnow'
<1>1. /\ jobFile' = jobFile /\ patcher' = patcher
      /\ canceller' = canceller /\ recovery' = recovery
  BY DEF Worker, RunLoad, RunClaim, RunDrop, RunScenario, RunStep, RunReport, RunThrows,
         RunRecord, RunCheck, RunRecording, RunEnd, files, requests, host
<1>2. PatchesKnow'
  <2>0. PatchesKnow
    BY DEF WritersKnow
  <2>1. CASE patches' = patches
    BY <2>1, KnownWhenKept
  <2>2. ASSUME NEW to, AddPatch(j, to, FALSE) PROVE PatchesKnow'
    BY <2>0, <2>2, AddPatchKnown
  <2>3. CASE RunRecording(j)
    <3>1. run[j].status \in RunStatus /\ runFile' = [runFile EXCEPT ![j] = run[j].status]
      BY <2>3 DEF RunRecording, WriteRun, TypeInv, Fits
    <3>2. RunRecorded(j)'
      BY <3>1 DEF RunRecorded, TypeInv, TypeOK
    <3>3. AddPatch(j, JobStatusOf(run[j].status), TRUE)
      BY <2>3 DEF RunRecording, Finish
    <3> QED
      BY <2>0, <3>2, <3>3, AddPatchKnown
  <2>4. CASE RunCheck(j) /\ RunRecorded(j)
    <3>1. AddPatch(j, JobStatusOf(run[j].status), TRUE)
      BY <2>4 DEF RunCheck, Finish
    <3>2. RunRecorded(j)'
      BY <2>4 DEF Stable
    <3> QED
      BY <2>0, <3>1, <3>2, AddPatchKnown
  <2>5. CASE RunClaim(j) \/ RunStep(j) \/ RunRecord(j)
    BY <2>1, <2>2, <2>5 DEF RunClaim, RunStep, RunRecord, Finish
  <2>6. CASE RunCheck(j) /\ ~RunRecorded(j)
    BY <2>1, <2>6 DEF RunCheck
  <2>7. CASE RunLoad(j) \/ RunDrop(j) \/ RunScenario(j) \/ RunReport(j) \/ RunThrows(j)
             \/ RunEnd(j)
    BY <2>1, <2>7 DEF RunLoad, RunDrop, RunScenario, RunReport, RunThrows, RunEnd
  <2> QED
    <3>1. \/ RunRecording(j) \/ RunCheck(j)
          \/ (RunClaim(j) \/ RunStep(j) \/ RunRecord(j))
          \/ (RunLoad(j) \/ RunDrop(j) \/ RunScenario(j) \/ RunReport(j) \/ RunThrows(j)
              \/ RunEnd(j))
      BY Zenon DEF Worker
    <3> QED
      BY <2>3, <2>4, <2>5, <2>6, <2>7, <3>1
<1> QED
  BY <1>1, <1>2, KnownWhenKept DEF WritersKnow

LEMMA PatcherKnows ==
  ASSUME TypeInv, WrittenIsRecorded, WritersKnow, Stable, NEW j \in Job, Patcher(j)
  PROVE  /\ \/ jobFile' = jobFile
            \/ OpenJob(j)
            \/ \E record \in JobRecord : WriteJob(j, record) /\ (record.runRecordWritten => RunRecorded(j)')
         /\ WritersKnow'
<1>1. canceller' = canceller /\ recovery' = recovery
  BY DEF Patcher, PatchLoad, PatchOpen, PatchWrite, requests, host
<1>0. PatchesKnow /\ PatchersKnow
  BY DEF WritersKnow
<1>2. CASE PatchLoad(j)
  <2>1. jobFile' = jobFile /\ patches[j] # <<>>
    BY <1>2 DEF PatchLoad, files
  <2>2. CASE PatchDone(j)
    BY <1>0, <1>1, <2>1, <2>2, DonePatchKnown, KnownWhenKept DEF WritersKnow
  <2>3. CASE ~PatchDone(j)
    <3> DEFINE next == Updated(Head(patches[j]), Load(j))
    <3>1. /\ Load(j) # None /\ patches' = patches
          /\ patcher' = [patcher EXCEPT ![j] = [pc |-> "open", record |-> next]]
      BY <1>2, <2>3 DEF PatchLoad
    <3>2. RecordFits(next, j)
      <4>1. Head(patches[j]) = patches[j][1] /\ 1 \in 1 .. Len(patches[j])
        BY <2>1 DEF TypeInv, TypeOK
      <4>2. Head(patches[j]).written => RunRecorded(j)
        BY <1>0, <4>1 DEF PatchesKnow
      <4>3. Load(j).runRecordWritten => RunRecorded(j)
        BY <3>1 DEF WrittenIsRecorded
      <4>4. Load(j) \in JobRecord
        BY <3>1, LoadType DEF TypeInv
      <4> QED
        BY <4>2, <4>3, <4>4 DEF Updated, RecordFits, JobRecord
    <3>3. PatchersKnow'
      <4> HIDE DEF next
      <4> QED
        BY <1>0, <3>1, <3>2 DEF PatchersKnow, RecordFits, Stable, TypeInv, TypeOK
    <3> QED
      BY <1>1, <2>1, <3>1, <3>3, KnownWhenKept DEF WritersKnow
  <2> QED
    BY <2>2, <2>3
<1>3. CASE PatchOpen(j)
  <2>1. OpenJob(j) /\ patches' = patches
        /\ patcher' = [patcher EXCEPT ![j].pc = "write"] /\ patcher[j].pc = "open"
    BY <1>3 DEF PatchOpen
  <2>2. PatchersKnow'
    BY <1>0, <2>1 DEF PatchersKnow, RecordFits, Stable, TypeInv, TypeOK
  <2> QED
    BY <1>1, <2>1, <2>2, KnownWhenKept DEF WritersKnow
<1>4. CASE PatchWrite(j)
  <2>1. /\ patcher[j].record \in JobRecord /\ patches[j] # <<>>
        /\ WriteJob(j, patcher[j].record) /\ PatchDone(j)
    BY <1>4 DEF PatchWrite, TypeInv, Fits
  <2>2. RecordFits(patcher[j].record, j)
    BY <1>0, <1>4 DEF PatchWrite, PatchersKnow
  <2>3. PatchesKnow' /\ PatchersKnow'
    BY <1>0, <2>1, DonePatchKnown
  <2>4. \E record \in JobRecord : WriteJob(j, record) /\ (record.runRecordWritten => RunRecorded(j)')
    BY <2>1, <2>2 DEF RecordFits, Stable
  <2> QED
    BY <1>1, <2>3, <2>4, KnownWhenKept DEF WritersKnow
<1> QED
  BY <1>2, <1>3, <1>4 DEF Patcher

LEMMA CancellerKnows ==
  ASSUME TypeInv, WrittenIsRecorded, WritersKnow, Stable, NEW c \in Canceller,
         (\E j \in Job : Cancel(c, j)) \/ Cancels(c)
  PROVE  /\ \/ jobFile' = jobFile
            \/ \E j \in Job : OpenJob(j)
            \/ \E j \in Job, record \in JobRecord :
                 WriteJob(j, record) /\ (record.runRecordWritten => RunRecorded(j)')
         /\ WritersKnow'
<1>0. /\ canceller \in [Canceller -> CancellerState] /\ CancellersKnow
      /\ \A d \in Canceller : canceller[d].pc # "idle" => canceller[d].job \in Job
      /\ canceller[c].pc \notin {"idle", "done", "lost"} => canceller[c].record \in JobRecord
  BY DEF TypeInv, TypeOK, Fits, WritersKnow
<1>1. patches' = patches /\ patcher' = patcher /\ recovery' = recovery
  BY DEF Cancel, Cancels, CancelQueued, CancelRunning, CancelCheckRun, CancelRecord,
         CancelRecording, CancelRecheck, CancelOpen, CancelWrite, memory, host
<1>2. \A d \in Canceller \ {c} : canceller'[d] = canceller[d]
  BY <1>0 DEF Cancel, Cancels, CancelQueued, CancelRunning, CancelCheckRun, CancelRecord,
         CancelRecording, CancelRecheck, CancelOpen, CancelWrite, CancellerGoto, CancelKeep
<1>3. canceller'[c].pc \notin {"idle", "done", "lost"} =>
        (canceller'[c].record.runRecordWritten => runFile'[canceller'[c].job] \in RunStatus)
  <2>1. ASSUME NEW j \in Job, Cancel(c, j)
        PROVE  canceller'[c].pc \notin {"idle", "done", "lost"} =>
                 (canceller'[c].record.runRecordWritten => runFile'[canceller'[c].job] \in RunStatus)
    <3>1. /\ canceller'[c].job = j /\ canceller'[c].record = Load(j)
          /\ canceller'[c].pc \notin {"idle", "done", "lost"} => Load(j) # None
      BY <1>0, <2>1 DEF Cancel
    <3> QED
      BY <3>1 DEF WrittenIsRecorded, Stable, RunRecorded
  <2>2. CASE CancelRecording(c)
    <3>1. /\ canceller[c].job \in Job /\ canceller'[c].job = canceller[c].job
          /\ runFile' = [runFile EXCEPT ![canceller[c].job] = "cancelled"]
      BY <1>0, <2>2 DEF CancelRecording, CancelKeep, WriteRun
    <3> QED
      BY <3>1 DEF RunRecorded, RunStatus, TypeInv, TypeOK
  <2>3. CASE CancelQueued(c) \/ CancelRunning(c)
    <3>1. /\ canceller[c].pc = "decide" /\ canceller'[c].job = canceller[c].job
          /\ canceller'[c].record.runRecordWritten = canceller[c].record.runRecordWritten
      BY <1>0, <2>3 DEF CancelQueued, CancelRunning, CancellerState, JobRecord
    <3> QED
      BY <1>0, <3>1 DEF CancellersKnow, RecordFits, Stable, RunRecorded
  <2>4. CASE CancelRecord(c) \/ CancelOpen(c) \/ CancelWrite(c)
    <3>1. /\ canceller[c].pc \in {"record", "open", "write"}
          /\ canceller'[c].job = canceller[c].job
          /\ canceller'[c].record = canceller[c].record
      BY <1>0, <2>4 DEF CancelRecord, CancelOpen, CancelWrite, CancellerGoto, CancellerState
    <3> QED
      BY <1>0, <3>1 DEF CancellersKnow, RecordFits, Stable, RunRecorded
  <2>5. CASE CancelCheckRun(c) \/ CancelRecheck(c)
    <3>1. /\ canceller[c].pc \in {"check-run", "recheck"}
          /\ canceller'[c].job = canceller[c].job
          /\ \/ canceller'[c].record = canceller[c].record
             \/ canceller'[c].record.runRecordWritten = RunRecorded(canceller[c].job)
      BY <1>0, <2>5 DEF CancelCheckRun, CancelRecheck, CancelKeep, CancellerGoto,
                        CancellerState, JobRecord
    <3> QED
      BY <1>0, <3>1 DEF CancellersKnow, RecordFits, Stable, RunRecorded
  <2> QED
    BY <2>1, <2>2, <2>3, <2>4, <2>5 DEF Cancels
<1>4. CancellersKnow'
  <2> SUFFICES ASSUME NEW d \in Canceller, canceller'[d].pc \notin {"idle", "done", "lost"},
                      canceller'[d].record.runRecordWritten
               PROVE  runFile'[canceller'[d].job] \in RunStatus
    BY DEF CancellersKnow, RecordFits, RunRecorded
  <2>1. CASE d # c
    <3>1. canceller'[d] = canceller[d]
      BY <1>2, <2>1
    <3> QED
      BY <1>0, <3>1 DEF CancellersKnow, RecordFits, Stable, RunRecorded
  <2> QED
    BY <1>3, <2>1
<1>5. \/ jobFile' = jobFile
      \/ \E j \in Job : OpenJob(j)
      \/ \E j \in Job, record \in JobRecord :
           WriteJob(j, record) /\ (record.runRecordWritten => RunRecorded(j)')
  <2>1. CASE CancelOpen(c)
    BY <1>0, <2>1 DEF CancelOpen
  <2>2. CASE CancelWrite(c)
    <3>1. /\ canceller[c].job \in Job /\ canceller[c].record \in JobRecord
          /\ WriteJob(canceller[c].job, canceller[c].record)
          /\ canceller[c].record.runRecordWritten => RunRecorded(canceller[c].job)
      BY <1>0, <2>2 DEF CancelWrite, CancellersKnow, RecordFits
    <3> QED
      BY <3>1 DEF Stable
  <2>3. CASE ~CancelOpen(c) /\ ~CancelWrite(c)
    BY <2>3 DEF Cancel, Cancels, CancelQueued, CancelRunning, CancelCheckRun, CancelRecord,
                CancelRecording, CancelRecheck, files
  <2> QED
    BY <2>1, <2>2, <2>3
<1> QED
  BY <1>1, <1>4, <1>5, KnownWhenKept DEF WritersKnow

LEMMA EnqueuerKnows ==
  ASSUME TypeInv, WritersKnow, Stable, NEW e \in Enqueuer,
         (\E j \in Job : Enqueue(e, j)) \/ Enqueues(e)
  PROVE  /\ \/ jobFile' = jobFile
            \/ \E j \in Job : OpenJob(j)
            \/ \E j \in Job, record \in JobRecord :
                 WriteJob(j, record) /\ (record.runRecordWritten => RunRecorded(j)')
         /\ WritersKnow'
<1>1. /\ patches' = patches /\ patcher' = patcher
      /\ canceller' = canceller /\ recovery' = recovery
  BY DEF Enqueue, Enqueues, EnqueueCheckRun, EnqueueCheckJob, EnqueueAccept, EnqueueOpen,
         EnqueueWrite, EnqueuePush, memory, host
<1>2. \/ jobFile' = jobFile
      \/ \E j \in Job : OpenJob(j)
      \/ \E j \in Job, record \in JobRecord :
           WriteJob(j, record) /\ (record.runRecordWritten => RunRecorded(j)')
  <2>1. CASE EnqueueOpen(e)
    BY <2>1 DEF EnqueueOpen, TypeInv, Fits
  <2>2. CASE EnqueueWrite(e)
    <3> DEFINE fresh == [status |-> "queued", runRecordWritten |-> FALSE]
    <3>1. /\ enqueuer[e].job \in Job /\ WriteJob(enqueuer[e].job, fresh)
          /\ fresh \in JobRecord /\ ~fresh.runRecordWritten
      BY <2>2 DEF EnqueueWrite, TypeInv, Fits, JobRecord, JobStatus
    <3> HIDE DEF fresh
    <3> QED
      BY <3>1
  <2>3. CASE ~EnqueueOpen(e) /\ ~EnqueueWrite(e)
    BY <2>3 DEF Enqueue, Enqueues, EnqueueCheckRun, EnqueueCheckJob, EnqueueAccept,
                EnqueuePush, files
  <2> QED
    BY <2>1, <2>2, <2>3
<1> QED
  BY <1>1, <1>2, KnownWhenKept DEF WritersKnow

LEMMA RecoveryKeepsKnowing ==
  ASSUME TypeInv, WrittenIsRecorded, WritersKnow, Stable, Recovers
  PROVE  /\ \/ jobFile' = jobFile
            \/ \E j \in Job : OpenJob(j)
            \/ \E j \in Job, record \in JobRecord :
                 WriteJob(j, record) /\ (record.runRecordWritten => RunRecorded(j)')
         /\ WritersKnow'
<1>1. patches' = patches /\ patcher' = patcher /\ canceller' = canceller
  BY DEF Recovers, RecoverOpen, RecoverWrite, Serve, memory, requests
<1>2. ASSUME NEW j \in Job, RecoverOpen(j)
      PROVE  OpenJob(j) /\ RecoveryKnows'
  <2>1. /\ OpenJob(j) /\ Load(j) # None
        /\ recovery' = [job |-> j, record |-> [jobFile[j] EXCEPT !.status = "interrupted"]]
    BY <1>2 DEF RecoverOpen, Unfinished
  <2>2. Load(j) = jobFile[j] /\ jobFile[j] \in JobRecord
    BY <2>1, LoadType DEF TypeInv
  <2>3. recovery'.job = j
        /\ recovery'.record.runRecordWritten = Load(j).runRecordWritten
    BY <2>1, <2>2 DEF JobRecord
  <2> QED
    BY <2>1, <2>3 DEF RecoveryKnows, RecordFits, WrittenIsRecorded, Stable
<1>3. CASE RecoverWrite
  <2>1. /\ recovery.job \in Job /\ recovery.record \in JobRecord
        /\ WriteJob(recovery.job, recovery.record) /\ recovery' = None
        /\ recovery.record.runRecordWritten => RunRecorded(recovery.job)
    BY <1>3 DEF RecoverWrite, WritersKnow, RecoveryKnows, RecordFits, TypeInv, TypeOK
  <2> QED
    BY <1>1, <2>1, KnownWhenKept DEF Stable, WritersKnow, RecoveryKnows
<1>4. CASE Serve
  <2>1. jobFile' = jobFile /\ recovery' = recovery
    BY <1>4 DEF Serve, files
  <2> QED
    BY <1>1, <2>1, KnownWhenKept DEF WritersKnow
<1> QED
  BY <1>1, <1>2, <1>3, <1>4, KnownWhenKept DEF Recovers, WritersKnow

LEMMA WrittenStep ==
  ASSUME TypeInv, TypeInv', OneRecorder, WrittenIsRecorded, WritersKnow, [Next]_vars
  PROVE  WrittenIsRecorded' /\ WritersKnow'
<1>0. Stable
  BY RecordsStay
<1>1. ASSUME NEW j \in Job, Worker(j) PROVE WrittenIsRecorded' /\ WritersKnow'
  BY <1>0, <1>1, WorkerKnows, FilesFit
<1>2. ASSUME NEW j \in Job, Patcher(j) PROVE WrittenIsRecorded' /\ WritersKnow'
  BY <1>0, <1>2, PatcherKnows, FilesFit
<1>3. ASSUME NEW e \in Enqueuer, (\E j \in Job : Enqueue(e, j)) \/ Enqueues(e)
      PROVE  WrittenIsRecorded' /\ WritersKnow'
  BY <1>0, <1>3, EnqueuerKnows, FilesFit
<1>4. ASSUME NEW c \in Canceller, (\E j \in Job : Cancel(c, j)) \/ Cancels(c)
      PROVE  WrittenIsRecorded' /\ WritersKnow'
  BY <1>0, <1>4, CancellerKnows, FilesFit
<1>5. CASE Recovers
  BY <1>0, <1>5, RecoveryKeepsKnowing, FilesFit
<1>6. CASE Crash
  <2>1. /\ jobFile' = jobFile /\ recovery' = None
        /\ \A j \in Job : patches'[j] = <<>> /\ patcher'[j].pc = "load"
        /\ \A c \in Canceller : canceller'[c].pc \in {"idle", "done", "lost"}
    BY <1>6 DEF Crash, files, IdlePatcher, TypeInv, TypeOK, CancellerState
  <2> QED
    BY <1>0, <2>1, FilesFit
       DEF WritersKnow, PatchesKnow, PatchersKnow, CancellersKnow, RecoveryKnows
<1>7. CASE UNCHANGED vars
  <2>1. /\ jobFile' = jobFile /\ patches' = patches /\ patcher' = patcher
        /\ canceller' = canceller /\ recovery' = recovery
    BY <1>7 DEF vars, files, memory, requests, host
  <2> QED
    BY <1>0, <2>1, FilesFit, KnownWhenKept DEF WritersKnow
<1> QED
  BY <1>1, <1>2, <1>3, <1>4, <1>5, <1>6, <1>7 DEF Next

(* A job file that says its run is recorded is right, whatever overlaps and *)
(* whenever the process dies.                                               *)
THEOREM RecordedWhenWritten == Spec => []WrittenIsRecorded
<1>1. Init => WrittenIsRecorded /\ WritersKnow
  BY DEF Init, MemoryInit, WrittenIsRecorded, Load, Unreadable, WritersKnow, PatchesKnow,
         PatchersKnow, CancellersKnow, RecoveryKnows, IdlePatcher, IdleCanceller
<1>2. /\ TypeInv /\ TypeInv' /\ OneRecorder /\ WrittenIsRecorded /\ WritersKnow
      /\ [Next]_vars
      => WrittenIsRecorded' /\ WritersKnow'
  BY WrittenStep
<1> QED
  BY <1>1, <1>2, TypeAlways, RecorderAlways, PTL DEF Spec

(* The job files and the run files agree at every moment.                   *)
THEOREM RecordsStayTrue == Spec => []RecordsAreTrue
<1>1. TypeOK /\ WrittenIsRecorded => RecordsAreTrue
  BY DEF RecordsAreTrue
<1> QED
  BY <1>1, TypeCorrect, RecordedWhenWritten, PTL

-----------------------------------------------------------------------------
(* An unfinished job is somebody's: NoGhost. *)

(* Where a run has written nothing yet, and where it waits for its patches. *)
Unclaimed == {"idle", "load", "claim"}

Waiting == {"dropping", "ending"}

(* The patches after which a job is over. *)
Ends == {"dropped"} \cup Terminal

(* A request that will hand the job to the pump, or has. *)
Coming(j) ==
  \/ j \in Range(waitQueue)
  \/ \E e \in Enqueuer :
       enqueuer[e].pc \in {"open", "write", "push"} /\ enqueuer[e].job = j

Uncancelled(j) == \A c \in Canceller : canceller[c].pc # "idle" => canceller[c].job # j

(* The patches of a job are those of its one run: none before it claims    *)
(* the job, and the last one ends the job once the run waits for it.  What *)
(* such a patch writes is final.                                           *)
PatchesOfRun ==
  \A j \in Job :
    /\ run[j].pc \in Unclaimed => patches[j] = <<>>
    /\ run[j].pc \in Waiting /\ patches[j] # <<>> => Last(patches[j]).to \in Ends
    /\ patcher[j].pc # "load" /\ Head(patches[j]).to \in Ends =>
         IsTerminal(patcher[j].record)

(* A job is finished, or its run goes on, or something is left to write, or *)
(* somebody brings it.                                                      *)
Settled(j) ==
  \/ ~Unfinished(j)
  \/ run[j].pc \notin {"idle"} \cup Waiting
  \/ patches[j] # <<>>
  \/ Coming(j)

QuietIsFinished ==
  server = "up" => \A j \in Job : Uncancelled(j) => Settled(j)

(* recoverInterrupted() is done before the first request is served.         *)
RecoversFirst == recovery # None => server = "recovering"

(* The pump drops no job of its queue: one that leaves it is loaded.        *)
LEMMA PumpKeeps ==
  ASSUME NEW runs \in [Job -> RunState], NEW queue \in Seq(Job), NEW busy,
         Pump(runs, queue, busy), NEW j \in Job
  PROVE  /\ j \in Range(queue) => j \in Range(waitQueue') \/ run'[j].pc = "load"
         /\ run'[j] = runs[j] \/ (runs[j].pc = "idle" /\ run'[j].pc = "load")
<1>1. CASE queue = <<>> \/ busy # {} \/ \E i \in Job : runs[i].pc # "idle"
  <2>1. run' = runs /\ waitQueue' = queue
    BY <1>1 DEF Pump
  <2> QED
    BY <2>1 DEF Range
<1>2. CASE ~(queue = <<>> \/ busy # {} \/ \E i \in Job : runs[i].pc # "idle")
  <2>1. /\ Head(queue) \in Job /\ Len(queue) > 0 /\ Head(queue) = queue[1]
        /\ Tail(queue) \in Seq(Job) /\ Len(Tail(queue)) = Len(queue) - 1
    BY <1>2
  <2>2. /\ run' = [runs EXCEPT ![Head(queue)].pc = "load"]
        /\ waitQueue' = Tail(queue) /\ runs[j].pc = "idle"
    BY <1>2 DEF Pump
  <2>3. j = Head(queue) => run'[j].pc = "load"
    BY <2>1, <2>2 DEF RunState
  <2>4. j # Head(queue) => run'[j] = runs[j]
    BY <2>1, <2>2
  <2>5. j \in Range(queue) /\ j # Head(queue) => j \in Range(waitQueue')
    <3> HAVE j \in Range(queue) /\ j # Head(queue)
    <3>1. PICK n \in 1 .. Len(queue) : queue[n] = j
      BY DEF Range
    <3>2. n # 1
      BY <2>1, <3>1
    <3>3. n - 1 \in 1 .. Len(Tail(queue)) /\ Tail(queue)[n - 1] = j
      BY <2>1, <3>1, <3>2
    <3> QED
      BY <2>1, <2>2, <3>3 DEF Range
  <2> QED
    BY <2>2, <2>3, <2>4, <2>5
<1> QED
  BY <1>1, <1>2

(* A run that returns leaves the others as they are.                        *)
LEMMA ReturnsKeep ==
  ASSUME TypeInv, NEW j \in Job, RunReturns(j), NEW i \in Job
  PROVE  /\ i \in Range(waitQueue) => i \in Range(waitQueue') \/ run'[i].pc = "load"
         /\ i # j => run'[i] = run[i] \/ (run[i].pc = "idle" /\ run'[i].pc = "load")
         /\ run'[j].pc \in {"idle", "load"}
<1> DEFINE runs == [run EXCEPT ![j] = IdleRun]
<1>1. runs \in [Job -> RunState] /\ waitQueue \in Seq(Job)
  BY IdleRunType DEF TypeInv, TypeOK
<1>2. runs[j].pc = "idle" /\ (i # j => runs[i] = run[i])
  BY DEF TypeInv, TypeOK, IdleRun
<1>3. Pump(runs, waitQueue, active')
  BY DEF RunReturns
<1> HIDE DEF runs
<1>4. run'[j] = runs[j] \/ run'[j].pc = "load"
  BY <1>1, <1>3, PumpKeeps
<1> QED
  BY <1>1, <1>2, <1>3, <1>4, PumpKeeps

(* cancel() takes no other job out of the queue.                            *)
LEMMA WithdrawKeeps ==
  ASSUME waitQueue \in Seq(Job), NEW i, Withdraw(i), NEW j \in Job, j # i,
         j \in Range(waitQueue)
  PROVE  j \in Range(waitQueue')
<1>1. CASE UNCHANGED waitQueue
  BY <1>1
<1>2. ASSUME NEW n \in 1 .. Len(waitQueue), waitQueue[n] = i,
             waitQueue' = RemoveAt(waitQueue, n)
      PROVE  j \in Range(waitQueue')
  <2> DEFINE front == SubSeq(waitQueue, 1, n - 1)
             back  == SubSeq(waitQueue, n + 1, Len(waitQueue))
  <2>1. /\ front \in Seq(Job) /\ Len(front) = n - 1
        /\ \A m \in 1 .. n - 1 : front[m] = waitQueue[m]
    OBVIOUS
  <2>2. /\ back \in Seq(Job) /\ Len(back) = Len(waitQueue) - n
        /\ \A m \in 1 .. Len(waitQueue) - n : back[m] = waitQueue[n + m]
    OBVIOUS
  <2>3. waitQueue' = front \o back
    BY <1>2 DEF RemoveAt
  <2>4. PICK m \in 1 .. Len(waitQueue) : waitQueue[m] = j
    BY DEF Range
  <2> HIDE DEF front, back
  <2>5. /\ waitQueue' \in Seq(Job) /\ Len(waitQueue') = Len(waitQueue) - 1
        /\ \A k \in 1 .. n - 1 : waitQueue'[k] = front[k]
        /\ \A k \in 1 .. Len(waitQueue) - n : waitQueue'[n - 1 + k] = back[k]
    <3>4. front \o back \in Seq(Job)
      BY <2>1, <2>2
    <3>5. Len(front \o back) = Len(front) + Len(back)
      <4>1. \A s, t \in Seq(Job) : Len(s \o t) = Len(s) + Len(t)
        OBVIOUS
      <4> QED
        BY <2>1, <2>2, <4>1
    <3>1. waitQueue' \in Seq(Job) /\ Len(waitQueue') = Len(front) + Len(back)
      BY <2>3, <3>4, <3>5
    <3>6. Len(waitQueue) \in Nat
      OBVIOUS
    <3>2. \A k \in 1 .. Len(front) : waitQueue'[k] = front[k]
      BY <2>1, <2>2, <2>3
    <3>3. \A k \in 1 .. Len(back) : waitQueue'[Len(front) + k] = back[k]
      BY <2>1, <2>2, <2>3
    <3>7. Len(front) = n - 1 /\ Len(back) = Len(waitQueue) - n
      BY <2>1, <2>2
    <3>8. Len(waitQueue') = Len(waitQueue) - 1
      BY <3>1, <3>6, <3>7
    <3>9. \A k \in 1 .. Len(waitQueue) - n : waitQueue'[n - 1 + k] = back[k]
      BY <3>3, <3>7
    <3> QED
      BY <3>1, <3>2, <3>7, <3>8, <3>9
  <2>6. CASE m < n
    <3>1. m \in 1 .. n - 1 /\ m \in 1 .. Len(waitQueue')
      BY <2>5, <2>6
    <3>2. waitQueue'[m] = j
      BY <2>1, <2>4, <2>5, <3>1
    <3> QED
      BY <2>5, <3>1, <3>2 DEF Range
  <2>7. CASE m > n
    <3>1. m - n \in 1 .. Len(waitQueue) - n /\ n - 1 + (m - n) \in 1 .. Len(waitQueue')
      BY <2>5, <2>7
    <3>2. waitQueue'[n - 1 + (m - n)] = back[m - n] /\ back[m - n] = waitQueue[n + (m - n)]
      BY <2>2, <2>5, <3>1
    <3>3. n + (m - n) = m
      OBVIOUS
    <3> QED
      BY <2>4, <2>5, <3>1, <3>2, <3>3 DEF Range
  <2>8. m # n
    BY <1>2, <2>4
  <2> QED
    BY <2>6, <2>7, <2>8
<1> QED
  BY <1>1, <1>2 DEF Withdraw

(* What a patch that is added leaves of the ones before it.                 *)
LEMMA AddPatchLast ==
  ASSUME TypeInv, NEW j \in Job,
         NEW to \in {"running", "progress", "dropped"} \cup Terminal,
         NEW written \in BOOLEAN, AddPatch(j, to, written)
  PROVE  /\ patches'[j] # <<>> /\ Last(patches'[j]).to = to
         /\ patches[j] # <<>> => Head(patches'[j]) = Head(patches[j])
         /\ \A i \in Job \ {j} : patches'[i] = patches[i]
<1> DEFINE patch == [to |-> to, written |-> written]
<1>1. patches \in [Job -> Seq(Patch)] /\ patches[j] \in Seq(Patch)
  BY DEF TypeInv, TypeOK
<1>2. patches' = [patches EXCEPT ![j] = Append(patches[j], patch)]
  BY DEF AddPatch
<1>3. patch.to = to /\ patch \in Patch
  BY DEF Patch
<1> HIDE DEF patch
<1>4. patches'[j] = Append(patches[j], patch)
  BY <1>1, <1>2
<1>5. /\ Append(patches[j], patch) # <<>>
      /\ Len(Append(patches[j], patch)) = Len(patches[j]) + 1
      /\ Append(patches[j], patch)[Len(patches[j]) + 1] = patch
      /\ patches[j] # <<>> => Head(Append(patches[j], patch)) = Head(patches[j])
  BY <1>1, <1>3
<1> QED
  BY <1>1, <1>2, <1>3, <1>4, <1>5 DEF Last

(* What a step of a worker does to its job and to the others.               *)
RunWrites(j) ==
  \/ /\ patches'[j] = patches[j] /\ patches[j] = <<>>
     /\ run[j].pc \in {"load"} \cup Waiting /\ run'[j].pc \in {"idle", "load"}
     /\ run[j].pc = "load" => ~Unfinished(j)
  \/ patches'[j] = patches[j] /\ patches[j] = <<>> /\ run'[j].pc = "claim"
  \/ patches'[j] = patches[j] /\ run'[j].pc \notin Unclaimed \cup Waiting
  \/ /\ patches'[j] # <<>> /\ run'[j].pc \notin Unclaimed
     /\ run'[j].pc \in Waiting => Last(patches'[j]).to \in Ends
     /\ patches[j] # <<>> => Head(patches'[j]) = Head(patches[j])

(* Every step of a worker is one of these, and loads at most one other job. *)
LEMMA WorkerWrites ==
  ASSUME TypeInv, PatchesOfRun, NEW j \in Job, Worker(j)
  PROVE  /\ RunWrites(j)
         /\ \A i \in Job \ {j} :
              /\ patches'[i] = patches[i]
              /\ run'[i] = run[i] \/ (run[i].pc = "idle" /\ run'[i].pc = "load")
         /\ \A i \in Range(waitQueue) : i \in Range(waitQueue') \/ run'[i].pc = "load"
         /\ UNCHANGED <<jobFile, server, enqueuer, canceller, patcher, recovery>>
<1>0. /\ run \in [Job -> RunState] /\ patches \in [Job -> Seq(Patch)]
      /\ waitQueue \in Seq(Job) /\ run[j] \in RunState
  BY DEF TypeInv, TypeOK
<1>1. UNCHANGED <<jobFile, server, enqueuer, canceller, patcher, recovery>>
  BY DEF Worker, RunLoad, RunClaim, RunDrop, RunScenario, RunStep, RunReport, RunThrows,
         RunRecord, RunCheck, RunRecording, RunEnd, files, requests, host
<1>2. Range(waitQueue) \subseteq Job
  BY <1>0 DEF Range
<1>13. waitQueue' = waitQueue => Range(waitQueue') = Range(waitQueue)
  BY DEF Range
<1>3. CASE RunReturns(j) /\ patches' = patches /\ patches[j] = <<>>
           /\ run[j].pc \in {"load"} \cup Waiting
           /\ (run[j].pc = "load" => ~Unfinished(j))
  BY <1>1, <1>2, <1>3, ReturnsKeep DEF RunWrites
<1>4. ASSUME UNCHANGED waitQueue, \A i \in Job \ {j} : run'[i] = run[i], patches' = patches,
             \/ run'[j].pc = "claim" /\ patches[j] = <<>>
             \/ run'[j].pc \notin Unclaimed \cup Waiting
      PROVE  RunWrites(j) /\ (\A i \in Job \ {j} :
                patches'[i] = patches[i] /\ run'[i] = run[i]) /\ waitQueue' = waitQueue
  BY <1>4 DEF RunWrites
<1>5. ASSUME UNCHANGED waitQueue, \A i \in Job \ {j} : run'[i] = run[i],
             NEW to \in {"running", "progress", "dropped"} \cup Terminal,
             NEW written \in BOOLEAN, AddPatch(j, to, written), run'[j].pc \notin Unclaimed,
             run'[j].pc \in Waiting => to \in Ends
      PROVE  RunWrites(j) /\ (\A i \in Job \ {j} :
                patches'[i] = patches[i] /\ run'[i] = run[i]) /\ waitQueue' = waitQueue
  BY <1>5, AddPatchLast DEF RunWrites
<1>6. ASSUME NEW written \in BOOLEAN, Finish(j, written), UNCHANGED waitQueue,
             run[j].pc \in {"record", "check-run", "recording"}
      PROVE  RunWrites(j) /\ (\A i \in Job \ {j} :
                patches'[i] = patches[i] /\ run'[i] = run[i]) /\ waitQueue' = waitQueue
  <2>1. JobStatusOf(run[j].status) \in Terminal /\ Terminal \subseteq Ends
    BY <1>6, StatusType DEF TypeInv, Fits, Ends
  <2>2. /\ run'[j].pc = "ending" /\ \A i \in Job \ {j} : run'[i] = run[i]
        /\ AddPatch(j, JobStatusOf(run[j].status), written)
    BY <1>0, <1>6 DEF Finish, RunGoto, RunState
  <2>3. run'[j].pc \notin Unclaimed
    BY <2>2 DEF Unclaimed
  <2> QED
    BY <1>5, <1>6, <2>1, <2>2, <2>3
<1>7. CASE RunLoad(j)
  <2>1. patches' = patches /\ run[j].pc = "load" /\ patches[j] = <<>>
    BY <1>7 DEF RunLoad, PatchesOfRun, Unclaimed
  <2>2. CASE RunReturns(j) /\ (Load(j) = None \/ IsTerminal(Load(j)))
    BY <1>3, <2>1, <2>2 DEF Unfinished
  <2>3. CASE ~(Load(j) = None \/ IsTerminal(Load(j)))
    <3>1. run'[j].pc = "claim" /\ (\A i \in Job \ {j} : run'[i] = run[i])
          /\ UNCHANGED waitQueue
      BY <1>0, <1>7, <2>3 DEF RunLoad, RunGoto, RunState
    <3> QED
      BY <1>1, <1>13, <1>4, <2>1, <3>1
  <2> QED
    BY <1>1, <1>7, <2>2, <2>3 DEF RunLoad
<1>8. CASE RunClaim(j)
  <2>1. UNCHANGED waitQueue
    BY <1>8 DEF RunClaim
  <2>2. CASE j \in pending
    <3>1. /\ run'[j].pc = "starting" /\ AddPatch(j, "running", FALSE)
          /\ \A i \in Job \ {j} : run'[i] = run[i]
      BY <1>0, <1>8, <2>2 DEF RunClaim, RunGoto, RunState
    <3>2. run'[j].pc \notin Unclaimed \cup Waiting
      BY <3>1 DEF Unclaimed, Waiting
    <3> QED
      BY <1>1, <1>13, <1>5, <2>1, <3>1, <3>2
  <2>3. CASE j \notin pending
    <3>1. /\ run'[j].pc = "dropping" /\ AddPatch(j, "dropped", FALSE)
          /\ \A i \in Job \ {j} : run'[i] = run[i]
      BY <1>0, <1>8, <2>3 DEF RunClaim, RunGoto, RunState
    <3>2. run'[j].pc \notin Unclaimed /\ "dropped" \in Ends
      BY <3>1 DEF Unclaimed, Ends
    <3> QED
      BY <1>1, <1>13, <1>5, <2>1, <3>1, <3>2
  <2> QED
    BY <2>2, <2>3
<1>9. CASE RunDrop(j) \/ RunEnd(j)
  <2>1. /\ RunReturns(j) /\ patches' = patches /\ patches[j] = <<>>
        /\ run[j].pc \in Waiting /\ run[j].pc # "load"
    BY <1>9 DEF RunDrop, RunEnd, Waiting
  <2> QED
    BY <1>3, <2>1
<1>10. CASE RunScenario(j) \/ RunReport(j) \/ RunThrows(j)
  <2>1. /\ UNCHANGED waitQueue /\ patches' = patches
        /\ \A i \in Job \ {j} : run'[i] = run[i]
        /\ run'[j].pc \in {"scenario", "record", "check-run"}
    <3>1. CASE RunScenario(j)
      BY <1>0, <3>1 DEF RunScenario, RunGoto, RunState
    <3>2. CASE RunReport(j)
      BY <1>0, <3>2 DEF RunReport, RunState
    <3>3. CASE RunThrows(j)
      BY <1>0, <3>3 DEF RunThrows, RunState
    <3> QED
      BY <1>10, <3>1, <3>2, <3>3
  <2>2. run'[j].pc \notin Unclaimed \cup Waiting
    BY <2>1 DEF Unclaimed, Waiting
  <2> QED
    BY <1>1, <1>13, <1>4, <2>1, <2>2
<1>11. CASE RunStep(j)
  <2>1. /\ UNCHANGED waitQueue /\ AddPatch(j, "progress", FALSE)
        /\ \A i \in Job \ {j} : run'[i] = run[i]
        /\ run'[j].pc = "scenario"
    BY <1>0, <1>11 DEF RunStep, RunState
  <2>2. run'[j].pc \notin Unclaimed \cup Waiting
    BY <2>1 DEF Unclaimed, Waiting
  <2> QED
    BY <1>1, <1>13, <1>5, <2>1, <2>2
<1>12. CASE RunRecord(j) \/ RunCheck(j) \/ RunRecording(j)
  <2>1. UNCHANGED waitQueue /\ run[j].pc \in {"record", "check-run", "recording"}
    BY <1>12 DEF RunRecord, RunCheck, RunRecording
  <2>2. CASE \E written \in BOOLEAN : Finish(j, written)
    BY <1>1, <1>13, <1>6, <2>1, <2>2
  <2>3. CASE ~\E written \in BOOLEAN : Finish(j, written)
    <3>1. /\ patches' = patches /\ (\A i \in Job \ {j} : run'[i] = run[i])
          /\ run'[j].pc \in {"recording", "check-run", "record"}
      <4>1. ~Finish(j, TRUE) /\ ~Finish(j, FALSE)
        BY <2>3
      <4>2. CASE RunRecord(j) /\ RunMayBeRecorded(j)
        BY <1>0, <4>2 DEF RunRecord, RunGoto, RunState
      <4>3. CASE RunRecord(j) /\ ~RunMayBeRecorded(j)
        <5>1. ~run[j].caught
          BY <4>1, <4>3 DEF RunRecord
        <5> QED
          BY <1>0, <4>3, <5>1 DEF RunRecord, RunState
      <4>4. CASE RunCheck(j)
        BY <1>0, <4>1, <4>4 DEF RunCheck, RunGoto, RunState
      <4>5. CASE RunRecording(j)
        BY <4>1, <4>5 DEF RunRecording
      <4> QED
        BY <1>12, <4>2, <4>3, <4>4, <4>5
    <3>2. run'[j].pc \notin Unclaimed \cup Waiting
      BY <3>1 DEF Unclaimed, Waiting
    <3> QED
      BY <1>1, <1>13, <1>4, <2>1, <3>1, <3>2
  <2> QED
    BY <2>2, <2>3
<1> QED
  BY <1>7, <1>8, <1>9, <1>10, <1>11, <1>12 DEF Worker

(* What is left of the patches of a job when the first one is done.         *)
LEMMA PatchDoneLeaves ==
  ASSUME TypeInv, NEW j \in Job, patches[j] # <<>>, PatchDone(j)
  PROVE  /\ patcher'[j].pc = "load"
         /\ patches'[j] # <<>> => Last(patches'[j]) = Last(patches[j])
         /\ patches'[j] = <<>> => Last(patches[j]) = Head(patches[j])
         /\ \A i \in Job \ {j} : patches'[i] = patches[i] /\ patcher'[i] = patcher[i]
<1>1. /\ patches[j] \in Seq(Patch) /\ patches'[j] = Tail(patches[j])
      /\ patcher'[j].pc = "load"
      /\ \A i \in Job \ {j} : patches'[i] = patches[i] /\ patcher'[i] = patcher[i]
  BY DEF TypeInv, TypeOK, PatchDone, IdlePatcher
<1>2. \A s \in Seq(Patch) : s # <<>> =>
        /\ Tail(s) # <<>> => Tail(s)[Len(Tail(s))] = s[Len(s)]
        /\ Tail(s) = <<>> => s[Len(s)] = Head(s)
  <2> TAKE s \in Seq(Patch)
  <2> HAVE s # <<>>
  <2>1. Len(s) \in Nat \ {0} /\ Len(Tail(s)) = Len(s) - 1
    OBVIOUS
  <2>2. Tail(s) # <<>> => Len(s) - 1 \in 1 .. Len(Tail(s))
    BY <2>1
  <2>3. \A n \in 1 .. Len(Tail(s)) : Tail(s)[n] = s[n + 1]
    BY <2>1
  <2>4. Tail(s) = <<>> => Len(s) = 1
    BY <2>1
  <2> QED
    BY <2>1, <2>2, <2>3, <2>4
<1> QED
  BY <1>1, <1>2 DEF Last

(* A patch that ends a job writes a terminal record.                        *)
LEMMA EndingPatches ==
  ASSUME NEW patch, NEW job, patch.to \in Ends
  PROVE  IsTerminal(Updated(patch, job)) \/ job \notin JobRecord
<1>1. CASE patch.to = "dropped"
  <2>1. Updated(patch, job) =
          IF IsTerminal(job) THEN job ELSE [job EXCEPT !.status = "cancelled"]
    BY <1>1 DEF Updated
  <2> QED
    BY <2>1 DEF IsTerminal, Terminal, JobRecord
<1>2. CASE patch.to \in Terminal
  <2>1. Updated(patch, job) = [status |-> patch.to, runRecordWritten |-> patch.written]
    BY <1>2 DEF Updated, Terminal
  <2> QED
    BY <1>2, <2>1 DEF IsTerminal
<1> QED
  BY <1>1, <1>2 DEF Ends

(* The steps of a worker keep PatchesOfRun.                                 *)
LEMMA WorkerPatches ==
  ASSUME TypeInv, PatchesOfRun, NEW j \in Job, Worker(j)
  PROVE  PatchesOfRun'
<1>1. /\ RunWrites(j) /\ patcher' = patcher
      /\ \A i \in Job \ {j} :
           /\ patches'[i] = patches[i]
           /\ run'[i] = run[i] \/ (run[i].pc = "idle" /\ run'[i].pc = "load")
  BY WorkerWrites
<1>2. ASSUME NEW i \in Job \ {j}
      PROVE  /\ run'[i].pc \in Unclaimed => run[i].pc \in Unclaimed
             /\ run'[i].pc \in Waiting => run[i].pc \in Waiting
  BY <1>1 DEF Unclaimed, Waiting
<1>3. patcher[j].pc # "load" => patches[j] # <<>>
  BY DEF TypeInv, Fits
<1>4. /\ run'[j].pc \in Unclaimed => patches'[j] = <<>>
      /\ run'[j].pc \in Waiting /\ patches'[j] # <<>> => Last(patches'[j]).to \in Ends
      /\ patcher[j].pc # "load" => Head(patches'[j]) = Head(patches[j])
  BY <1>1, <1>3 DEF RunWrites, Unclaimed, Waiting
<1> QED
  BY <1>1, <1>2, <1>4 DEF PatchesOfRun

(* The steps of the patches keep PatchesOfRun.                              *)
LEMMA PatcherPatches ==
  ASSUME TypeInv, PatchesOfRun, NEW j \in Job, Patcher(j)
  PROVE  PatchesOfRun'
<1>0. /\ run' = run /\ patches[j] # <<>>
      /\ patcher \in [Job -> [pc : {"load", "open", "write"},
                              record : JobRecord \cup {None}]]
  BY DEF Patcher, PatchLoad, PatchOpen, PatchWrite, TypeInv, TypeOK, Fits
<1>1. CASE PatchDone(j)
  BY <1>0, <1>1, PatchDoneLeaves DEF PatchesOfRun
<1>2. CASE PatchLoad(j) /\ ~PatchDone(j)
  <2> DEFINE next == Updated(Head(patches[j]), Load(j))
  <2>1. /\ patches' = patches /\ Load(j) # None
        /\ patcher' = [patcher EXCEPT ![j] = [pc |-> "open", record |-> next]]
    BY <1>2 DEF PatchLoad
  <2>2. Load(j) \in JobRecord
    BY <2>1, LoadType DEF TypeInv
  <2>3. Head(patches[j]).to \in Ends => IsTerminal(next)
    BY <2>2, EndingPatches
  <2> HIDE DEF next
  <2>4. /\ patcher'[j].record = next
        /\ \A i \in Job \ {j} : patcher'[i] = patcher[i]
    BY <1>0, <2>1
  <2> QED
    BY <1>0, <2>1, <2>3, <2>4 DEF PatchesOfRun
<1>3. CASE PatchOpen(j)
  <2>1. /\ patches' = patches /\ patcher[j].pc # "load"
        /\ patcher'[j].record = patcher[j].record
        /\ \A i \in Job \ {j} : patcher'[i] = patcher[i]
    BY <1>0, <1>3 DEF PatchOpen
  <2> QED
    BY <1>0, <2>1 DEF PatchesOfRun
<1> QED
  BY <1>1, <1>2, <1>3 DEF Patcher, PatchWrite

(* Every step keeps PatchesOfRun: only workers and patches concern it.      *)
LEMMA PatchesStep == TypeInv /\ PatchesOfRun /\ [Next]_vars => PatchesOfRun'
<1> SUFFICES ASSUME TypeInv, PatchesOfRun, [Next]_vars PROVE PatchesOfRun'
  OBVIOUS
<1>1. ASSUME NEW j \in Job, Worker(j) PROVE PatchesOfRun'
  BY <1>1, WorkerPatches
<1>2. ASSUME NEW j \in Job, Patcher(j) PROVE PatchesOfRun'
  BY <1>2, PatcherPatches
<1>3. ASSUME patches' = patches, patcher' = patcher,
             \A j \in Job : run'[j] = run[j] \/ (run[j].pc = "idle" /\ run'[j].pc = "load")
      PROVE  PatchesOfRun'
  <2>1. \A j \in Job : /\ run'[j].pc \in Unclaimed => run[j].pc \in Unclaimed
                       /\ run'[j].pc \in Waiting => run[j].pc \in Waiting
    BY <1>3 DEF Unclaimed, Waiting
  <2> QED
    BY <1>3, <2>1 DEF PatchesOfRun
<1>4. ASSUME NEW e \in Enqueuer, (\E j \in Job : Enqueue(e, j)) \/ Enqueues(e)
      PROVE  PatchesOfRun'
  <2>1. patches' = patches /\ patcher' = patcher
    BY <1>4 DEF Enqueue, Enqueues, EnqueueCheckRun, EnqueueCheckJob, EnqueueAccept,
                EnqueueOpen, EnqueueWrite, EnqueuePush, memory
  <2>2. CASE EnqueuePush(e)
    <3>1. /\ Append(waitQueue, enqueuer[e].job) \in Seq(Job) /\ run \in [Job -> RunState]
          /\ Pump(run, Append(waitQueue, enqueuer[e].job), active)
      BY <2>2 DEF EnqueuePush, TypeInv, TypeOK, Fits
    <3> QED
      BY <1>3, <2>1, <3>1, PumpKeeps
  <2>3. CASE ~EnqueuePush(e)
    <3>1. run' = run
      BY <1>4, <2>3 DEF Enqueue, Enqueues, EnqueueCheckRun, EnqueueCheckJob,
                        EnqueueAccept, EnqueueOpen, EnqueueWrite, memory
    <3> QED
      BY <1>3, <2>1, <3>1
  <2> QED
    BY <2>2, <2>3
<1>5. ASSUME NEW c \in Canceller, (\E j \in Job : Cancel(c, j)) \/ Cancels(c)
      PROVE  PatchesOfRun'
  <2>1. patches' = patches /\ patcher' = patcher /\ run' = run
    BY <1>5 DEF Cancel, Cancels, CancelQueued, CancelRunning, CancelCheckRun,
                CancelRecord, CancelRecording, CancelRecheck, CancelOpen, CancelWrite,
                memory
  <2> QED
    BY <1>3, <2>1
<1>6. CASE Recovers \/ UNCHANGED vars
  <2>1. patches' = patches /\ patcher' = patcher /\ run' = run
    BY <1>6 DEF Recovers, RecoverOpen, RecoverWrite, Serve, memory, vars
  <2> QED
    BY <1>3, <2>1
<1>7. CASE Crash
  <2>1. \A j \in Job : patches'[j] = <<>> /\ patcher'[j].pc = "load" /\ run'[j].pc = "idle"
    BY <1>7 DEF Crash, IdlePatcher, IdleRun
  <2> QED
    BY <2>1 DEF PatchesOfRun, Waiting
<1> QED
  BY <1>1, <1>2, <1>4, <1>5, <1>6, <1>7 DEF Next

(* A step that leaves the file and the patches of a job leaves it settled,  *)
(* as long as what was coming still comes.                                  *)
LEMMA SettledWhenKept ==
  ASSUME NEW j \in Job, Settled(j), jobFile'[j] = jobFile[j], patches'[j] = patches[j],
         run'[j] = run[j] \/ (run[j].pc = "idle" /\ run'[j].pc = "load"),
         Coming(j) => Coming(j)' \/ run'[j].pc = "load"
  PROVE  Settled(j)'
<1>1. Unfinished(j)' = Unfinished(j)
  BY DEF Unfinished, Load, IsTerminal
<1>2. run'[j].pc \in {"idle"} \cup Waiting => run'[j] = run[j]
  BY DEF Waiting
<1>3. run'[j].pc = "load" => run'[j].pc \notin {"idle"} \cup Waiting
  BY DEF Waiting
<1> QED
  BY <1>1, <1>2, <1>3 DEF Settled

(* No step takes back a request to cancel: it is made, done or lost.        *)
LEMMA UncancelledBefore ==
  ASSUME TypeInv, [Next]_vars, NEW j \in Job, Uncancelled(j)'
  PROVE  Uncancelled(j)
<1>0. canceller \in [Canceller -> CancellerState]
  BY DEF TypeInv, TypeOK
<1>1. CASE canceller' = canceller
  BY <1>1 DEF Uncancelled
<1>2. ASSUME NEW c \in Canceller, (\E i \in Job : Cancel(c, i)) \/ Cancels(c)
      PROVE  Uncancelled(j)
  <2>1. \A d \in Canceller \ {c} : canceller'[d] = canceller[d]
    BY <1>0, <1>2 DEF Cancel, Cancels, CancelQueued, CancelRunning, CancelCheckRun,
                      CancelRecord, CancelRecording, CancelRecheck, CancelOpen,
                      CancelWrite, CancellerGoto, CancelKeep
  <2>2. canceller[c].pc # "idle" =>
          canceller'[c].pc # "idle" /\ canceller'[c].job = canceller[c].job
    <3>1. canceller[c].pc # "idle" => Cancels(c)
      BY <1>2 DEF Cancel
    <3> QED
      BY <1>0, <3>1 DEF Cancels, CancelQueued, CancelRunning, CancelCheckRun,
                        CancelRecord, CancelRecording, CancelRecheck, CancelOpen,
                        CancelWrite, CancellerGoto, CancelKeep, CancellerState
  <2> QED
    BY <2>1, <2>2 DEF Uncancelled
<1>3. CASE Crash
  <2>1. \A c \in Canceller : canceller[c].pc # "idle" =>
          canceller'[c].pc # "idle" /\ canceller'[c].job = canceller[c].job
    BY <1>0, <1>3 DEF Crash, CancellerState
  <2> QED
    BY <2>1 DEF Uncancelled
<1>4. ASSUME NEW i \in Job, Worker(i) \/ Patcher(i) PROVE canceller' = canceller
  BY <1>4 DEF Worker, RunLoad, RunClaim, RunDrop, RunScenario, RunStep, RunReport,
              RunThrows, RunRecord, RunCheck, RunRecording, RunEnd, Patcher, PatchLoad,
              PatchOpen, PatchWrite, requests
<1>5. ASSUME NEW e \in Enqueuer, (\E i \in Job : Enqueue(e, i)) \/ Enqueues(e)
      PROVE  canceller' = canceller
  BY <1>5 DEF Enqueue, Enqueues, EnqueueCheckRun, EnqueueCheckJob, EnqueueAccept,
              EnqueueOpen, EnqueueWrite, EnqueuePush
<1>6. CASE Recovers \/ UNCHANGED vars
  BY <1>1, <1>6 DEF Recovers, RecoverOpen, RecoverWrite, Serve, requests, vars
<1> QED
  BY <1>1, <1>2, <1>3, <1>4, <1>5, <1>6 DEF Next

(* The steps of a worker settle its job and leave the others settled.       *)
LEMMA WorkerSettles ==
  ASSUME TypeInv, PatchesOfRun, NEW j \in Job, Worker(j), NEW i \in Job, Settled(i)
  PROVE  Settled(i)'
<1>1. /\ RunWrites(j)
      /\ i # j => patches'[i] = patches[i]
      /\ i # j => run'[i] = run[i] \/ (run[i].pc = "idle" /\ run'[i].pc = "load")
      /\ i \in Range(waitQueue) => i \in Range(waitQueue') \/ run'[i].pc = "load"
      /\ jobFile' = jobFile /\ enqueuer' = enqueuer
  BY WorkerWrites
<1>2. Coming(i) => Coming(i)' \/ run'[i].pc = "load"
  BY <1>1 DEF Coming
<1>3. CASE i # j
  BY <1>1, <1>2, <1>3, SettledWhenKept
<1>4. CASE i = j
  <2>1. Unfinished(j)' = Unfinished(j)
    BY <1>1 DEF Unfinished, Load, IsTerminal
  <2>2. run'[j].pc = "load" => run'[j].pc \notin {"idle"} \cup Waiting
    BY DEF Waiting
  <2>3. \/ patches'[j] # <<>>
        \/ run'[j].pc \notin {"idle"} \cup Waiting
        \/ /\ patches[j] = <<>> /\ run[j].pc \in {"load"} \cup Waiting
           /\ run[j].pc = "load" => ~Unfinished(j)
    BY <1>1 DEF RunWrites, Waiting, Unclaimed
  <2> QED
    BY <1>2, <1>4, <2>1, <2>2, <2>3 DEF Settled
<1> QED
  BY <1>3, <1>4

(* The last patch of a job that nobody else brings settles it.              *)
LEMMA PatcherSettles ==
  ASSUME TypeInv, PatchesOfRun, NEW j \in Job, Patcher(j), NEW i \in Job, Settled(i)
  PROVE  Settled(i)'
<1>0. /\ run' = run /\ patches[j] # <<>> /\ waitQueue' = waitQueue
      /\ enqueuer' = enqueuer /\ jobFile \in [Job -> JobRecord \cup Unreadable]
  BY DEF Patcher, PatchLoad, PatchOpen, PatchWrite, TypeInv, TypeOK, Fits, requests
<1>1. Coming(i) => Coming(i)'
  BY <1>0 DEF Coming, Range
<1>2. CASE i # j
  <2>1. jobFile'[i] = jobFile[i]
    BY <1>0, <1>2 DEF Patcher, PatchLoad, PatchOpen, PatchWrite, OpenJob, WriteJob, files
  <2>2. patches'[i] = patches[i]
    <3>1. PatchDone(j) \/ patches' = patches
      BY DEF Patcher, PatchLoad, PatchOpen, PatchWrite
    <3> QED
      BY <1>0, <1>2, <3>1, PatchDoneLeaves
  <2> QED
    BY <1>0, <1>1, <2>1, <2>2, SettledWhenKept
<1>3. CASE i = j /\ patches'[j] # <<>>
  BY <1>3 DEF Settled
<1>4. CASE i = j /\ run[j].pc \notin {"idle"} \cup Waiting
  BY <1>0, <1>4 DEF Settled
<1>5. CASE i = j /\ patches'[j] = <<>> /\ run[j].pc \in {"idle"} \cup Waiting
  <2>1. PatchDone(j) /\ ((PatchLoad(j) /\ jobFile' = jobFile) \/ PatchWrite(j))
    BY <1>0, <1>5 DEF Patcher, PatchLoad, PatchOpen, PatchWrite, files
  <2>2. run[j].pc \in Waiting
    BY <1>0, <1>5 DEF PatchesOfRun, Unclaimed, Waiting
  <2>3. Head(patches[j]).to \in Ends
    BY <1>0, <1>5, <2>1, <2>2, PatchDoneLeaves DEF PatchesOfRun
  <2>4. CASE PatchLoad(j) /\ jobFile' = jobFile
    <3>1. Load(j) = None \/ IsTerminal(Load(j))
      <4>1. \/ patcher' = [patcher EXCEPT ![j] =
                 [pc |-> "open", record |-> Updated(Head(patches[j]), Load(j))]]
               /\ patches' = patches
            \/ Load(j) = None
            \/ Revives(Updated(Head(patches[j]), Load(j)), Load(j))
        BY <2>4 DEF PatchLoad
      <4> QED
        BY <1>0, <1>5, <4>1 DEF Revives
    <3> QED
      BY <1>5, <2>4, <3>1 DEF Settled, Unfinished, Load, IsTerminal
  <2>5. CASE PatchWrite(j)
    <3>1. IsTerminal(patcher[j].record) /\ patcher[j].record \in JobRecord
      BY <2>3, <2>5 DEF PatchWrite, PatchesOfRun, TypeInv, Fits
    <3>2. jobFile'[j] = patcher[j].record \/ jobFile'[j] = Garbled
      BY <1>0, <2>5 DEF PatchWrite, WriteJob
    <3> QED
      BY <1>5, <3>1, <3>2 DEF Settled, Unfinished, Load, IsTerminal, Unreadable
  <2> QED
    BY <2>1, <2>4, <2>5
<1> QED
  BY <1>2, <1>3, <1>4, <1>5

(* Requests to enqueue: who empties a file or writes it is coming.          *)
LEMMA EnqueuerSettles ==
  ASSUME TypeInv, NEW e \in Enqueuer, (\E j \in Job : Enqueue(e, j)) \/ Enqueues(e),
         NEW i \in Job, Settled(i)
  PROVE  Settled(i)'
<1>0. /\ patches' = patches /\ enqueuer \in [Enqueuer -> EnqueuerState]
      /\ run \in [Job -> RunState] /\ waitQueue \in Seq(Job)
      /\ enqueuer[e].pc # "idle" => enqueuer[e].job \in Job
      /\ jobFile \in [Job -> JobRecord \cup Unreadable]
  BY DEF Enqueue, Enqueues, EnqueueCheckRun, EnqueueCheckJob, EnqueueAccept,
         EnqueueOpen, EnqueueWrite, EnqueuePush, memory, TypeInv, TypeOK, Fits
<1>1. \A d \in Enqueuer \ {e} : enqueuer'[d] = enqueuer[d]
  BY <1>0 DEF Enqueue, Enqueues, EnqueueCheckRun, EnqueueCheckJob, EnqueueAccept,
              EnqueueOpen, EnqueueWrite, EnqueuePush, EnqueuerGoto
<1>2. CASE EnqueueOpen(e) \/ EnqueueWrite(e)
  <2>1. /\ run' = run /\ waitQueue' = waitQueue
        /\ enqueuer[e].pc \in {"open", "write"}
        /\ enqueuer'[e].pc \in {"open", "write", "push"}
        /\ enqueuer'[e].job = enqueuer[e].job
    BY <1>0, <1>2 DEF EnqueueOpen, EnqueueWrite, EnqueuerGoto, memory, EnqueuerState
  <2>2. Coming(i) => Coming(i)'
    BY <1>1, <2>1 DEF Coming, Range
  <2>3. CASE i = enqueuer[e].job
    BY <2>1, <2>3 DEF Settled, Coming
  <2>4. CASE i # enqueuer[e].job
    <3>1. jobFile'[i] = jobFile[i]
      BY <1>0, <1>2, <2>4 DEF EnqueueOpen, EnqueueWrite, OpenJob, WriteJob
    <3> QED
      BY <1>0, <2>1, <2>2, <3>1, SettledWhenKept
  <2> QED
    BY <2>3, <2>4
<1>3. CASE EnqueuePush(e)
  <2> DEFINE queue == Append(waitQueue, enqueuer[e].job)
  <2>1. /\ enqueuer[e].job \in Job /\ queue \in Seq(Job) /\ Pump(run, queue, active)
        /\ jobFile' = jobFile
    BY <1>0, <1>3 DEF EnqueuePush, files
  <2>2. i \in Range(waitQueue) \/ i = enqueuer[e].job => i \in Range(queue)
    <3>1. /\ Len(queue) = Len(waitQueue) + 1 /\ queue[Len(waitQueue) + 1] = enqueuer[e].job
          /\ \A n \in 1 .. Len(waitQueue) : queue[n] = waitQueue[n]
          /\ Len(waitQueue) \in Nat
      BY <1>0, <2>1
    <3>2. DOMAIN waitQueue = 1 .. Len(waitQueue) /\ DOMAIN queue = 1 .. Len(waitQueue) + 1
      BY <1>0, <2>1, <3>1
    <3> HIDE DEF queue
    <3> QED
      BY <3>1, <3>2 DEF Range
  <2> HIDE DEF queue
  <2>3. /\ i \in Range(queue) => i \in Range(waitQueue') \/ run'[i].pc = "load"
        /\ run'[i] = run[i] \/ (run[i].pc = "idle" /\ run'[i].pc = "load")
    BY <1>0, <2>1, PumpKeeps
  <2>4. Coming(i) => Coming(i)' \/ run'[i].pc = "load"
    BY <1>1, <2>2, <2>3 DEF Coming
  <2> QED
    BY <1>0, <2>1, <2>3, <2>4, SettledWhenKept
<1>4. CASE ~(EnqueueOpen(e) \/ EnqueueWrite(e) \/ EnqueuePush(e))
  <2>1. /\ run' = run /\ waitQueue' = waitQueue /\ jobFile' = jobFile
        /\ enqueuer[e].pc \notin {"open", "write", "push"}
    BY <1>4 DEF Enqueue, Enqueues, EnqueueCheckRun, EnqueueCheckJob, EnqueueAccept,
                memory, files
  <2>2. Coming(i) => Coming(i)'
    BY <1>1, <2>1 DEF Coming, Range
  <2> QED
    BY <1>0, <2>1, <2>2, SettledWhenKept
<1> QED
  BY <1>2, <1>3, <1>4

(* Requests to cancel touch no job but theirs.                              *)
LEMMA CancellerSettles ==
  ASSUME TypeInv, NEW c \in Canceller, (\E j \in Job : Cancel(c, j)) \/ Cancels(c),
         NEW i \in Job, Uncancelled(i), Settled(i)
  PROVE  Settled(i)'
<1>0. /\ patches' = patches /\ run' = run /\ enqueuer' = enqueuer
      /\ waitQueue \in Seq(Job) /\ jobFile \in [Job -> JobRecord \cup Unreadable]
  BY DEF Cancel, Cancels, CancelQueued, CancelRunning, CancelCheckRun, CancelRecord,
         CancelRecording, CancelRecheck, CancelOpen, CancelWrite, memory, TypeInv, TypeOK
<1>1. Cancels(c) => i # canceller[c].job
  BY DEF Cancels, CancelQueued, CancelRunning, CancelCheckRun, CancelRecord,
         CancelRecording, CancelRecheck, CancelOpen, CancelWrite, Uncancelled
<1>2. jobFile'[i] = jobFile[i]
  BY <1>0, <1>1 DEF Cancel, Cancels, CancelQueued, CancelRunning, CancelCheckRun,
         CancelRecord, CancelRecording, CancelRecheck, CancelOpen, CancelWrite,
         OpenJob, WriteJob, files
<1>3. i \in Range(waitQueue) => i \in Range(waitQueue')
  <2>1. CASE CancelQueued(c)
    BY <1>0, <1>1, <2>1, WithdrawKeeps DEF Cancels, CancelQueued
  <2>2. CASE ~CancelQueued(c)
    <3>1. waitQueue' = waitQueue
      BY <2>2 DEF Cancel, Cancels, CancelRunning, CancelCheckRun, CancelRecord,
                  CancelRecording, CancelRecheck, CancelOpen, CancelWrite, memory
    <3> QED
      BY <3>1 DEF Range
  <2> QED
    BY <2>1, <2>2
<1>4. Coming(i) => Coming(i)'
  BY <1>0, <1>3 DEF Coming
<1> QED
  BY <1>0, <1>2, <1>4, SettledWhenKept

(* No step but those of the recovery writes its records.                    *)
LEMMA RecoversFirstStep == RecoversFirst /\ [Next]_vars => RecoversFirst'
<1> SUFFICES ASSUME RecoversFirst, [Next]_vars PROVE RecoversFirst'
  OBVIOUS
<1>1. CASE UNCHANGED <<server, recovery>>
  BY <1>1 DEF RecoversFirst
<1>2. CASE Recovers \/ Crash
  BY <1>2 DEF Recovers, RecoverOpen, RecoverWrite, Serve, Crash, RecoversFirst
<1>3. CASE ~Recovers /\ ~Crash
  BY <1>1, <1>3
     DEF Next, vars, host, Worker, RunLoad, RunClaim, RunDrop, RunScenario, RunStep,
         RunReport, RunThrows, RunRecord, RunCheck, RunRecording, RunEnd, Patcher,
         PatchLoad, PatchOpen, PatchWrite, Enqueue, Enqueues, EnqueueCheckRun,
         EnqueueCheckJob, EnqueueAccept, EnqueueOpen, EnqueueWrite, EnqueuePush, Cancel,
         Cancels, CancelQueued, CancelRunning, CancelCheckRun, CancelRecord,
         CancelRecording, CancelRecheck, CancelOpen, CancelWrite
<1> QED
  BY <1>2, <1>3

(* Every step keeps the jobs settled that nobody asked to cancel.           *)
LEMMA QuietStep ==
  TypeInv /\ PatchesOfRun /\ RecoversFirst /\ QuietIsFinished /\ [Next]_vars
  => QuietIsFinished'
<1> SUFFICES ASSUME TypeInv, PatchesOfRun, RecoversFirst, QuietIsFinished, [Next]_vars,
                    server' = "up", NEW i \in Job, Uncancelled(i)'
             PROVE  Settled(i)'
  BY DEF QuietIsFinished
<1>0. Uncancelled(i)
  BY UncancelledBefore
<1>1. CASE Serve
  BY <1>1 DEF Serve, Settled, Unfinished, Load, IsTerminal, files
<1>2. ~Serve => server = "up"
  BY DEF Next, vars, host, Recovers, RecoverOpen, RecoverWrite, Crash, Worker, RunLoad,
         RunClaim, RunDrop, RunScenario, RunStep, RunReport, RunThrows, RunRecord,
         RunCheck, RunRecording, RunEnd, Patcher, PatchLoad, PatchOpen, PatchWrite,
         Enqueue, Enqueues, EnqueueCheckRun, EnqueueCheckJob, EnqueueAccept, EnqueueOpen,
         EnqueueWrite, EnqueuePush, Cancel, Cancels, CancelQueued, CancelRunning,
         CancelCheckRun, CancelRecord, CancelRecording, CancelRecheck, CancelOpen,
         CancelWrite
<1>3. ~Serve => Settled(i)
  BY <1>0, <1>2 DEF QuietIsFinished
<1>4. ASSUME ~Serve, NEW j \in Job, Worker(j) \/ Patcher(j) PROVE Settled(i)'
  BY <1>3, <1>4, WorkerSettles, PatcherSettles
<1>5. ASSUME ~Serve, NEW e \in Enqueuer, (\E j \in Job : Enqueue(e, j)) \/ Enqueues(e)
      PROVE  Settled(i)'
  BY <1>3, <1>5, EnqueuerSettles
<1>6. ASSUME ~Serve, NEW c \in Canceller, (\E j \in Job : Cancel(c, j)) \/ Cancels(c)
      PROVE  Settled(i)'
  BY <1>0, <1>3, <1>6, CancellerSettles
<1>7. ~Crash
  BY DEF Crash
<1>8. ~Serve => ~Recovers
  BY <1>2 DEF Recovers, RecoverOpen, RecoverWrite, RecoversFirst
<1>9. ASSUME ~Serve, UNCHANGED vars PROVE Settled(i)'
  <2>1. UNCHANGED <<jobFile, patches, run, waitQueue, enqueuer>>
    BY <1>9 DEF vars, files, memory, requests
  <2>2. Coming(i)' = Coming(i)
    BY <2>1 DEF Coming, Range
  <2> QED
    BY <1>3, <1>9, <2>1, <2>2, SettledWhenKept
<1> QED
  BY <1>1, <1>4, <1>5, <1>6, <1>7, <1>8, <1>9 DEF Next

(* No ghosts: whatever the interleaving, and however often the process dies, *)
(* an unfinished job file of a serving process is one somebody is still at   *)
(* work on, as long as nobody asked to cancel the job.                       *)
THEOREM NobodyIsAGhost == Spec => []NoGhost
<1>1. Init => PatchesOfRun /\ RecoversFirst /\ QuietIsFinished
  BY DEF Init, MemoryInit, PatchesOfRun, RecoversFirst, QuietIsFinished, Settled, Waiting,
         Unfinished, Load, Unreadable, IdleRun, IdlePatcher
<1>2. TypeInv /\ PatchesOfRun /\ RecoversFirst /\ QuietIsFinished /\ [Next]_vars
      => PatchesOfRun' /\ RecoversFirst' /\ QuietIsFinished'
  BY PatchesStep, RecoversFirstStep, QuietStep
<1>3. QuietIsFinished => NoGhost
  BY DEF QuietIsFinished, NoGhost, Uncancelled, Settled, AtWork, Coming
<1> QED
  BY <1>1, <1>2, <1>3, TypeAlways, PTL DEF Spec

=============================================================================
