------------------------ MODULE EvidenceWorkerProofs ------------------------
(***************************************************************************)
(* Proofs about EvidenceWorker, for any number of jobs, runs, cancels,     *)
(* imports and crashes: a job that is reported completed is projected, a   *)
(* relation change set has its revision for itself, a job that nobody      *)
(* disturbs settles as the ledger says, and a run that is alone hears a    *)
(* cancel.                                                                 *)
(*                                                                         *)
(* Whole job records travel through the memory of runs and cancels, so the *)
(* invariant speaks of every copy: none of them calls a job completed that *)
(* is not projected.  What the two histories of a job, the ledger's and    *)
(* the product's, say of one another is tied by the answer of the run.     *)
(***************************************************************************)
EXTENDS EvidenceWorker, FiniteSetTheorems, TLAPS

(* A run before its execution, while its controller is registered, and     *)
(* once the execution has committed.                                       *)
Before == {"idle", "command", "queue", "register", "begin", "progress",
           "workspace", "ledger", "execute", "returned", "refused"}

Projection == {"projecting", "snapshot", "project", "advance", "changeset",
               "settle", "thrown"}

Registered == {"begin", "progress", "workspace", "ledger", "execute", "executing"}
                \cup Projection

(* Once its record says that the job is at work. *)
Begun == (Registered \ {"begin"}) \cup {"last", "ended", "dead"}

AtWork == {"working", "projecting"}

(* What the job promised is in the product. *)
Projected(j) ==
  j \in objects /\ (kind[j] # "assessment" => changeSet[j] # None)

FunctionsOK ==
  /\ kind \in [Job -> Kind]
  /\ run \in [Run -> RunState]
  /\ job \in [Job -> Record \cup {None}]
  /\ cancel \in [Cancel -> CancelState]

(* What a run has asked the engine and been told, and what it has written  *)
(* by then.                                                                *)
RunOK(r) ==
  LET pc == run[r].pc
      j == run[r].job
  IN
  /\ pc = "idle" <=> j = None
  /\ pc # "idle" => run[r].record \in Record
  /\ pc \in {"command", "queue"} => run[r].record.phase = "queued"
  /\ pc \in Before => asked[r] = None /\ run[r].calls = 0
  /\ asked[r] # None => asked[r] = j
  /\ asked[r] = None => answer[r] = None
  /\ answer[r] \in {"committed", "failed"} => ledger[j].status = answer[r]
  /\ pc = "executing" => asked[r] # None
  /\ pc \in Projection => answer[r] = "committed" /\ j \notin empty
  /\ pc = "advance" => kind[j] = "import"
  /\ pc = "changeset" => kind[j] \in {"observation", "import"}
  /\ pc \in {"advance", "changeset"} => j \in objects
  /\ pc \in {"project", "changeset"} /\ kind[j] = "observation" =>
       run[r].basis > 0
  /\ pc = "settle" => Projected(j)
  /\ pc # "idle" /\ run[r].record.phase = "completed" => Projected(j)

CancelOK(c) ==
  LET j == cancel[c].job IN
  /\ cancel[c].pc = "idle" <=> j = None
  /\ j # None => /\ cancel[c].record \in Record
                 /\ job[j] # None
                 /\ cancel[c].record.phase = "completed" => Projected(j)

JobOK(j) ==
  /\ j \in objects \cup empty => ledger[j].status = "committed"
  /\ job[j] # None =>
       /\ job[j].phase = "completed" => Projected(j)
       /\ \E r \in Run : run[r].job = j
  /\ \A c \in 0 .. MaxRepair : sent[j][c] > 0 => \E r \in Run : asked[r] = j

ControllerOK ==
  \A j \in Job : controller[j] # None =>
    run[controller[j]].job = j /\ run[controller[j]].pc \in Registered

AbortedOK ==
  \A r \in aborted :
    run[r].job # None /\ \E c \in Cancel : cancel[c].job = run[r].job

(* The relation jobs that have moved the workspace on. *)
Moved == {j \in Job : kind[j] = "relation" /\ changeSet[j] # None}

AuthorsOK ==
  /\ revision > 0
  /\ \A i, j \in Moved : i # j => changeSet[i].to # changeSet[j].to
  /\ \A j \in Moved : changeSet[j].to <= revision /\ j \in objects
  /\ (\A j \in Job : kind[j] # "import") =>
       revision = 1 + imports + Cardinality(Moved)

(* A run that is the only one of its job. *)
Lone(r) ==
  run[r].job # None /\ \A q \in Run \ {r} : run[q].job # run[r].job

(* It finds no record, keeps its controller, and what is read of its job   *)
(* as being at work is read after it has begun.                            *)
LoneOK(r) ==
  LET pc == run[r].pc
      j == run[r].job
  IN
  Lone(r) =>
    /\ pc \notin {"returned", "refused"}
    /\ pc \in {"command", "queue"} => job[j] = None
    /\ pc \in Registered => controller[j] = r
    /\ job[j] # None /\ job[j].phase \in AtWork => pc \in Begun
    /\ \A c \in Cancel :
         cancel[c].job = j /\ cancel[c].record.phase \in AtWork =>
           /\ pc \in Begun
           /\ cancel[c].pc \in {"write", "done"} =>
                r \in aborted \/ pc \in {"last", "ended", "dead"}

Calls(j) == Cardinality({c \in 0 .. MaxRepair : sent[j][c] > 0})

(* How a job ends that nobody disturbed: it counts what was sent, unless   *)
(* its result was refused for being empty.                                 *)
Tells(j, phase, calls) ==
  /\ phase \in {"completed", "failed", "resumable"}
  /\ ledger[j].status = "failed" => phase = "failed"
  /\ j \in empty => phase \in {"failed", "resumable"}
  /\ kind[j] # "import" =>
       \/ calls = Calls(j)
       \/ j \in empty /\ phase = "failed" /\ calls = 0

(* One that no cancel has met either knows what it has sent, and its       *)
(* record says how it ends.                                                *)
SettlesOK(r) ==
  LET pc == run[r].pc
      j == run[r].job
      record == run[r].record
  IN
  Lone(r) /\ (\A c \in Cancel : cancel[c].job # j) =>
    /\ pc = "executing" \/ pc \in Projection => run[r].calls = Calls(j)
    /\ pc \in Before \cup {"executing"} => record.calls = 0
    /\ pc \in Projection /\ kind[j] # "import" => record.calls = Calls(j)
    /\ pc \in {"last", "ended"} => Tells(j, record.phase, record.calls)
    /\ pc = "ended" => job[j] = record

IInv ==
  /\ TypeOK /\ FunctionsOK
  /\ \A r \in Run : RunOK(r) /\ LoneOK(r) /\ SettlesOK(r)
  /\ \A c \in Cancel : CancelOK(c)
  /\ \A j \in Job : JobOK(j)
  /\ ControllerOK
  /\ AbortedOK
  /\ AuthorsOK
-----------------------------------------------------------------------------
(* The steps of runs.                                                      *)

RunStates ==
  Ended \cup Registered \cup {"idle", "command", "queue", "register", "last"}

(* The states of a run, by what they stand for. *)
LEMMA States ==
  RunState = [pc : RunStates, job : Job \cup {None},
              record : Record \cup {None}, calls : Nat,
              expected : Revision, evidence : Revision, basis : Revision]
BY DEF RunState, RunStates, Registered, Projection

(* What it takes that a step of one run keeps the invariant: what it does  *)
(* to its own job, and to its own call of the engine.                      *)
LEMMA RunKeeps ==
  ASSUME IInv, NEW r \in Run, NEW j \in Job, run[r].job = j,
         run[r].pc \notin Ended,
         run' \in [Run -> RunState],
         \A q \in Run \ {r} :
           run'[q] = run[q] /\ asked'[q] = asked[q] /\ answer'[q] = answer[q],
         run'[r].job = j,
         UNCHANGED <<kind, cancel, aborted, imports, crashes>>,
         Engine!ContractTypeOK', memories' \in Revision,
         empty' \subseteq {k \in Job : Refusable(k)},
         ledger[j].status = "committed" => (j \in empty' => j \in empty),
         job' \in [Job -> Record \cup {None}],
         revision' \in Revision,
         objects' \subseteq Job, objects \subseteq objects',
         changeSet' \in [Job -> ChangeSet \cup {None}],
         controller' \in [Job -> Run \cup {None}],
         \A k \in Job \ {j} :
           /\ ledger'[k] = ledger[k] /\ sent'[k] = sent[k]
           /\ job'[k] = job[k] /\ controller'[k] = controller[k]
           /\ changeSet'[k] = changeSet[k] /\ (k \in objects' => k \in objects)
           /\ (k \in empty' <=> k \in empty),
         changeSet[j] # None => changeSet'[j] # None,
         ledger[j].status \in {"committed", "failed"} =>
           ledger'[j].status = ledger[j].status,
         job[j] # None => job'[j] # None,
         asked[r] # None => asked'[r] # None,
         RunOK(r)', JobOK(j)', LoneOK(r)', SettlesOK(r)', AuthorsOK',
         controller'[j] # None =>
           run'[controller'[j]].job = j /\ run'[controller'[j]].pc \in Registered,
         \A k \in Job \ {j} : controller[k] # r
  PROVE  IInv'
<1>1. /\ None \notin Job /\ None \notin Run
      /\ None \notin {"committed", "failed", "other-request"}
  BY WorkerAssumption
<1>2. /\ TypeOK /\ FunctionsOK /\ ControllerOK /\ AbortedOK
      /\ \A q \in Run : RunOK(q) /\ LoneOK(q) /\ SettlesOK(q)
      /\ \A c \in Cancel : CancelOK(c)
      /\ \A k \in Job : JobOK(k)
  BY DEF IInv
<1>3. \A k \in Job : Projected(k) => Projected(k)'
  BY DEF Projected
<1>4. \A q \in Run : run[q].job \in Job \cup {None} /\ run'[q].job = run[q].job
  BY <1>2 DEF FunctionsOK, RunState
<1>5. ASSUME NEW q \in Run, q # r
      PROVE  RunOK(q)'
  <2>1. RunOK(q) /\ run'[q] = run[q] /\ asked'[q] = asked[q] /\ answer'[q] = answer[q]
    BY <1>2, <1>5
  <2>2. CASE run[q].job = None
    BY <1>1, <2>1, <2>2 DEF RunOK
  <2>3. CASE run[q].job \in Job
    <3>1. PICK k \in Job : k = run[q].job
      BY <2>3
    <3>2. /\ Projected(k) => Projected(k)'
          /\ ledger[k].status \in {"committed", "failed"} =>
               ledger'[k].status = ledger[k].status
          /\ k \in objects => k \in objects'
          /\ ledger[k].status = "committed" => (k \in empty' => k \in empty)
      BY <1>3
    <3> QED BY <2>1, <3>1, <3>2 DEF RunOK
  <2> QED BY <1>4, <2>2, <2>3
<1>6. ASSUME NEW q \in Run, q # r, Lone(q)'
      PROVE  LoneOK(q)' /\ SettlesOK(q)'
  <2>1. Lone(q) /\ run'[q] = run[q] /\ run[q].job # j /\ run[q].job \in Job
    BY <1>4, <1>6 DEF Lone
  <2>2. PICK k \in Job : k = run[q].job /\ k # j
    BY <2>1
  <2>3. LoneOK(q) /\ SettlesOK(q)
    BY <1>2
  <2>4. /\ ledger'[k] = ledger[k] /\ sent'[k] = sent[k] /\ job'[k] = job[k]
        /\ controller'[k] = controller[k] /\ (k \in empty' <=> k \in empty)
    BY <2>2
  <2>5. LoneOK(q)'
    BY <2>1, <2>2, <2>3, <2>4 DEF LoneOK
  <2>6. Calls(k)' = Calls(k)
    BY <2>4 DEF Calls
  <2>7. SettlesOK(q)'
    BY <2>1, <2>2, <2>3, <2>4, <2>6 DEF SettlesOK, Tells
  <2> QED BY <2>5, <2>7
<1>7. \A q \in Run : RunOK(q)' /\ LoneOK(q)' /\ SettlesOK(q)'
  BY <1>5, <1>6 DEF LoneOK, SettlesOK, Tells
<1>8. ASSUME NEW c \in Cancel
      PROVE  CancelOK(c)'
  <2>1. CancelOK(c) /\ cancel' = cancel
    BY <1>2
  <2>2. CASE cancel[c].job = None
    BY <2>1, <2>2 DEF CancelOK
  <2>3. CASE cancel[c].job \in Job
    <3>1. PICK k \in Job : k = cancel[c].job
      BY <2>3
    <3>2. (Projected(k) => Projected(k)') /\ (job[k] # None => job'[k] # None)
      BY <1>3
    <3> QED BY <2>1, <3>1, <3>2 DEF CancelOK
  <2> QED BY <1>2, <2>2, <2>3 DEF FunctionsOK, CancelState
<1>9. ASSUME NEW k \in Job, k # j
      PROVE  JobOK(k)'
  <2>1. JobOK(k) /\ (Projected(k) => Projected(k)')
    BY <1>2, <1>3
  <2>2. \A q \in Run : asked[q] = k => asked'[q] = k
    BY <1>1, <1>2, <1>9 DEF RunOK
  <2> QED BY <1>4, <1>9, <2>1, <2>2 DEF JobOK
<1>10. ControllerOK'
  <2> SUFFICES ASSUME NEW k \in Job, k # j, controller'[k] # None
               PROVE  /\ run'[controller'[k]].job = k
                      /\ run'[controller'[k]].pc \in Registered
    BY DEF ControllerOK
  <2>1. PICK q \in Run : q = controller[k] /\ q # r /\ controller'[k] = q
    BY <1>2 DEF TypeOK
  <2> QED BY <1>2, <2>1 DEF ControllerOK
<1>11. AbortedOK'
  BY <1>2, <1>4 DEF AbortedOK, TypeOK
<1>12. FunctionsOK'
  BY <1>2 DEF FunctionsOK
<1>13. TypeOK'
  <2>1. Registered \cap Ended = {}
    BY DEF Registered, Projection, Ended
  <2>2. \A k \in Job : controller'[k] # None =>
          run'[controller'[k]].job = k /\ run'[controller'[k]].pc \notin Ended
    BY <1>10, <2>1 DEF ControllerOK
  <2>3. empty' \subseteq {k \in Job : Refusable(k)'}
    BY DEF Refusable
  <2> QED BY <1>2, <1>12, <2>2, <2>3 DEF TypeOK, FunctionsOK
<1> QED BY <1>7, <1>8, <1>9, <1>10, <1>11, <1>12, <1>13 DEF IInv

(* A run that has begun has a job and a record, and only the controller of *)
(* that job is its own.                                                    *)
LEMMA HasJob ==
  ASSUME IInv, NEW r \in Run, run[r].pc # "idle"
  PROVE  /\ run[r].job \in Job
         /\ run[r].record \in Record
         /\ run[r] \in RunState
         /\ RunOK(r) /\ LoneOK(r) /\ SettlesOK(r)
         /\ \A k \in Job \ {run[r].job} : controller[k] # r
<1>1. None \notin Run /\ None \notin Job
  BY WorkerAssumption
<1>2. /\ run[r] \in RunState /\ RunOK(r) /\ LoneOK(r) /\ SettlesOK(r)
      /\ ControllerOK
  BY DEF IInv, FunctionsOK
<1>3. run[r].job \in Job /\ run[r].record \in Record
  BY <1>2 DEF RunOK, RunState
<1>4. \A k \in Job \ {run[r].job} : controller[k] # r
  BY <1>1, <1>2 DEF ControllerOK
<1> QED BY <1>2, <1>3, <1>4

(* A run moves, and no other one does. *)
OnlyMoves(r) ==
  /\ run' \in [Run -> RunState]
  /\ \A q \in Run \ {r} : run'[q] = run[q]

(* One that goes somewhere changes nothing else of itself. *)
LEMMA Goes ==
  ASSUME FunctionsOK, NEW r \in Run, NEW pc \in RunStates, Goto(r, pc)
  PROVE  /\ OnlyMoves(r)
         /\ run'[r] = [run[r] EXCEPT !.pc = pc]
         /\ run'[r].pc = pc
         /\ run'[r].job = run[r].job
         /\ run'[r].record = run[r].record
         /\ run'[r].calls = run[r].calls
<1>1. run \in [Run -> RunState] /\ run[r] \in RunState
  BY DEF FunctionsOK
<1>2. [run[r] EXCEPT !.pc = pc] \in RunState
  BY <1>1, States
<1>3. run' = [run EXCEPT ![r] = [run[r] EXCEPT !.pc = pc]]
  BY DEF Goto
<1> QED BY <1>1, <1>2, <1>3, States DEF OnlyMoves

(* A step of one run that neither the engine nor the projections take part *)
(* in: it may write its job record and register or forget its controller.  *)
LEMMA RunAlone ==
  ASSUME IInv, NEW r \in Run, NEW j \in Job, run[r].job = j,
         run[r].pc \notin Ended \cup {"idle"}, OnlyMoves(r),
         run'[r].job = j,
         UNCHANGED <<kind, engine, product, aborted, cancel, bounds>>,
         \/ job' = job
         \/ \E record \in Record :
              /\ job' = [job EXCEPT ![j] = record]
              /\ record.phase = "completed" => Projected(j),
         \/ /\ controller' = controller
            /\ run[r].pc \in Registered => run'[r].pc \in Registered
         \/ /\ controller' = [controller EXCEPT ![j] = r]
            /\ run'[r].pc \in Registered
         \/ controller' = [controller EXCEPT ![j] = None],
         RunOK(r)', LoneOK(r)', SettlesOK(r)'
  PROVE  IInv'
<1>1. run[r].job = j
  OBVIOUS
<1>2. \A k \in Job \ {j} : controller[k] # r
  BY <1>1, HasJob
<1>3. UNCHANGED <<kind, ledger, head, sent, asked, answer, empty, memories,
                  revision, objects, changeSet, aborted, cancel, imports,
                  crashes>>
  BY DEF engine, product, bounds
<1>4. /\ TypeOK /\ FunctionsOK /\ ControllerOK /\ JobOK(j) /\ AuthorsOK
      /\ None \notin Record
  BY WorkerAssumption DEF IInv
<1>5. Engine!ContractTypeOK'
  BY <1>3, <1>4 DEF TypeOK, Engine!ContractTypeOK, Engine!Execution, Engine!Settled
<1>6. AuthorsOK'
  BY <1>3, <1>4 DEF AuthorsOK, Moved
<1>7. /\ job' \in [Job -> Record \cup {None}]
      /\ \A k \in Job \ {j} : job'[k] = job[k]
      /\ job[j] # None => job'[j] # None
      /\ job'[j] # None /\ job'[j].phase = "completed" => Projected(j)
  <2>1. job \in [Job -> Record \cup {None}]
    BY <1>4 DEF FunctionsOK
  <2>2. CASE job' = job
    BY <1>4, <2>1, <2>2 DEF JobOK
  <2>3. CASE \E record \in Record :
               /\ job' = [job EXCEPT ![j] = record]
               /\ record.phase = "completed" => Projected(j)
    BY <1>4, <2>1, <2>3
  <2> QED BY <1>1, <2>2, <2>3
<1>8. JobOK(j)'
  <2>1. \A q \in Run : run'[q].job = run[q].job
    BY DEF OnlyMoves
  <2> QED BY <1>1, <1>3, <1>4, <1>7, <2>1 DEF JobOK, Projected
<1>9. /\ controller' \in [Job -> Run \cup {None}]
      /\ \A k \in Job \ {j} : controller'[k] = controller[k]
      /\ controller'[j] # None =>
           run'[controller'[j]].job = j /\ run'[controller'[j]].pc \in Registered
  <2>1. controller \in [Job -> Run \cup {None}]
    BY <1>4 DEF TypeOK
  <2>3. ASSUME controller' = controller,
               run[r].pc \in Registered => run'[r].pc \in Registered
        PROVE  /\ controller' \in [Job -> Run \cup {None}]
               /\ \A k \in Job \ {j} : controller'[k] = controller[k]
               /\ controller'[j] # None =>
                    /\ run'[controller'[j]].job = j
                    /\ run'[controller'[j]].pc \in Registered
    <3> SUFFICES ASSUME controller[j] # None
                 PROVE  /\ run'[controller[j]].job = j
                        /\ run'[controller[j]].pc \in Registered
      BY <2>1, <2>3
    <3>1. PICK q \in Run : q = controller[j]
      BY <2>1
    <3>2. run[q].job = j /\ run[q].pc \in Registered
      BY <1>4, <3>1 DEF ControllerOK
    <3> QED BY <1>1, <2>3, <3>1, <3>2 DEF OnlyMoves
  <2>4. CASE /\ controller' = [controller EXCEPT ![j] = r]
             /\ run'[r].pc \in Registered
    BY <1>1, <2>1, <2>4
  <2>5. CASE controller' = [controller EXCEPT ![j] = None]
    BY <2>1, <2>5
  <2> QED BY <2>3, <2>4, <2>5
<1>10. /\ revision \in Revision /\ objects \subseteq Job
       /\ changeSet \in [Job -> ChangeSet \cup {None}]
       /\ memories \in Revision /\ empty \subseteq {k \in Job : Refusable(k)}
  BY <1>4 DEF TypeOK
<1> QED BY <1>1, <1>2, <1>3, <1>5, <1>6, <1>7, <1>8, <1>9, <1>10, RunKeeps DEF OnlyMoves

(* A run that is alone remains what it was, if it goes on as a run does. *)
LEMMA LoneGoesOn ==
  ASSUME NEW r \in Run, LoneOK(r), NEW j \in Job, run[r].job = j,
         run[r].pc \notin Ended \cup {"idle"},
         \A q \in Run : run'[q].job = run[q].job,
         UNCHANGED <<cancel, aborted>>,
         run'[r].pc \notin {"returned", "refused", "command", "queue"},
         run[r].pc \in Begun => run'[r].pc \in Begun,
         run[r].pc = "last" => run'[r].pc \in {"last", "ended", "dead"},
         run'[r].pc \in Registered =>
           \/ controller'[j] = r
           \/ run[r].pc \in Registered /\ controller'[j] = controller[j],
         \/ run'[r].pc \in Begun
         \/ job'[j] = job[j]
         \/ job'[j].phase \notin AtWork
  PROVE  LoneOK(r)'
<1>1. run[r].pc # "ended" /\ run[r].pc # "dead"
  BY DEF Ended
<1>2. SUFFICES ASSUME Lone(r)'
               PROVE  LoneOK(r)'
  BY DEF LoneOK
<1>3. Lone(r) /\ run'[r].job = j
  BY <1>2 DEF Lone
<1>4. /\ run[r].pc \in Registered => controller[j] = r
      /\ job[j] # None /\ job[j].phase \in AtWork => run[r].pc \in Begun
      /\ \A c \in Cancel :
           cancel[c].job = j /\ cancel[c].record.phase \in AtWork =>
             /\ run[r].pc \in Begun
             /\ cancel[c].pc \in {"write", "done"} =>
                  r \in aborted \/ run[r].pc = "last"
  BY <1>1, <1>3 DEF LoneOK
<1>5. /\ run'[r].pc \in Registered => controller'[j] = r
      /\ job'[j] # None /\ job'[j].phase \in AtWork => run'[r].pc \in Begun
  BY <1>4
<1>6. \A c \in Cancel :
        cancel[c].job = j /\ cancel[c].record.phase \in AtWork =>
          /\ run'[r].pc \in Begun
          /\ cancel[c].pc \in {"write", "done"} =>
               r \in aborted \/ run'[r].pc \in {"last", "ended", "dead"}
  BY <1>4
<1> QED BY <1>3, <1>5, <1>6 DEF LoneOK

(* What a run reads on the way to its execution. *)
LEMMA ReadsKeep ==
  ASSUME IInv, NEW r \in Run, ReadWorkspace(r) \/ ReadLedger(r)
  PROVE  IInv'
<1> DEFINE W == {"workspace", "ledger", "execute"}
<1>1. /\ run[r].pc \in {"workspace", "ledger"}
      /\ UNCHANGED <<kind, engine, job, product, memory, cancel, bounds>>
  BY DEF ReadWorkspace, ReadLedger
<1>2. W \subseteq Registered /\ W \subseteq Before /\ W \subseteq Begun
      /\ W \cap (Ended \cup Projection
                  \cup {"idle", "executing", "last", "command", "queue"}) = {}
  BY DEF Registered, Before, Begun, Ended, Projection
<1>3. /\ TypeOK /\ FunctionsOK /\ run[r] \in RunState /\ RunOK(r) /\ LoneOK(r)
      /\ SettlesOK(r) /\ run[r].job \in Job /\ run[r].record \in Record
  BY <1>1, HasJob DEF IInv
<1>4. UNCHANGED <<kind, ledger, head, sent, asked, answer, empty, memories,
                  job, revision, objects, changeSet, controller, aborted,
                  cancel, imports, crashes>>
  BY <1>1 DEF engine, product, memory, bounds
<1>5. PICK j \in Job : j = run[r].job
  BY <1>3
<1>6. /\ OnlyMoves(r) /\ run'[r].job = j /\ run'[r].record = run[r].record
      /\ run'[r].calls = run[r].calls /\ run'[r].pc \in {"ledger", "execute"}
  <2>1. CASE ReadWorkspace(r)
    <3>1. [run[r] EXCEPT !.pc = "ledger", !.basis = revision] \in RunState
      BY <1>3, States DEF TypeOK, RunStates, Registered
    <3> QED BY <1>3, <1>5, <2>1, <3>1, States DEF ReadWorkspace, FunctionsOK, OnlyMoves
  <2>2. CASE ReadLedger(r)
    <3>1. PICK n \in Nat :
            run' = [run EXCEPT ![r] = [run[r] EXCEPT !.pc = "execute", !.expected = n]]
      <4>1. ledger[j].request \in Request \cup {None} /\ head["workspace"] \in Nat
        BY <1>3, <1>5 DEF TypeOK, Engine!ContractTypeOK, Engine!Execution
      <4>2. ledger[j].request # None => ledger[j].request.expectedRevision \in Nat
        BY <4>1 DEF Request, Revision
      <4> QED BY <1>5, <2>2, <4>1, <4>2 DEF ReadLedger
    <3>2. [run[r] EXCEPT !.pc = "execute", !.expected = n] \in RunState
      BY <1>3, States DEF RunStates, Registered, Revision
    <3> QED BY <1>3, <1>5, <3>1, <3>2, States DEF FunctionsOK, OnlyMoves
  <2> QED BY <2>1, <2>2
<1>7. \A q \in Run : run'[q].job = run[q].job
  BY <1>5, <1>6 DEF OnlyMoves
<1>8. RunOK(r)'
  BY <1>1, <1>2, <1>3, <1>4, <1>5, <1>6 DEF RunOK, Projected
<1>9. LoneOK(r)'
  BY <1>1, <1>2, <1>3, <1>4, <1>5, <1>6, <1>7, LoneGoesOn
<1>10. SettlesOK(r)'
  BY <1>1, <1>2, <1>3, <1>4, <1>5, <1>6, <1>7 DEF SettlesOK, Tells, Lone, Calls
<1> QED BY <1>1, <1>2, <1>4, <1>5, <1>6, <1>8, <1>9, <1>10, RunAlone

(* Where the steps of a run lead. *)
LEMMA AllStates ==
  /\ "register" \in RunStates /\ "begin" \in RunStates
  /\ "progress" \in RunStates /\ "queue" \in RunStates
  /\ "returned" \in RunStates /\ "refused" \in RunStates
  /\ "workspace" \in RunStates /\ "ledger" \in RunStates
  /\ "executing" \in RunStates /\ "snapshot" \in RunStates
  /\ "advance" \in RunStates /\ "changeset" \in RunStates
  /\ "settle" \in RunStates /\ "thrown" \in RunStates
  /\ "last" \in RunStates /\ "ended" \in RunStates
  /\ "projecting" \in RunStates /\ "project" \in RunStates
BY DEF RunStates, Registered, Projection, Ended

(* A run has queued, and no other state.  (The sets of states overlap.) *)
LEMMA StateSets ==
  /\ Projection \subseteq Registered /\ Projection \subseteq Begun
  /\ Projection \cap (Ended \cup Before \cup {"executing", "last"}) = {}
  /\ "executing" \in Registered /\ "executing" \in Begun
  /\ "executing" \notin Ended \cup Before
  /\ "begin" \in Registered /\ "begin" \in Before /\ "begin" \notin Begun \cup Ended
  /\ "last" \in Begun /\ "last" \notin Registered \cup Before \cup Ended
  /\ "ended" \in Begun /\ "ended" \notin Registered \cup Before
  /\ "ended" \in Ended
  /\ \A pc \in {"command", "queue", "register"} :
       pc \in Before /\ pc \notin Registered \cup Begun \cup Ended
  /\ \A pc \in {"progress", "workspace", "ledger", "execute"} :
       pc \in Before \cap Registered \cap Begun /\ pc \notin Ended
  /\ \A pc \in {"returned", "refused", "idle"} :
       pc \in Before /\ pc \notin Registered \cup Begun
  /\ "dead" \in Begun /\ "dead" \notin Before \cup Registered
BY DEF Projection, Registered, Begun, Ended, Before

(* The beginning of a run: its record is queued, its controller registered *)
(* and its record written as being at work.                                *)
LEMMA QueueKeeps ==
  ASSUME IInv, NEW r \in Run, Queue(r)
  PROVE  IInv'
<1>1. /\ run[r].pc = "queue" /\ Goto(r, "register") /\ Put(r, run[r].record)
      /\ UNCHANGED memory
  BY DEF Queue
<1>2. /\ TypeOK /\ FunctionsOK /\ RunOK(r) /\ LoneOK(r)
      /\ SettlesOK(r) /\ run[r].job \in Job /\ run[r].record \in Record
  BY <1>1, HasJob DEF IInv
<1>3. UNCHANGED <<kind, ledger, head, sent, asked, answer, empty, memories,
                  revision, objects, changeSet, controller, aborted, cancel,
                  imports, crashes>>
  BY <1>1 DEF engine, product, memory, bounds, Put
<1>4. PICK j \in Job : j = run[r].job
  BY <1>2
<1>5. /\ OnlyMoves(r) /\ run'[r].job = j /\ run'[r].record = run[r].record
      /\ run'[r].calls = run[r].calls /\ run'[r].pc = "register"
  BY <1>1, <1>2, <1>4, Goes, AllStates
<1>6. \A q \in Run : run'[q].job = run[q].job
  BY <1>4, <1>5 DEF OnlyMoves
<1>7. job' = [job EXCEPT ![j] = run[r].record] /\ job'[j] = run[r].record
  BY <1>1, <1>2, <1>4 DEF Put, FunctionsOK
<1>8. RunOK(r)'
  BY <1>1, <1>2, <1>3, <1>4, <1>5, StateSets DEF RunOK, Projected
<1>9. LoneOK(r)'
  <2>1. run'[r].pc \notin Registered \cup {"returned", "refused", "command", "queue", "last"}
    BY <1>5, StateSets
  <2>2. run[r].pc \notin Ended \cup Begun \cup {"idle", "last"}
    BY <1>1, StateSets
  <2>3. job'[j].phase \notin AtWork
    BY <1>1, <1>2, <1>7 DEF RunOK, AtWork
  <2> QED BY <1>2, <1>3, <1>4, <1>6, <2>1, <2>2, <2>3, LoneGoesOn
<1>10. SettlesOK(r)'
  BY <1>1, <1>2, <1>3, <1>4, <1>5, <1>6, StateSets DEF SettlesOK, Tells, Lone, Calls
<1>11. run[r].pc \notin Ended \cup {"idle"} \cup Registered
  BY <1>1, StateSets
<1>12. run[r].record.phase = "completed" => Projected(j)
  BY <1>1, <1>2, <1>4 DEF RunOK
<1> QED
  BY <1>1, <1>2, <1>3, <1>4, <1>5, <1>7, <1>8, <1>9, <1>10, <1>11, <1>12, RunAlone
     DEF engine, product, bounds

(* The controller that is registered is the run's own. *)
LEMMA RegisterKeeps ==
  ASSUME IInv, NEW r \in Run, Register(r)
  PROVE  IInv'
<1>1. /\ run[r].pc = "register" /\ Goto(r, "begin")
      /\ controller' = [controller EXCEPT ![run[r].job] = r]
      /\ UNCHANGED <<kind, engine, job, product, aborted, cancel, bounds>>
  BY DEF Register
<1>2. /\ TypeOK /\ FunctionsOK /\ RunOK(r) /\ LoneOK(r)
      /\ SettlesOK(r) /\ run[r].job \in Job /\ run[r].record \in Record
  BY <1>1, HasJob DEF IInv
<1>3. UNCHANGED <<kind, ledger, head, sent, asked, answer, empty, memories,
                  job, revision, objects, changeSet, aborted, cancel, imports,
                  crashes>>
  BY <1>1 DEF engine, product, bounds
<1>4. PICK j \in Job : j = run[r].job
  BY <1>2
<1>5. /\ OnlyMoves(r) /\ run'[r].job = j /\ run'[r].record = run[r].record
      /\ run'[r].calls = run[r].calls /\ run'[r].pc = "begin"
  BY <1>1, <1>2, <1>4, Goes, AllStates
<1>6. \A q \in Run : run'[q].job = run[q].job
  BY <1>4, <1>5 DEF OnlyMoves
<1>7. controller' = [controller EXCEPT ![j] = r] /\ controller'[j] = r
  BY <1>1, <1>2, <1>4 DEF TypeOK
<1>8. RunOK(r)'
  BY <1>1, <1>2, <1>3, <1>4, <1>5, StateSets DEF RunOK, Projected
<1>9. LoneOK(r)'
  <2>1. run'[r].pc \notin {"returned", "refused", "command", "queue", "last"}
    BY <1>5
  <2>2. run[r].pc \notin Ended \cup Begun \cup {"idle", "last"}
    BY <1>1, StateSets
  <2> QED BY <1>2, <1>3, <1>4, <1>6, <1>7, <2>1, <2>2, LoneGoesOn
<1>10. SettlesOK(r)'
  BY <1>1, <1>2, <1>3, <1>4, <1>5, <1>6, StateSets DEF SettlesOK, Tells, Lone, Calls
<1>11. run[r].pc \notin Ended \cup {"idle"} /\ run'[r].pc \in Registered
  BY <1>1, <1>5, StateSets
<1> QED
  BY <1>1, <1>2, <1>3, <1>4, <1>5, <1>7, <1>8, <1>9, <1>10, <1>11, RunAlone

(* From here on the record says that the job is at work. *)
LEMMA BeginKeeps ==
  ASSUME IInv, NEW r \in Run, Begin(r)
  PROVE  IInv'
<1> DEFINE record == [run[r].record EXCEPT !.phase = "working"]
           next == CASE kind[run[r].job] = "import" -> "workspace"
                     [] kind[run[r].job] = "observation" -> "progress"
                     [] OTHER -> "ledger"
<1>1. /\ run[r].pc = "begin" /\ Put(r, record) /\ UNCHANGED memory
      /\ run' = [run EXCEPT ![r] = [run[r] EXCEPT !.record = record, !.pc = next]]
  BY DEF Begin
<1>2. /\ TypeOK /\ FunctionsOK /\ RunOK(r) /\ LoneOK(r)
      /\ SettlesOK(r) /\ run[r].job \in Job /\ run[r].record \in Record
      /\ run[r] \in RunState
  BY <1>1, HasJob DEF IInv
<1>3. UNCHANGED <<kind, ledger, head, sent, asked, answer, empty, memories,
                  revision, objects, changeSet, controller, aborted, cancel,
                  imports, crashes>>
  BY <1>1 DEF engine, product, memory, bounds, Put
<1>4. PICK j \in Job : j = run[r].job
  BY <1>2
<1>5. /\ record \in Record /\ record.phase = "working"
      /\ record.calls = run[r].record.calls
  BY <1>2 DEF Record
<1>6. next \in {"workspace", "progress", "ledger"} /\ next \in RunStates
  BY AllStates
<1>7. /\ OnlyMoves(r) /\ run'[r].job = j /\ run'[r].record = record
      /\ run'[r].calls = run[r].calls /\ run'[r].pc = next
  <2>1. [run[r] EXCEPT !.record = record, !.pc = next] \in RunState
    <3> HIDE DEF record, next
    <3> QED BY <1>2, <1>5, <1>6, States
  <2> HIDE DEF record, next
  <2> QED BY <1>1, <1>2, <1>4, <2>1, States DEF FunctionsOK, OnlyMoves
<1> HIDE DEF record, next
<1>8. \A q \in Run : run'[q].job = run[q].job
  BY <1>4, <1>7 DEF OnlyMoves
<1>9. job' = [job EXCEPT ![j] = record]
  BY <1>1, <1>4 DEF Put
<1>10. RunOK(r)'
  BY <1>1, <1>2, <1>3, <1>4, <1>5, <1>6, <1>7, StateSets DEF RunOK, Projected
<1>11. LoneOK(r)'
  <2>1. /\ run'[r].pc \notin {"returned", "refused", "command", "queue", "last"}
        /\ run'[r].pc \in Begun
    BY <1>6, <1>7, StateSets
  <2>2. /\ run[r].pc \notin Ended \cup Begun \cup {"idle", "last"}
        /\ run[r].pc \in Registered
    BY <1>1, StateSets
  <2> QED BY <1>2, <1>3, <1>4, <1>8, <2>1, <2>2, LoneGoesOn
<1>12. SettlesOK(r)'
  BY <1>1, <1>2, <1>3, <1>4, <1>5, <1>6, <1>7, <1>8, StateSets
     DEF SettlesOK, Tells, Lone, Calls
<1>13. /\ run[r].pc \notin Ended \cup {"idle"} /\ run'[r].pc \in Registered
  BY <1>1, <1>6, <1>7, StateSets
<1> QED
  BY <1>3, <1>4, <1>5, <1>7, <1>9, <1>10, <1>11, <1>12, <1>13, RunAlone
     DEF engine, product, bounds

(* The calls of the run so far are none. *)
LEMMA ProgressKeeps ==
  ASSUME IInv, NEW r \in Run, Progress(r)
  PROVE  IInv'
<1> DEFINE record == [run[r].record EXCEPT !.calls = 0]
<1>1. /\ run[r].pc = "progress" /\ Put(r, record) /\ UNCHANGED memory
      /\ run' = [run EXCEPT ![r] = [run[r] EXCEPT !.record = record, !.pc = "ledger"]]
  BY DEF Progress
<1>2. /\ TypeOK /\ FunctionsOK /\ RunOK(r) /\ LoneOK(r)
      /\ SettlesOK(r) /\ run[r].job \in Job /\ run[r].record \in Record
      /\ run[r] \in RunState
  BY <1>1, HasJob DEF IInv
<1>3. UNCHANGED <<kind, ledger, head, sent, asked, answer, empty, memories,
                  revision, objects, changeSet, controller, aborted, cancel,
                  imports, crashes>>
  BY <1>1 DEF engine, product, memory, bounds, Put
<1>4. PICK j \in Job : j = run[r].job
  BY <1>2
<1>5. /\ record \in Record /\ record.phase = run[r].record.phase
      /\ record.calls = 0
  BY <1>2 DEF Record
<1> HIDE DEF record
<1>6. /\ OnlyMoves(r) /\ run'[r].job = j /\ run'[r].record = record
      /\ run'[r].calls = run[r].calls /\ run'[r].pc = "ledger"
  <2>1. [run[r] EXCEPT !.record = record, !.pc = "ledger"] \in RunState
    BY <1>2, <1>5, AllStates, States
  <2> QED BY <1>1, <1>2, <1>4, <2>1, States DEF FunctionsOK, OnlyMoves
<1>7. \A q \in Run : run'[q].job = run[q].job
  BY <1>4, <1>6 DEF OnlyMoves
<1>8. /\ job' = [job EXCEPT ![j] = record]
      /\ record.phase = "completed" => Projected(j)
  BY <1>1, <1>2, <1>4, <1>5 DEF Put, RunOK
<1>9. RunOK(r)'
  BY <1>1, <1>2, <1>3, <1>4, <1>5, <1>6, StateSets DEF RunOK, Projected
<1>10. /\ run'[r].pc \notin {"returned", "refused", "command", "queue", "last"}
       /\ run'[r].pc \in Begun /\ run'[r].pc \in Registered
       /\ run[r].pc \notin Ended \cup {"idle", "last"} /\ run[r].pc \in Registered
  BY <1>1, <1>6, StateSets
<1>11. LoneOK(r)'
  BY <1>2, <1>3, <1>4, <1>7, <1>10, LoneGoesOn
<1>12. SettlesOK(r)'
  BY <1>1, <1>2, <1>3, <1>4, <1>5, <1>6, <1>7, StateSets
     DEF SettlesOK, Tells, Lone, Calls
<1> QED
  BY <1>3, <1>4, <1>5, <1>6, <1>8, <1>9, <1>10, <1>11, <1>12, RunAlone
     DEF engine, product, bounds

(* A run writes the record it has made, and goes on or is over. *)
LEMMA WritesKeep ==
  ASSUME IInv, NEW r \in Run, Projecting(r) \/ Last(r)
  PROVE  IInv'
<1>1. /\ \/ run[r].pc = "projecting" /\ Goto(r, "snapshot")
         \/ run[r].pc = "last" /\ Goto(r, "ended")
      /\ Put(r, run[r].record) /\ UNCHANGED memory
  BY DEF Projecting, Last
<1>2. run[r].pc \in Projection \cup {"last"}
  BY <1>1 DEF Projection
<1>3. /\ TypeOK /\ FunctionsOK /\ RunOK(r) /\ LoneOK(r)
      /\ SettlesOK(r) /\ run[r].job \in Job /\ run[r].record \in Record
  BY <1>1, HasJob DEF IInv
<1>4. UNCHANGED <<kind, ledger, head, sent, asked, answer, empty, memories,
                  revision, objects, changeSet, controller, aborted, cancel,
                  imports, crashes>>
  BY <1>1 DEF engine, product, memory, bounds, Put
<1>5. PICK j \in Job : j = run[r].job
  BY <1>3
<1>6. /\ OnlyMoves(r) /\ run'[r].job = j /\ run'[r].record = run[r].record
      /\ run'[r].calls = run[r].calls
      /\ \/ run[r].pc = "projecting" /\ run'[r].pc = "snapshot"
         \/ run[r].pc = "last" /\ run'[r].pc = "ended"
  <2>1. CASE run[r].pc = "projecting" /\ Goto(r, "snapshot")
    BY <1>3, <1>5, <2>1, Goes, AllStates
  <2>2. CASE run[r].pc = "last" /\ Goto(r, "ended")
    BY <1>3, <1>5, <2>2, Goes, AllStates
  <2> QED BY <1>1, <2>1, <2>2
<1>7. \A q \in Run : run'[q].job = run[q].job
  BY <1>5, <1>6 DEF OnlyMoves
<1>8. job' = [job EXCEPT ![j] = run[r].record] /\ job'[j] = run[r].record
  BY <1>1, <1>3, <1>5 DEF Put, FunctionsOK
<1>9. /\ run'[r].pc \notin Before \cup {"executing", "returned", "refused", "command", "queue"}
      /\ run'[r].pc \in Begun
      /\ run[r].pc \in Projection => run'[r].pc \in Projection
      /\ run[r].pc = "last" => run'[r].pc = "ended" /\ "ended" \notin Projection
      /\ run[r].pc \notin Ended \cup {"idle"}
      /\ run'[r].pc \in Registered => run[r].pc \in Registered
      /\ run[r].pc \in Registered => run'[r].pc \in Registered
      /\ run'[r].pc \notin {"advance", "changeset", "settle", "idle", "project"}
  <2>1. CASE run[r].pc = "projecting" /\ run'[r].pc = "snapshot"
    BY <2>1 DEF Projection, Before, Begun, Registered, Ended
  <2>2. CASE run[r].pc = "last" /\ run'[r].pc = "ended"
    BY <2>2 DEF Projection, Before, Begun, Registered, Ended
  <2> QED BY <1>6, <2>1, <2>2
<1>10. RunOK(r)'
  <2>1. CASE run[r].pc = "projecting" /\ run'[r].pc = "snapshot"
    <3>1. run[r].pc \in Projection /\ run'[r].pc \notin Before
      BY <1>9, <2>1 DEF Projection
    <3> QED BY <1>3, <1>4, <1>5, <1>6, <2>1, <3>1 DEF RunOK, Projected
  <2>2. CASE run[r].pc = "last" /\ run'[r].pc = "ended"
    <3>1. run'[r].pc \notin Projection \cup Before
      BY <1>9, <2>2
    <3> QED BY <1>3, <1>4, <1>5, <1>6, <2>2, <3>1 DEF RunOK, Projected
  <2> QED BY <1>6, <2>1, <2>2
<1>11. LoneOK(r)'
  <2>1. run[r].pc = "last" => run'[r].pc \in {"last", "ended", "dead"}
    BY <1>9
  <2>2. /\ run[r].pc \in Begun => run'[r].pc \in Begun
        /\ run'[r].pc \in Registered =>
             \/ controller'[j] = r
             \/ run[r].pc \in Registered /\ controller'[j] = controller[j]
    BY <1>4, <1>9
  <2> QED BY <1>3, <1>4, <1>5, <1>7, <1>9, <2>1, <2>2, LoneGoesOn
<1>12. SettlesOK(r)'
  <2>1. /\ Lone(r)' => Lone(r)
        /\ Calls(j)' = Calls(j)
    BY <1>4, <1>5, <1>7 DEF Lone, Calls
  <2>2. CASE run[r].pc = "projecting" /\ run'[r].pc = "snapshot"
    <3>1. run[r].pc \in Projection /\ run'[r].pc \notin Before
      BY <1>9, <2>2 DEF Projection
    <3> QED BY <1>3, <1>4, <1>5, <1>6, <2>1, <2>2, <3>1 DEF SettlesOK, Tells
  <2>3. CASE run[r].pc = "last" /\ run'[r].pc = "ended"
    <3>1. run'[r].pc \notin Projection \cup Before
      BY <1>9, <2>3
    <3> QED BY <1>3, <1>4, <1>5, <1>6, <1>8, <2>1, <2>3, <3>1 DEF SettlesOK, Tells
  <2> QED BY <1>6, <2>2, <2>3
<1>13. run[r].record.phase = "completed" => Projected(j)
  BY <1>1, <1>3, <1>5 DEF RunOK
<1> QED
  BY <1>3, <1>4, <1>5, <1>6, <1>8, <1>9, <1>10, <1>11, <1>12, <1>13, RunAlone
     DEF engine, product, bounds

(* The last update() of a run that knows its result.                       *)
LEMMA EndKeeps ==
  ASSUME IInv, NEW r \in Run, run[r].pc \in {"executing"} \cup Projection,
         NEW j \in Job, j = run[r].job,
         NEW phase \in Terminal, NEW calls \in Nat, End(r, phase, calls),
         phase = "completed" => Projected(j),
         Lone(r) /\ (\A c \in Cancel : cancel[c].job # j) =>
           Tells(j, phase, calls)
  PROVE  IInv'
<1> DEFINE record == [run[r].record EXCEPT !.phase = phase, !.calls = calls]
<1>1. /\ run' = [run EXCEPT ![r] = [run[r] EXCEPT !.pc = "last", !.record = record]]
      /\ controller' = [controller EXCEPT ![j] = None]
      /\ UNCHANGED <<kind, engine, job, product, aborted, cancel, bounds>>
  BY DEF End, Finish
<1>2. /\ run[r].pc \notin Ended \cup {"idle", "last"} /\ run[r].pc # "ended"
      /\ "last" \notin Projection \cup {"executing"}
  BY DEF Projection, Ended
<1>3. /\ TypeOK /\ FunctionsOK /\ RunOK(r) /\ LoneOK(r) /\ SettlesOK(r)
      /\ run[r].record \in Record /\ run[r] \in RunState
  BY <1>2, HasJob DEF IInv
<1>4. UNCHANGED <<kind, ledger, head, sent, asked, answer, empty, memories,
                  job, revision, objects, changeSet, aborted, cancel, imports,
                  crashes>>
  BY <1>1 DEF engine, product, bounds
<1>5. record \in Record /\ record.phase = phase /\ record.calls = calls
  BY <1>3 DEF Record
<1> HIDE DEF record
<1>6. /\ OnlyMoves(r) /\ run'[r].job = j /\ run'[r].record = record
      /\ run'[r].pc = "last"
  <2>1. [run[r] EXCEPT !.pc = "last", !.record = record] \in RunState
    BY <1>3, <1>5, AllStates, States
  <2> QED BY <1>1, <1>3, <2>1, States DEF FunctionsOK, OnlyMoves
<1>7. \A q \in Run : run'[q].job = run[q].job
  BY <1>6 DEF OnlyMoves
<1>8. RunOK(r)'
  BY <1>2, <1>3, <1>4, <1>5, <1>6, StateSets DEF RunOK, Projected
<1>9. LoneOK(r)'
  <2>1. /\ run'[r].pc \notin Registered \cup {"returned", "refused", "command", "queue"}
        /\ run'[r].pc \in Begun
    BY <1>6, StateSets
  <2> QED BY <1>2, <1>3, <1>4, <1>6, <1>7, <2>1, LoneGoesOn
<1>10. SettlesOK(r)'
  <2>1. (Lone(r)' => Lone(r)) /\ Calls(j)' = Calls(j)
    BY <1>4, <1>6, <1>7 DEF Lone, Calls
  <2>2. run'[r].pc \notin Before \cup Projection \cup {"executing", "ended"}
    BY <1>6, StateSets
  <2>3. Tells(j, phase, calls) =>
          Tells(run[r].job, run[r].record.phase, run[r].record.calls)'
    BY <1>4, <1>5, <1>6, <2>1 DEF Tells
  <2> QED BY <1>4, <1>5, <1>6, <2>1, <2>2, <2>3 DEF SettlesOK, Tells
<1> QED
  BY <1>1, <1>2, <1>4, <1>6, <1>8, <1>9, <1>10, RunAlone

(* A run that was aborted was cancelled by somebody. *)
LEMMA AbortedMeetsCancel ==
  ASSUME IInv, NEW r \in aborted
  PROVE  \E c \in Cancel : cancel[c].job = run[r].job
BY DEF IInv, AbortedOK

(* What a run has sent is counted, and more than none only by itself. *)
LEMMA CountedOK ==
  ASSUME IInv, NEW r \in Run, NEW j \in Job, j = run[r].job,
         run[r].pc \in {"executing"} \cup Projection
  PROVE  /\ Counted(r) \in Nat /\ run[r].record.calls \in Nat
         /\ Lone(r) /\ (\A c \in Cancel : cancel[c].job # j) =>
              /\ run[r].pc = "executing" =>
                   Counted(r) = Calls(j) /\ run[r].record.calls = 0
              /\ run[r].pc \in Projection /\ kind[j] # "import" =>
                   run[r].record.calls = Calls(j)
<1>1. run[r].pc # "idle" /\ "executing" \notin Projection
  BY DEF Projection
<1>2. SettlesOK(r) /\ run[r] \in RunState /\ run[r].record \in Record
  BY <1>1, HasJob
<1>3. run[r].calls \in Nat /\ run[r].record.calls \in Nat
  BY <1>2 DEF RunState, Record
<1>4. Counted(r) \in Nat
  BY <1>3 DEF Counted
<1>5. Lone(r) /\ (\A c \in Cancel : cancel[c].job # j) =>
        /\ run[r].pc = "executing" =>
             run[r].calls = Calls(j) /\ run[r].record.calls = 0
        /\ run[r].pc \in Projection /\ kind[j] # "import" =>
             run[r].record.calls = Calls(j)
  BY <1>2 DEF SettlesOK, Tells
<1> QED BY <1>3, <1>4, <1>5 DEF Counted

(* The ways a run ends. *)
LEMMA EndsKeep ==
  ASSUME IInv, NEW r \in Run,
         Cancelled(r) \/ Interrupted(r) \/ EmptyResult(r) \/ Caught(r) \/ Complete(r)
  PROVE  IInv'
<1>1. run[r].pc \in {"executing"} \cup Projection /\ run[r].pc # "idle"
  BY DEF Cancelled, Executed, Interrupted, EmptyResult, Caught, Complete, Committed,
         Answered, Projection
<1>2. RunOK(r) /\ run[r].job \in Job
  BY <1>1, HasJob
<1>3. PICK j \in Job : j = run[r].job
  BY <1>2
<1>4. /\ Counted(r) \in Nat /\ run[r].record.calls \in Nat
      /\ Lone(r) /\ (\A c \in Cancel : cancel[c].job # j) =>
           /\ run[r].pc = "executing" =>
                Counted(r) = Calls(j) /\ run[r].record.calls = 0
           /\ run[r].pc \in Projection /\ kind[j] # "import" =>
                run[r].record.calls = Calls(j)
  BY <1>1, <1>3, CountedOK
<1>5. r \in aborted => \E c \in Cancel : cancel[c].job = j
  BY <1>3, AbortedMeetsCancel
<1>6. /\ "cancelled" \in Terminal /\ "failed" \in Terminal
      /\ "resumable" \in Terminal /\ "completed" \in Terminal
      /\ "thrown" \in Projection /\ "settle" \in Projection
  BY DEF Terminal, Projection
<1>7. ASSUME NEW phase \in {"failed", "resumable"}, NEW calls \in Nat,
             CaughtWith(r, phase, calls),
             Lone(r) /\ (\A c \in Cancel : cancel[c].job # j) =>
               Tells(j, phase, calls)
      PROVE  IInv'
  <2> DEFINE p == IF r \in aborted THEN "cancelled" ELSE phase
             n == IF kind[run[r].job] = "observation" /\ r \in aborted
                  THEN run[r].record.calls ELSE calls
  <2>1. End(r, p, n)
    BY <1>7 DEF CaughtWith
  <2>2. p \in Terminal /\ p # "completed" /\ n \in Nat
    BY <1>4, <1>6
  <2>3. r \notin aborted => p = phase /\ n = calls
    OBVIOUS
  <2> HIDE DEF p, n
  <2>4. Lone(r) /\ (\A c \in Cancel : cancel[c].job # j) => Tells(j, p, n)
    BY <1>5, <1>7, <2>3
  <2> QED BY <1>1, <1>3, <2>1, <2>2, <2>4, EndKeeps
<1>8. CASE Cancelled(r)
  <2> DEFINE calls == IF kind[run[r].job] = "import" THEN run[r].record.calls
                      ELSE Counted(r)
  <2>1. r \in aborted /\ End(r, "cancelled", calls) /\ calls \in Nat
    BY <1>4, <1>8 DEF Cancelled
  <2> HIDE DEF calls
  <2> QED BY <1>1, <1>3, <1>5, <1>6, <2>1, EndKeeps
<1>9. CASE Interrupted(r)
  <2>1. /\ run[r].pc = "executing" /\ answer[r] = "committed"
        /\ CaughtWith(r, "resumable", Counted(r))
    BY <1>9 DEF Interrupted, Committed, Answered
  <2>2. ledger[j].status = "committed"
    BY <1>2, <1>3, <2>1 DEF RunOK
  <2> QED BY <1>4, <1>7, <2>1, <2>2 DEF Tells
<1>10. CASE EmptyResult(r)
  <2>1. /\ run[r].pc = "executing" /\ j \in empty
        /\ CaughtWith(r, "failed", run[r].record.calls)
    BY <1>3, <1>10 DEF EmptyResult, Committed, Answered
  <2> QED BY <1>4, <1>7, <2>1 DEF Tells
<1>11. CASE Caught(r)
  <2> DEFINE calls == IF run[r].pc = "thrown" \/ kind[run[r].job] = "import"
                      THEN run[r].record.calls ELSE Counted(r)
  <2>1. run[r].pc = "executing" \/ run[r].pc = "thrown"
    BY <1>11 DEF Caught, Answered
  <2>2. CaughtWith(r, "failed", calls)
    BY <1>11 DEF Caught
  <2>3. /\ calls \in Nat
        /\ Lone(r) /\ (\A c \in Cancel : cancel[c].job # j) /\ kind[j] # "import"
             => calls = Calls(j)
    BY <1>3, <1>4, <1>6, <2>1
  <2> HIDE DEF calls
  <2> QED BY <1>7, <2>2, <2>3 DEF Tells
<1>12. CASE Complete(r)
  <2>1. run[r].pc = "settle" /\ End(r, "completed", run[r].record.calls)
    BY <1>12 DEF Complete
  <2>2. Projected(j) /\ ledger[j].status = "committed" /\ j \notin empty
    BY <1>2, <1>3, <1>6, <2>1 DEF RunOK
  <2>3. Lone(r) /\ (\A c \in Cancel : cancel[c].job # j) =>
          Tells(j, "completed", run[r].record.calls)
    BY <1>4, <1>6, <2>1, <2>2 DEF Tells
  <2> QED BY <1>1, <1>3, <1>4, <1>6, <2>1, <2>2, <2>3, EndKeeps
<1> QED BY <1>8, <1>9, <1>10, <1>11, <1>12

(* A run that hears that its execution has committed goes on to project. *)
LEMMA GoOnKeeps ==
  ASSUME IInv, NEW r \in Run, GoOn(r)
  PROVE  IInv'
<1> DEFINE import == kind[run[r].job] = "import"
           next == IF import THEN "project" ELSE "projecting"
           record == IF import THEN run[r].record
                     ELSE [run[r].record EXCEPT !.phase = "projecting",
                                                !.calls = Counted(r)]
<1>1. /\ run[r].pc = "executing" /\ answer[r] = "committed"
      /\ run[r].job \notin empty
      /\ run' = [run EXCEPT ![r] = [run[r] EXCEPT !.evidence = memories,
                                                  !.pc = next, !.record = record]]
      /\ UNCHANGED <<kind, engine, job, product, memory, cancel, bounds>>
  BY DEF GoOn, Executed, Committed, Answered
<1>2. /\ TypeOK /\ FunctionsOK /\ RunOK(r) /\ LoneOK(r) /\ SettlesOK(r)
      /\ run[r].record \in Record /\ run[r] \in RunState /\ run[r].job \in Job
  BY <1>1, HasJob DEF IInv
<1>3. UNCHANGED <<kind, ledger, head, sent, asked, answer, empty, memories,
                  job, revision, objects, changeSet, controller, aborted,
                  cancel, imports, crashes>>
  BY <1>1 DEF engine, product, memory, bounds
<1>4. PICK j \in Job : j = run[r].job
  BY <1>2
<1>5. /\ Counted(r) \in Nat
      /\ Lone(r) /\ (\A c \in Cancel : cancel[c].job # j) => Counted(r) = Calls(j)
  BY <1>1, <1>4, CountedOK
<1>6. /\ record \in Record
      /\ record.phase = "completed" => run[r].record.phase = "completed"
      /\ kind[j] # "import" => record.calls = Counted(r)
  BY <1>2, <1>4, <1>5 DEF Record
<1>7. /\ next \in Projection /\ next \in RunStates
      /\ next = "project" => kind[j] = "import"
      /\ next \notin {"returned", "refused", "command", "queue", "advance",
                      "changeset", "settle", "idle", "last", "ended", "executing"}
  BY <1>4, AllStates DEF Projection
<1> HIDE DEF next, record
<1>8. /\ OnlyMoves(r) /\ run'[r].job = j /\ run'[r].record = record
      /\ run'[r].pc = next /\ run'[r].calls = run[r].calls
  <2>1. [run[r] EXCEPT !.evidence = memories, !.pc = next, !.record = record]
          \in RunState
    BY <1>2, <1>6, <1>7, States DEF Revision, TypeOK
  <2> QED BY <1>1, <1>2, <1>4, <2>1, States DEF FunctionsOK, OnlyMoves
<1>9. \A q \in Run : run'[q].job = run[q].job
  BY <1>4, <1>8 DEF OnlyMoves
<1>10. /\ run'[r].pc \in Registered /\ run'[r].pc \in Begun
       /\ run'[r].pc \in Projection
       /\ run'[r].pc \notin Before
       /\ run[r].pc \in Registered /\ run[r].pc \notin Ended \cup {"idle", "last"}
  BY <1>1, <1>7, <1>8, StateSets
<1>11. RunOK(r)'
  BY <1>1, <1>2, <1>3, <1>4, <1>6, <1>7, <1>8, <1>10 DEF RunOK, Projected
<1>12. LoneOK(r)'
  BY <1>2, <1>3, <1>4, <1>7, <1>8, <1>9, <1>10, LoneGoesOn
<1>13. SettlesOK(r)'
  <2>1. (Lone(r)' => Lone(r)) /\ Calls(j)' = Calls(j)
    BY <1>3, <1>4, <1>8, <1>9 DEF Lone, Calls
  <2>2. Lone(r) /\ (\A c \in Cancel : cancel[c].job # j) => run[r].calls = Calls(j)
    BY <1>1, <1>2, <1>4 DEF SettlesOK, Tells
  <2> QED BY <1>3, <1>5, <1>6, <1>7, <1>8, <1>10, <2>1, <2>2 DEF SettlesOK, Tells
<1> QED BY <1>3, <1>4, <1>8, <1>10, <1>11, <1>12, <1>13, RunAlone
          DEF engine, product, bounds

(* A projection that goes on, or collides: what else it says of itself     *)
(* stays as it was.                                                        *)
LEMMA ProjectionGoesOn ==
  ASSUME IInv, NEW r \in Run, NEW j \in Job, j = run[r].job,
         run[r].pc \in Projection, run'[r].pc \in Projection,
         OnlyMoves(r), run'[r].job = j, run'[r].record = run[r].record,
         run'[r].calls = run[r].calls,
         UNCHANGED <<kind, engine, job, memory, cancel, bounds>>
  PROVE  LoneOK(r)' /\ SettlesOK(r)'
<1>1. run[r].pc # "idle" /\ run[r].pc \notin Ended \cup {"idle", "last"}
  BY StateSets DEF Projection
<1>2. LoneOK(r) /\ SettlesOK(r)
  BY <1>1, HasJob
<1>3. \A q \in Run : run'[q].job = run[q].job
  BY DEF OnlyMoves
<1>4. UNCHANGED <<kind, ledger, sent, empty, job, controller, aborted, cancel>>
  BY DEF engine, memory
<1>5. /\ run[r].pc \in Registered /\ run'[r].pc \in Registered /\ run'[r].pc \in Begun
      /\ run'[r].pc \notin Before \cup {"executing", "last", "ended"}
      /\ run'[r].pc \notin {"returned", "refused", "command", "queue"}
  BY StateSets DEF Projection
<1>6. LoneOK(r)'
  BY <1>1, <1>2, <1>3, <1>4, <1>5, LoneGoesOn
<1>7. SettlesOK(r)'
  <2>1. (Lone(r)' => Lone(r)) /\ Calls(j)' = Calls(j)
    BY <1>3, <1>4 DEF Lone, Calls
  <2> QED BY <1>2, <1>4, <1>5, <2>1 DEF SettlesOK, Tells
<1> QED BY <1>6, <1>7

(* The snapshot a projection works on. *)
LEMMA SnapshotKeeps ==
  ASSUME IInv, NEW r \in Run, Snapshot(r)
  PROVE  IInv'
<1>1. PICK pc \in {"thrown", "project"} :
        run' = [run EXCEPT ![r] = [run[r] EXCEPT !.basis = revision, !.pc = pc]]
  BY DEF Snapshot
<1>2. /\ run[r].pc = "snapshot"
      /\ UNCHANGED <<kind, engine, job, product, memory, cancel, bounds>>
  BY DEF Snapshot
<1>3. /\ TypeOK /\ FunctionsOK /\ RunOK(r) /\ AuthorsOK
      /\ run[r].record \in Record /\ run[r] \in RunState /\ run[r].job \in Job
  BY <1>2, HasJob DEF IInv
<1>4. UNCHANGED <<kind, ledger, head, sent, asked, answer, empty, memories,
                  job, revision, objects, changeSet, controller, aborted,
                  cancel, imports, crashes>>
  BY <1>2 DEF engine, product, memory, bounds
<1>5. PICK j \in Job : j = run[r].job
  BY <1>3
<1>6. /\ OnlyMoves(r) /\ run'[r].job = j /\ run'[r].record = run[r].record
      /\ run'[r].calls = run[r].calls /\ run'[r].pc = pc /\ run'[r].basis = revision
  <2>1. [run[r] EXCEPT !.basis = revision, !.pc = pc] \in RunState
    BY <1>3, AllStates, States DEF TypeOK
  <2> QED BY <1>1, <1>3, <1>5, <2>1, States DEF FunctionsOK, OnlyMoves
<1>7. /\ run[r].pc \in Projection /\ run'[r].pc \in Projection
      /\ run'[r].pc \notin {"queue", "executing", "advance", "changeset", "settle",
                            "idle"}
  BY <1>2, <1>6 DEF Projection
<1>8. /\ run'[r].pc \notin Before /\ run[r].pc \notin Ended \cup {"idle"}
      /\ run'[r].pc \in Registered
  BY <1>2, <1>7, StateSets
<1>9. RunOK(r)'
  <2>1. revision > 0
    BY <1>3 DEF AuthorsOK
  <2> QED BY <1>2, <1>3, <1>4, <1>5, <1>6, <1>7, <1>8, <2>1 DEF RunOK, Projected
<1>10. LoneOK(r)' /\ SettlesOK(r)'
  BY <1>2, <1>5, <1>6, <1>7, ProjectionGoesOn
<1> QED BY <1>4, <1>5, <1>6, <1>8, <1>9, <1>10, RunAlone
          DEF engine, product, bounds

-----------------------------------------------------------------------------
(* The steps of a projection, which change the product.                    *)

(* What a step of a projection must see to. *)
LEMMA ProjectionKeeps ==
  ASSUME IInv, NEW r \in Run, NEW j \in Job, j = run[r].job,
         run[r].pc \in Projection,
         NEW pc \in Projection, Goto(r, pc),
         UNCHANGED <<kind, engine, job, memory, cancel, bounds>>,
         objects' = objects \/ objects' = objects \cup {j},
         changeSet' \in [Job -> ChangeSet \cup {None}],
         \A k \in Job \ {j} : changeSet'[k] = changeSet[k],
         changeSet[j] # None => changeSet'[j] # None,
         revision' \in Revision, AuthorsOK',
         pc = "advance" => kind[j] = "import",
         pc = "changeset" =>
           \/ kind[j] = "import"
           \/ kind[j] = "observation" /\ run[r].pc = "project",
         pc = "project" => run[r].pc = "project",
         pc \in {"advance", "changeset"} => j \in objects',
         pc = "settle" => Projected(j)'
  PROVE  IInv'
<1>1. /\ run[r].pc # "idle" /\ run[r].pc \notin Ended \cup Before
      /\ pc \notin Ended \cup Before \cup {"idle", "command", "queue", "executing"}
      /\ run[r].pc \in Registered /\ pc \in Registered /\ pc \in RunStates
  BY StateSets DEF Projection, RunStates
<1>2. /\ TypeOK /\ FunctionsOK /\ RunOK(r) /\ JobOK(j) /\ ControllerOK
      /\ run[r].record \in Record /\ run[r] \in RunState
      /\ \A k \in Job \ {j} : controller[k] # r
  BY <1>1, HasJob DEF IInv
<1>3. UNCHANGED <<kind, ledger, head, sent, asked, answer, empty, memories,
                  job, controller, aborted, cancel, imports, crashes>>
  BY DEF engine, memory, bounds
<1>4. /\ OnlyMoves(r) /\ run'[r] = [run[r] EXCEPT !.pc = pc]
      /\ run'[r].job = j /\ run'[r].record = run[r].record
      /\ run'[r].calls = run[r].calls /\ run'[r].pc = pc
  BY <1>1, <1>2, Goes
<1>5. run'[r].basis = run[r].basis
  BY <1>2, <1>4 DEF RunState
<1>6. LoneOK(r)' /\ SettlesOK(r)'
  BY <1>4, ProjectionGoesOn
<1>7. Projected(j) => Projected(j)'
  BY <1>3 DEF Projected
<1>8. RunOK(r)'
  BY <1>1, <1>2, <1>3, <1>4, <1>5, <1>7 DEF RunOK
<1>9. \A q \in Run : run'[q].job = run[q].job
  BY <1>4 DEF OnlyMoves
<1>10. JobOK(j)'
  <2>1. ledger[j].status = "committed"
    BY <1>2 DEF RunOK
  <2> QED BY <1>2, <1>3, <1>7, <1>9, <2>1 DEF JobOK
<1>11. Engine!ContractTypeOK'
  BY <1>2, <1>3 DEF TypeOK, Engine!ContractTypeOK, Engine!Execution, Engine!Settled
<1>12. /\ job' \in [Job -> Record \cup {None}]
       /\ controller' \in [Job -> Run \cup {None}]
       /\ objects' \subseteq Job /\ objects \subseteq objects'
       /\ \A k \in Job \ {j} : k \in objects' => k \in objects
       /\ memories' \in Revision /\ empty' = empty
       /\ empty' \subseteq {k \in Job : Refusable(k)}
  BY <1>2, <1>3 DEF TypeOK, FunctionsOK
<1>13. controller'[j] # None =>
         run'[controller'[j]].job = j /\ run'[controller'[j]].pc \in Registered
  <2> SUFFICES ASSUME controller[j] # None
               PROVE  /\ run'[controller[j]].job = j
                      /\ run'[controller[j]].pc \in Registered
    BY <1>3
  <2>1. PICK q \in Run : q = controller[j]
    BY <1>2 DEF TypeOK
  <2>2. run[q].job = j /\ run[q].pc \in Registered
    BY <1>2, <2>1 DEF ControllerOK
  <2> QED BY <1>1, <1>4, <2>1, <2>2 DEF OnlyMoves
<1> QED
  BY <1>1, <1>2, <1>3, <1>4, <1>6, <1>8, <1>10, <1>11, <1>12, <1>13, RunKeeps
     DEF OnlyMoves

(* What a job of another kind, or a change set that stays, means to the    *)
(* authors of the revisions.                                               *)
LEMMA AuthorsKeep ==
  ASSUME IInv, Moved' = Moved, kind' = kind, imports' = imports,
         \A k \in Moved : changeSet'[k] = changeSet[k],
         revision' = revision \/
           /\ revision' \in {revision, revision + 1}
           /\ \E k \in Job : kind[k] = "import",
         objects \subseteq objects'
  PROVE  AuthorsOK'
<1>1. AuthorsOK /\ revision \in Nat /\ changeSet \in [Job -> ChangeSet \cup {None}]
  BY DEF IInv, TypeOK, Revision
<1>2. \A k \in Moved : changeSet[k].to \in Nat
  BY <1>1 DEF Moved, ChangeSet, Revision
<1>3. revision' >= revision
  BY <1>1
<1>4. \A k \in Moved : changeSet'[k].to <= revision' /\ k \in objects'
  BY <1>1, <1>2, <1>3 DEF AuthorsOK
<1> QED BY <1>1, <1>3, <1>4 DEF AuthorsOK

(* The objects of a job are stored once its execution has committed. *)
LEMMA PutObjectsKeeps ==
  ASSUME IInv, NEW r \in Run, PutObjects(r)
  PROVE  IInv'
<1>1. /\ run[r].pc = "project" /\ kind[run[r].job] # "relation"
      /\ objects' = objects \cup {run[r].job}
      /\ UNCHANGED <<kind, engine, job, revision, changeSet, memory, cancel, bounds>>
  BY DEF PutObjects, Store
<1>2. TypeOK /\ FunctionsOK /\ run[r].job \in Job
  BY <1>1, HasJob DEF IInv
<1>3. PICK j \in Job : j = run[r].job
  BY <1>2
<1>4. PICK pc \in {"changeset", "settle", "advance", "thrown"} :
        /\ Goto(r, pc)
        /\ pc = "changeset" => kind[j] = "observation"
        /\ pc = "settle" => kind[j] = "assessment"
        /\ pc = "advance" => kind[j] = "import"
  <2>1. kind[j] \in {"observation", "assessment", "import"}
    BY <1>1, <1>2, <1>3 DEF FunctionsOK, Kind
  <2>2. CASE kind[j] = "observation" /\ ~Goto(r, "thrown")
    BY <1>3, <2>2 DEF PutObjects
  <2>3. CASE kind[j] = "assessment" /\ ~Goto(r, "thrown")
    BY <1>3, <2>3 DEF PutObjects
  <2>4. CASE kind[j] = "import" /\ ~Goto(r, "thrown")
    BY <1>3, <2>4 DEF PutObjects
  <2>5. CASE Goto(r, "thrown")
    BY <2>5
  <2> QED BY <2>1, <2>2, <2>3, <2>4, <2>5
<1>5. /\ run[r].pc \in Projection /\ pc \in Projection /\ pc # "project"
  BY <1>1 DEF Projection
<1>6. /\ changeSet' \in [Job -> ChangeSet \cup {None}] /\ changeSet' = changeSet
      /\ revision' \in Revision /\ revision' = revision
      /\ kind' = kind /\ imports' = imports
  BY <1>1, <1>2 DEF TypeOK, bounds
<1>7. AuthorsOK'
  BY <1>1, <1>6, AuthorsKeep DEF Moved
<1>8. j \in objects' /\ (pc = "settle" => Projected(j)')
  BY <1>1, <1>3, <1>4, <1>6 DEF Projected
<1> QED BY <1>1, <1>3, <1>4, <1>5, <1>6, <1>7, <1>8, ProjectionKeeps

(* An import moves the workspace on, or collides. *)
LEMMA AdvanceKeeps ==
  ASSUME IInv, NEW r \in Run, Advance(r)
  PROVE  IInv'
<1>1. /\ run[r].pc = "advance"
      /\ UNCHANGED <<kind, engine, job, objects, changeSet, memory, cancel, bounds>>
      /\ revision' \in {revision, revision + 1}
  BY DEF Advance
<1>2. /\ TypeOK /\ FunctionsOK /\ RunOK(r) /\ run[r].job \in Job
  BY <1>1, HasJob DEF IInv
<1>3. PICK j \in Job : j = run[r].job
  BY <1>2
<1>4. PICK pc \in {"changeset", "thrown"} : Goto(r, pc)
  BY DEF Advance
<1>5. /\ run[r].pc \in Projection /\ pc \in Projection
      /\ kind[j] = "import" /\ j \in objects
  BY <1>1, <1>2, <1>3 DEF Projection, RunOK
<1>6. /\ changeSet' \in [Job -> ChangeSet \cup {None}] /\ changeSet' = changeSet
      /\ revision' \in Revision /\ objects' = objects
      /\ kind' = kind /\ imports' = imports
  BY <1>1, <1>2 DEF TypeOK, Revision, bounds
<1>7. AuthorsOK'
  BY <1>1, <1>5, <1>6, AuthorsKeep DEF Moved
<1> QED BY <1>1, <1>3, <1>4, <1>5, <1>6, <1>7, ProjectionKeeps

(* A change set that is recorded has its place, and keeps it. *)
LEMMA RecordsType ==
  ASSUME IInv, NEW r \in Run, NEW j \in Job, j = run[r].job,
         NEW change \in ChangeSet, Records(r, change)
  PROVE  /\ changeSet' \in [Job -> ChangeSet \cup {None}]
         /\ changeSet'[j] = change /\ changeSet'[j] # None
         /\ changeSet[j] \in {None, change}
         /\ \A k \in Job \ {j} : changeSet'[k] = changeSet[k]
<1>1. changeSet \in [Job -> ChangeSet \cup {None}] /\ change # None
  BY WorkerAssumption DEF IInv, TypeOK
<1> QED BY <1>1 DEF Records

(* The change set of an observation or of an import. *)
LEMMA PutChangeSetKeeps ==
  ASSUME IInv, NEW r \in Run, PutChangeSet(r)
  PROVE  IInv'
<1>1. /\ run[r].pc = "changeset"
      /\ UNCHANGED <<kind, engine, job, revision, objects, memory, cancel, bounds>>
      /\ \/ Records(r, Describes(r)) /\ Goto(r, "settle")
         \/ Goto(r, "thrown") /\ changeSet' = changeSet
  BY DEF PutChangeSet
<1>2. /\ TypeOK /\ FunctionsOK /\ RunOK(r) /\ run[r].job \in Job
      /\ run[r] \in RunState
  BY <1>1, HasJob DEF IInv
<1>3. PICK j \in Job : j = run[r].job
  BY <1>2
<1>4. /\ run[r].pc \in Projection /\ "settle" \in Projection /\ "thrown" \in Projection
      /\ kind[j] \in {"observation", "import"} /\ j \in objects
      /\ kind[j] = "observation" => run[r].basis > 0
  BY <1>1, <1>2, <1>3 DEF Projection, RunOK
<1>5. /\ kind' = kind /\ imports' = imports /\ objects' = objects
      /\ revision' = revision /\ revision' \in Revision
  BY <1>1, <1>2 DEF TypeOK, bounds
<1>6. CASE Records(r, Describes(r)) /\ Goto(r, "settle")
  <2>1. Describes(r) \in ChangeSet
    <3>1. run[r].basis \in Nat /\ run[r].evidence \in Nat
      BY <1>2 DEF RunState, Revision
    <3>2. kind[j] = "observation" => run[r].basis - 1 \in Nat
      BY <1>4, <3>1
    <3> QED BY <1>3, <1>4, <3>1, <3>2 DEF Describes, ChangeSet, Revision
  <2>2. /\ changeSet' \in [Job -> ChangeSet \cup {None}] /\ changeSet'[j] # None
        /\ \A k \in Job \ {j} : changeSet'[k] = changeSet[k]
    BY <1>3, <1>6, <2>1, RecordsType
  <2>3. j \notin Moved /\ Moved' = Moved
    BY <1>4, <1>5, <2>2 DEF Moved
  <2>4. \A k \in Moved : changeSet'[k] = changeSet[k]
    BY <2>2, <2>3 DEF Moved
  <2>5. AuthorsOK'
    BY <1>5, <2>3, <2>4, AuthorsKeep
  <2>6. Projected(j)'
    BY <1>4, <1>5, <2>2 DEF Projected
  <2> QED BY <1>1, <1>3, <1>4, <1>5, <1>6, <2>2, <2>5, <2>6, ProjectionKeeps
<1>7. CASE Goto(r, "thrown") /\ changeSet' = changeSet
  <2>1. changeSet' \in [Job -> ChangeSet \cup {None}]
    BY <1>2, <1>7 DEF TypeOK
  <2>2. AuthorsOK'
    BY <1>5, <1>7, AuthorsKeep DEF Moved
  <2> QED BY <1>1, <1>3, <1>4, <1>5, <1>7, <2>1, <2>2, ProjectionKeeps
<1> QED BY <1>1, <1>6, <1>7

(* The new revision is higher than that of every relation change set so    *)
(* far: so nobody has it yet, and this job has none.                       *)
LEMMA CommitRelationsKeeps ==
  ASSUME IInv, NEW r \in Run, CommitRelations(r)
  PROVE  IInv'
<1>1. /\ run[r].pc = "project" /\ kind[run[r].job] = "relation"
      /\ UNCHANGED <<kind, engine, job, memory, cancel, bounds>>
  BY DEF CommitRelations
<1>2. /\ TypeOK /\ FunctionsOK /\ AuthorsOK /\ run[r].job \in Job
      /\ run[r] \in RunState /\ RunOK(r)
  BY <1>1, HasJob DEF IInv
<1>3. PICK j \in Job : j = run[r].job
  BY <1>2
<1>4. /\ run[r].pc \in Projection /\ "settle" \in Projection /\ "thrown" \in Projection
      /\ kind' = kind /\ imports' = imports /\ revision \in Nat /\ imports \in Nat
      /\ changeSet \in [Job -> ChangeSet \cup {None}]
  BY <1>1, <1>2, WorkerAssumption DEF Projection, TypeOK, Revision, bounds
<1>5. CASE /\ revision = run[r].basis
           /\ Records(r, Moves(r))
           /\ Store(r)
           /\ revision' = revision + 1
           /\ Goto(r, "settle")
  <2> DEFINE n == revision + 1
  <2>1. /\ Moves(r) = [from |-> revision, to |-> n] /\ Moves(r) \in ChangeSet
        /\ n \in Nat /\ n > revision
    BY <1>4, <1>5 DEF Moves, ChangeSet, Revision
  <2>2. /\ changeSet' \in [Job -> ChangeSet \cup {None}]
        /\ changeSet'[j] = Moves(r) /\ changeSet'[j] # None
        /\ changeSet[j] \in {None, Moves(r)}
        /\ \A k \in Job \ {j} : changeSet'[k] = changeSet[k]
    BY <1>3, <1>5, <2>1, RecordsType
  <2>3. changeSet'[j].to = n /\ \A k \in Moved : changeSet[k].to <= revision
    BY <1>2, <2>1, <2>2 DEF AuthorsOK
  <2>4. \A k \in Moved : changeSet[k].to \in Nat /\ changeSet[k].to < n
    BY <1>4, <2>1, <2>3 DEF Moved, ChangeSet, Revision
  <2>5. changeSet[j] = None /\ j \notin Moved
    <3>1. changeSet[j] # None => j \in Moved
      BY <1>1, <1>3 DEF Moved
    <3>2. changeSet[j] = Moves(r) => changeSet[j].to = n
      BY <2>1
    <3> QED BY <2>1, <2>2, <2>4, <3>1, <3>2 DEF Moved
  <2>6. Moved' = Moved \cup {j}
    BY <1>1, <1>3, <1>4, <2>2 DEF Moved
  <2>7. \A k \in Moved : changeSet'[k] = changeSet[k]
    BY <2>2, <2>5 DEF Moved
  <2>8. objects' = objects \cup {j} /\ revision' = n /\ revision' \in Revision
    BY <1>3, <1>5, <2>1 DEF Store, Revision
  <2>9. AuthorsOK'
    <3> HIDE DEF n
    <3>1. \A i, k \in Moved' : i # k => changeSet'[i].to # changeSet'[k].to
      BY <1>2, <2>1, <2>3, <2>4, <2>6, <2>7 DEF AuthorsOK
    <3>2. \A k \in Moved' : changeSet'[k].to <= revision' /\ k \in objects'
      BY <1>2, <1>4, <2>1, <2>3, <2>4, <2>6, <2>7, <2>8 DEF AuthorsOK
    <3>3. Cardinality(Moved') = Cardinality(Moved) + 1 /\ Cardinality(Moved) \in Nat
      <4>1. IsFiniteSet(Moved)
        BY WorkerAssumption, FS_Subset DEF Moved
      <4> QED BY <2>5, <2>6, <4>1, FS_AddElement, FS_CardinalityType
    <3>4. (\A k \in Job : kind'[k] # "import") =>
            revision' = 1 + imports' + Cardinality(Moved')
      <4> SUFFICES ASSUME \A k \in Job : kind[k] # "import"
                   PROVE  n = 1 + imports + Cardinality(Moved')
        BY <1>4, <2>8
      <4>1. revision = 1 + imports + Cardinality(Moved)
        BY <1>2 DEF AuthorsOK
      <4> QED BY <1>4, <3>3, <4>1 DEF n
    <3>5. revision' > 0
      BY <1>4, <2>1, <2>8
    <3> QED BY <3>1, <3>2, <3>4, <3>5 DEF AuthorsOK
  <2>10. Projected(j)'
    BY <2>2, <2>8 DEF Projected
  <2> QED BY <1>1, <1>3, <1>4, <1>5, <2>2, <2>8, <2>9, <2>10, ProjectionKeeps
<1>6. CASE Goto(r, "thrown") /\ UNCHANGED product
  <2>1. /\ changeSet' = changeSet /\ revision' = revision /\ objects' = objects
        /\ changeSet' \in [Job -> ChangeSet \cup {None}] /\ revision' \in Revision
    BY <1>2, <1>6 DEF TypeOK, product
  <2>2. AuthorsOK'
    BY <1>4, <2>1, AuthorsKeep DEF Moved
  <2> QED BY <1>1, <1>3, <1>4, <1>6, <2>1, <2>2, ProjectionKeeps
<1> QED BY <1>5, <1>6 DEF CommitRelations

-----------------------------------------------------------------------------
(* The steps of the engine.                                                *)

(* What a step of the engine for one run must see to. *)
LEMMA EngineStepKeeps ==
  ASSUME IInv, NEW r \in Run, NEW j \in Job, j = run[r].job,
         run[r].pc \in {"execute", "executing"},
         OnlyMoves(r), run'[r].pc = "executing", run'[r].job = j,
         run'[r].record = run[r].record,
         UNCHANGED <<kind, job, product, memory, cancel, bounds>>,
         Engine!ContractTypeOK', memories' \in Revision,
         \/ empty' = empty
         \/ /\ empty' = empty \cup {j} /\ Refusable(j)
            /\ ledger[j].status = "open" /\ ledger'[j].status = "committed",
         \A q \in Run \ {r} : asked'[q] = asked[q] /\ answer'[q] = answer[q],
         \A k \in Job \ {j} : ledger'[k] = ledger[k] /\ sent'[k] = sent[k],
         asked'[r] = j,
         ledger[j].status \in {"committed", "failed"} =>
           ledger'[j].status = ledger[j].status,
         answer'[r] \in {"committed", "failed"} => ledger'[j].status = answer'[r],
         Lone(r) /\ (\A c \in Cancel : cancel[c].job # j) =>
           run'[r].calls = Calls(j)'
  PROVE  IInv'
<1>1. /\ run[r].pc # "idle" /\ run[r].pc \notin Ended \cup {"idle", "last"}
      /\ run[r].pc \in Registered /\ run[r].pc \in Before \cup {"executing"}
      /\ "executing" \notin Ended \cup Before \cup Projection
      /\ run'[r].pc \in Registered /\ run'[r].pc \in Begun
  BY StateSets
<1>2. /\ TypeOK /\ FunctionsOK /\ RunOK(r) /\ LoneOK(r) /\ SettlesOK(r)
      /\ JobOK(j) /\ ControllerOK /\ AuthorsOK
      /\ run[r].record \in Record /\ run[r] \in RunState
      /\ \A k \in Job \ {j} : controller[k] # r
  BY <1>1, HasJob DEF IInv
<1>3. /\ None \notin Job /\ j # None
  BY WorkerAssumption
<1>4. UNCHANGED <<kind, job, revision, objects, changeSet, controller, aborted,
                  cancel, imports, crashes>>
  BY DEF product, memory, bounds
<1>5. \A q \in Run : run'[q].job = run[q].job
  BY DEF OnlyMoves
<1>6. RunOK(r)'
  BY <1>1, <1>2, <1>3, <1>4 DEF RunOK, Projected
<1>7. LoneOK(r)'
  BY <1>1, <1>2, <1>4, <1>5, LoneGoesOn
<1>8. SettlesOK(r)'
  <2>1. Lone(r)' => Lone(r)
    BY <1>5 DEF Lone
  <2>2. Lone(r) /\ (\A c \in Cancel : cancel[c].job # j) => run[r].record.calls = 0
    BY <1>1, <1>2 DEF SettlesOK, Tells
  <2> QED BY <1>1, <1>4, <2>1, <2>2 DEF SettlesOK, Tells
<1>9. JobOK(j)'
  BY <1>2, <1>4, <1>5 DEF JobOK, Projected
<1>10. AuthorsOK'
  BY <1>2, <1>4 DEF AuthorsOK, Moved
<1>11. /\ job' \in [Job -> Record \cup {None}]
       /\ controller' \in [Job -> Run \cup {None}]
       /\ objects' \subseteq Job /\ revision' \in Revision
       /\ changeSet' \in [Job -> ChangeSet \cup {None}]
       /\ empty' \subseteq {k \in Job : Refusable(k)}
       /\ ledger[j].status = "committed" => (j \in empty' => j \in empty)
       /\ \A k \in Job \ {j} : k \in empty' <=> k \in empty
  BY <1>2, <1>4 DEF TypeOK, FunctionsOK
<1>12. controller'[j] # None =>
         run'[controller'[j]].job = j /\ run'[controller'[j]].pc \in Registered
  <2> SUFFICES ASSUME controller[j] # None
               PROVE  /\ run'[controller[j]].job = j
                      /\ run'[controller[j]].pc \in Registered
    BY <1>4
  <2>1. PICK q \in Run : q = controller[j]
    BY <1>2 DEF TypeOK
  <2>2. run[q].job = j /\ run[q].pc \in Registered
    BY <1>2, <2>1 DEF ControllerOK
  <2> QED BY <1>1, <2>1, <2>2 DEF OnlyMoves
<1> QED
  BY <1>1, <1>2, <1>3, <1>4, <1>6, <1>7, <1>8, <1>9, <1>10, <1>11, <1>12, RunKeeps
     DEF OnlyMoves

(* Nothing was sent for a job whose one run has not asked yet. *)
LEMMA NothingSent ==
  ASSUME IInv, NEW r \in Run, NEW j \in Job, j = run[r].job,
         asked[r] = None, Lone(r)
  PROVE  Calls(j) = 0
<1>1. \A c \in 0 .. MaxRepair : ~ (sent[j][c] > 0)
  <2> SUFFICES ASSUME NEW c \in 0 .. MaxRepair, sent[j][c] > 0
               PROVE  FALSE
    OBVIOUS
  <2>1. PICK q \in Run : asked[q] = j
    BY DEF IInv, JobOK
  <2>2. run[q].job = j
    BY <2>1, WorkerAssumption DEF IInv, RunOK
  <2> QED BY <2>1, <2>2, WorkerAssumption DEF Lone
<1> QED BY <1>1, FS_EmptySet DEF Calls

(* A run asks once, and for its own job. *)
LEMMA ExecuteKeeps ==
  ASSUME IInv, NEW r \in Run, Execute(r)
  PROVE  IInv'
<1> DEFINE request == [entity |-> "workspace", expectedRevision |-> run[r].expected]
<1>1. /\ run[r].pc = "execute" /\ Goto(r, "executing")
      /\ \/ Engine!Open(r, run[r].job, request)
         \/ Engine!Rejoin(r, run[r].job, request)
      /\ UNCHANGED <<kind, empty, memories, job, product, memory, cancel, bounds>>
  BY DEF Execute
<1>2. /\ TypeOK /\ FunctionsOK /\ RunOK(r) /\ SettlesOK(r)
      /\ run[r] \in RunState /\ run[r].job \in Job
  BY <1>1, HasJob DEF IInv
<1>3. PICK j \in Job : j = run[r].job
  BY <1>2
<1>4. PICK q0 \in Request : q0 = request
  BY <1>2 DEF Request, RunState
<1> HIDE DEF request
<1>5. /\ OnlyMoves(r) /\ run'[r].job = j /\ run'[r].record = run[r].record
      /\ run'[r].calls = run[r].calls /\ run'[r].pc = "executing"
  BY <1>1, <1>2, <1>3, Goes, AllStates
<1>6. /\ ledger \in [Job -> Engine!Execution]
      /\ head \in [{"workspace"} -> Nat]
      /\ sent \in [Job -> [0 .. MaxRepair -> Nat]]
      /\ asked \in [Run -> Job \cup {None}]
      /\ answer \in [Run -> {"committed", "failed", "other-request", None}]
  BY <1>2 DEF TypeOK, Engine!ContractTypeOK, Engine!Settled
<1>7. /\ asked[r] = None /\ asked' = [asked EXCEPT ![r] = j]
      /\ head' = head /\ sent' = sent
  BY <1>1, <1>3 DEF Engine!Open, Engine!Rejoin, Engine!Asks
<1>8. run[r].calls = 0 /\ answer[r] = None
  BY <1>1, <1>2, <1>7, StateSets DEF RunOK
<1>9. /\ ledger' \in [Job -> Engine!Execution]
      /\ answer' \in [Run -> {"committed", "failed", "other-request", None}]
      /\ \A q \in Run \ {r} : answer'[q] = answer[q]
      /\ \A k \in Job \ {j} : ledger'[k] = ledger[k]
      /\ ledger[j].status \in {"committed", "failed"} =>
           ledger'[j].status = ledger[j].status
      /\ answer'[r] \in {"committed", "failed"} => ledger'[j].status = answer'[r]
  <2>1. CASE Engine!Open(r, j, q0)
    <3>1. /\ ledger[j].status = "absent" /\ answer' = answer
          /\ ledger' = [ledger EXCEPT ![j] = [status |-> "open", request |-> q0]]
      BY <2>1 DEF Engine!Open
    <3>2. [status |-> "open", request |-> q0] \in Engine!Execution
      BY DEF Engine!Execution
    <3> QED BY <1>6, <1>8, <3>1, <3>2, WorkerAssumption
  <2>2. CASE Engine!Rejoin(r, j, q0)
    <3>1. /\ ledger[j].status # "absent" /\ ledger' = ledger
          /\ answer' = [answer EXCEPT ![r] =
                IF ledger[j].request # q0 THEN "other-request"
                ELSE IF ledger[j].status = "open" THEN None
                ELSE ledger[j].status]
      BY <2>2 DEF Engine!Rejoin
    <3>2. ledger[j].status \in {"absent", "open", "committed", "failed"}
      BY <1>6 DEF Engine!Execution, Engine!Settled
    <3>3. PICK told \in {"committed", "failed", "other-request", None} :
            /\ answer' = [answer EXCEPT ![r] = told]
            /\ told \in {"committed", "failed"} => ledger[j].status = told
      <4>1. CASE ledger[j].request # q0
        BY <3>1, <4>1
      <4>2. CASE ledger[j].request = q0 /\ ledger[j].status = "open"
        BY <3>1, <4>2, WorkerAssumption
      <4>3. CASE ledger[j].request = q0 /\ ledger[j].status \in {"committed", "failed"}
        BY <3>1, <4>3
      <4> QED BY <3>1, <3>2, <4>1, <4>2, <4>3
    <3> QED BY <1>6, <3>1, <3>3
  <2> QED BY <1>1, <1>3, <1>4, <2>1, <2>2
<1>10. /\ asked' \in [Run -> Job \cup {None}] /\ asked'[r] = j
       /\ \A q \in Run \ {r} : asked'[q] = asked[q]
  BY <1>6, <1>7
<1>11. Engine!ContractTypeOK'
  BY <1>6, <1>7, <1>9, <1>10
     DEF Engine!ContractTypeOK, Engine!Settled, Engine!Execution
<1>12. Lone(r) => run'[r].calls = Calls(j)'
  <2>1. Calls(j)' = Calls(j)
    BY <1>7 DEF Calls
  <2> QED BY <1>3, <1>5, <1>7, <1>8, <2>1, NothingSent
<1>13. memories' \in Revision
  BY <1>1, <1>2 DEF TypeOK
<1> QED BY <1>1, <1>3, <1>5, <1>7, <1>9, <1>10, <1>11, <1>12, <1>13, EngineStepKeeps

(* The call that a run sends is the next of its own count. *)
LEMMA SendKeeps ==
  ASSUME IInv, NEW r \in Run, Send(r)
  PROVE  IInv'
<1>1. PICK c \in 0 .. MaxRepair : Engine!Send(r, c)
  BY DEF Send
<1>2. /\ run[r].pc = "executing"
      /\ run' = [run EXCEPT ![r] = [run[r] EXCEPT !.calls = run[r].calls + 1]]
      /\ UNCHANGED <<kind, empty, memories, job, product, memory, cancel, bounds>>
  BY DEF Send
<1>3. /\ TypeOK /\ FunctionsOK /\ RunOK(r) /\ SettlesOK(r)
      /\ run[r] \in RunState /\ run[r].job \in Job
  BY <1>2, HasJob DEF IInv
<1>4. PICK j \in Job : j = run[r].job
  BY <1>3
<1>5. asked[r] = j
  BY <1>2, <1>3, <1>4 DEF RunOK
<1>6. /\ sent[j][c] = 0 /\ sent' = [sent EXCEPT ![j] = [sent[j] EXCEPT ![c] = 1]]
      /\ UNCHANGED <<ledger, head, asked, answer>>
  BY <1>1, <1>5 DEF Engine!Send
<1>7. sent \in [Job -> [0 .. MaxRepair -> Nat]] /\ run[r].calls \in Nat
  BY <1>3 DEF TypeOK, Engine!ContractTypeOK, RunState
<1>8. /\ OnlyMoves(r) /\ run'[r].job = j /\ run'[r].record = run[r].record
      /\ run'[r].calls = run[r].calls + 1 /\ run'[r].pc = "executing"
  <2>1. [run[r] EXCEPT !.calls = run[r].calls + 1] \in RunState
    BY <1>3, <1>7, States
  <2> QED BY <1>2, <1>3, <1>4, <2>1, States DEF FunctionsOK, OnlyMoves
<1>9. /\ sent' \in [Job -> [0 .. MaxRepair -> Nat]]
      /\ sent'[j] = [sent[j] EXCEPT ![c] = 1]
      /\ \A k \in Job \ {j} : sent'[k] = sent[k]
  BY <1>6, <1>7
<1>10. Engine!ContractTypeOK'
  BY <1>3, <1>6, <1>9
     DEF TypeOK, Engine!ContractTypeOK, Engine!Settled, Engine!Execution
<1>11. Calls(j)' = Calls(j) + 1
  <2> DEFINE S == {d \in 0 .. MaxRepair : sent[j][d] > 0}
  <2>1. IsFiniteSet(S)
    <3>1. IsFiniteSet(0 .. MaxRepair)
      BY FS_Interval, WorkerAssumption
    <3> QED BY <3>1, FS_Subset
  <2>2. c \notin S
    BY <1>6
  <2>3. {d \in 0 .. MaxRepair : sent'[j][d] > 0} = S \cup {c}
    <3>1. sent[j] \in [0 .. MaxRepair -> Nat]
      BY <1>7
    <3>2. \A d \in 0 .. MaxRepair : sent'[j][d] = IF d = c THEN 1 ELSE sent[j][d]
      BY <1>9, <3>1
    <3> QED BY <3>2
  <2>4. Cardinality(S \cup {c}) = Cardinality(S) + 1
    <3> HIDE DEF S
    <3> QED BY <2>1, <2>2, FS_AddElement
  <2> QED BY <2>3, <2>4 DEF Calls
<1>12. Lone(r) /\ (\A d \in Cancel : cancel[d].job # j) =>
         run'[r].calls = Calls(j)'
  <2>1. Lone(r) /\ (\A d \in Cancel : cancel[d].job # j) => run[r].calls = Calls(j)
    BY <1>2, <1>3, <1>4 DEF SettlesOK, Tells
  <2> QED BY <1>8, <1>11, <2>1
<1>13. /\ answer[r] \in {"committed", "failed"} => ledger[j].status = answer[r]
       /\ memories' \in Revision
  BY <1>2, <1>3, <1>4 DEF RunOK, TypeOK
<1> QED BY <1>2, <1>4, <1>5, <1>6, <1>8, <1>9, <1>10, <1>12, <1>13, EngineStepKeeps

(* The one call of a key that settles its execution, or hears of it. *)
LEMMA SettleKeeps ==
  ASSUME IInv, NEW r \in Run, Settle(r)
  PROVE  IInv'
<1>1. /\ run[r].pc = "executing"
      /\ \/ Commit(r)
         \/ Engine!Fail(r) /\ UNCHANGED <<empty, memories>>
         \/ Engine!Learn(r) /\ UNCHANGED <<empty, memories>>
      /\ UNCHANGED <<kind, job, product, memory, run, cancel, bounds>>
  BY DEF Settle
<1>2. /\ TypeOK /\ FunctionsOK /\ RunOK(r) /\ SettlesOK(r)
      /\ run[r] \in RunState /\ run[r].job \in Job
  BY <1>1, HasJob DEF IInv
<1>3. PICK j \in Job : j = run[r].job
  BY <1>2
<1>4. asked[r] = j
  BY <1>1, <1>2, <1>3 DEF RunOK
<1>5. /\ ledger \in [Job -> Engine!Execution]
      /\ head \in [{"workspace"} -> Nat]
      /\ answer \in [Run -> {"committed", "failed", "other-request", None}]
      /\ ledger[j] \in Engine!Execution
  BY <1>2 DEF TypeOK, Engine!ContractTypeOK, Engine!Settled
<1>6. PICK told \in {"committed", "failed"} :
        /\ answer' = [answer EXCEPT ![r] = told]
        /\ \/ /\ ledger[j].status = "open"
              /\ ledger' = [ledger EXCEPT ![j].status = told]
           \/ ledger[j].status = told /\ ledger' = ledger
        /\ sent' = sent /\ asked' = asked
        /\ head' \in [{"workspace"} -> Nat]
        /\ \/ empty' = empty
           \/ /\ empty' = empty \cup {j} /\ Refusable(j)
              /\ ledger[j].status = "open" /\ told = "committed"
        /\ memories' = memories \/ memories' = memories + 1
  <2>1. CASE Commit(r)
    <3>1. /\ answer' = [answer EXCEPT ![r] = "committed"]
          /\ ledger[j].status = "open"
          /\ ledger' = [ledger EXCEPT ![j].status = "committed"]
          /\ sent' = sent /\ asked' = asked
          /\ \/ head' = [head EXCEPT ![ledger[j].request.entity] = @ + 1]
             \/ head' = head
      BY <1>4, <2>1 DEF Commit, Engine!Commit
    <3>2. head' \in [{"workspace"} -> Nat]
      BY <1>5, <3>1
    <3>3. /\ empty' = empty \/ (empty' = empty \cup {j} /\ Refusable(j))
          /\ memories' = memories \/ memories' = memories + 1
      BY <1>3, <2>1 DEF Commit
    <3> QED BY <3>1, <3>2, <3>3
  <2>2. CASE Engine!Fail(r) /\ UNCHANGED <<empty, memories>>
    BY <1>4, <1>5, <2>2 DEF Engine!Fail
  <2>3. CASE Engine!Learn(r) /\ UNCHANGED <<empty, memories>>
    BY <1>4, <1>5, <2>3 DEF Engine!Learn, Engine!Settled
  <2> QED BY <1>1, <2>1, <2>2, <2>3
<1>7. /\ ledger' \in [Job -> Engine!Execution] /\ ledger'[j].status = told
      /\ \A k \in Job \ {j} : ledger'[k] = ledger[k]
      /\ ledger[j].status \in {"committed", "failed"} => ledger'[j].status = ledger[j].status
  <2>1. CASE ledger[j].status = told /\ ledger' = ledger
    BY <1>5, <2>1
  <2>2. CASE /\ ledger[j].status = "open"
             /\ ledger' = [ledger EXCEPT ![j].status = told]
    <3>1. [ledger[j] EXCEPT !.status = told] \in Engine!Execution
      BY <1>5 DEF Engine!Execution, Engine!Settled
    <3>2. [ledger[j] EXCEPT !.status = told].status = told
      BY <1>5 DEF Engine!Execution
    <3>3. ledger' = [ledger EXCEPT ![j] = [ledger[j] EXCEPT !.status = told]]
      BY <2>2
    <3> QED BY <1>5, <2>2, <3>1, <3>2, <3>3
  <2> QED BY <1>6, <2>1, <2>2
<1>8. /\ answer' \in [Run -> {"committed", "failed", "other-request", None}]
      /\ answer'[r] = told /\ \A q \in Run \ {r} : answer'[q] = answer[q]
  BY <1>5, <1>6
<1>9. Engine!ContractTypeOK'
  BY <1>2, <1>6, <1>7, <1>8
     DEF TypeOK, Engine!ContractTypeOK, Engine!Settled, Engine!Execution
<1>10. OnlyMoves(r)
  BY <1>1, <1>2 DEF OnlyMoves, FunctionsOK
<1>11. Lone(r) /\ (\A c \in Cancel : cancel[c].job # j) =>
         run'[r].calls = Calls(j)'
  <2>1. Calls(j)' = Calls(j) /\ run' = run
    BY <1>1, <1>6 DEF Calls
  <2> QED BY <1>1, <1>2, <1>3, <2>1 DEF SettlesOK, Tells
<1>12. /\ memories' \in Revision
       /\ \/ empty' = empty
          \/ /\ empty' = empty \cup {j} /\ Refusable(j)
             /\ ledger[j].status = "open" /\ ledger'[j].status = "committed"
  BY <1>2, <1>6, <1>7 DEF TypeOK, Revision
<1> QED
  BY <1>1, <1>3, <1>4, <1>6, <1>7, <1>8, <1>9, <1>10, <1>11, <1>12, EngineStepKeeps

-----------------------------------------------------------------------------
(* The starts of runs, cancels, imports and crashes.                       *)

(* What a command names is what the case has. *)
LEMMA BasisType ==
  ASSUME IInv, NEW j \in Job
  PROVE  Basis(j) \in SUBSET (Job \cup Nat)
BY DEF IInv, TypeOK, Revision, Basis

(* A job that is started has a run from then on, and a run that remains    *)
(* alone was alone.                                                        *)
LEMMA StartKeeps ==
  ASSUME IInv, NEW r \in Run, NEW j \in Job, StartReads(r, j)
  PROVE  IInv'
<1> DEFINE next == "command"
           record == Fresh(j)
           begun == [NoRun EXCEPT !.job = j, !.pc = next, !.record = record]
<1>1. /\ run[r].pc = "idle"
      /\ run' = [run EXCEPT ![r] = begun]
      /\ UNCHANGED <<kind, engine, job, product, memory, cancel, bounds>>
  BY DEF StartReads
<1>2. UNCHANGED <<kind, ledger, head, sent, asked, answer, empty, memories,
                  job, revision, objects, changeSet, controller, aborted,
                  cancel, imports, crashes>>
  BY <1>1 DEF engine, product, memory, bounds
<1>3. /\ TypeOK /\ FunctionsOK /\ ControllerOK /\ AbortedOK /\ AuthorsOK
      /\ \A q \in Run : RunOK(q) /\ LoneOK(q) /\ SettlesOK(q)
      /\ \A c \in Cancel : CancelOK(c)
      /\ \A k \in Job : JobOK(k)
  BY DEF IInv
<1>4. /\ None \notin Job /\ None \notin Run
      /\ None \notin {"committed", "failed", "other-request"}
  BY WorkerAssumption
<1>5. job \in [Job -> Record \cup {None}] /\ run \in [Run -> RunState]
  BY <1>3 DEF FunctionsOK
<1>6. record \in Record /\ record.phase = "queued" /\ record.calls = 0
  BY BasisType DEF Fresh, Record
<1>7. next = "command"
  OBVIOUS
<1> HIDE DEF next, record
<1>8. /\ begun.job = j /\ begun.pc = next /\ begun.record = record
      /\ begun.calls = 0 /\ begun \in RunState
  <2>1. NoRun \in RunState
    BY DEF NoRun, RunState, Revision
  <2>2. next \in RunStates
    BY <1>7 DEF RunStates
  <2>3. NoRun.calls = 0
    BY DEF NoRun
  <2>4. begun \in RunState
    BY <1>6, <2>1, <2>2, States
  <2> QED BY <2>1, <2>3, <2>4, States
<1> HIDE DEF begun
<1>9. /\ run' \in [Run -> RunState] /\ run'[r] = begun
      /\ \A q \in Run \ {r} : run'[q] = run[q]
  BY <1>1, <1>5, <1>8
<1>10. /\ next \in Before /\ next \notin Registered \cup Projection \cup {"idle"}
       /\ next \notin {"executing", "advance", "changeset", "project", "settle",
                       "last", "ended"}
  BY <1>7, StateSets
<1>11. run[r].job = None /\ asked[r] = None /\ answer[r] = None
  BY <1>1, <1>3, StateSets DEF RunOK
<1>12. \A q \in Run : RunOK(q)'
  <2>1. RunOK(r)'
    BY <1>2, <1>4, <1>6, <1>8, <1>9, <1>10, <1>11 DEF RunOK, Projected
  <2>2. ASSUME NEW q \in Run, q # r
        PROVE  RunOK(q)'
    BY <1>2, <1>3, <1>9, <2>2 DEF RunOK, Projected
  <2> QED BY <2>1, <2>2
<1>13. ASSUME NEW q \in Run, q # r, Lone(q)'
       PROVE  LoneOK(q)' /\ SettlesOK(q)'
  <2>1. Lone(q) /\ run'[q] = run[q]
    BY <1>4, <1>9, <1>11, <1>13 DEF Lone
  <2>2. LoneOK(q) /\ SettlesOK(q)
    BY <1>3
  <2>3. Calls(run[q].job)' = Calls(run[q].job)
    BY <1>2, <2>1 DEF Calls
  <2> QED BY <1>2, <2>1, <2>2, <2>3 DEF LoneOK, SettlesOK, Tells
<1>14. ASSUME Lone(r)'
       PROVE  LoneOK(r)' /\ SettlesOK(r)'
  <2>1. job[j] = None
    <3>1. \A q \in Run : run[q].job # j
      BY <1>4, <1>8, <1>9, <1>11, <1>14 DEF Lone
    <3> QED BY <1>3, <3>1 DEF JobOK
  <2>2. \A c \in Cancel : cancel[c].job # j
    BY <1>3, <1>4, <2>1 DEF CancelOK
  <2>3. LoneOK(r)'
    BY <1>2, <1>7, <1>8, <1>9, <1>10, <2>1, <2>2 DEF LoneOK
  <2>4. SettlesOK(r)'
    BY <1>6, <1>8, <1>9, <1>10, <2>1 DEF SettlesOK, Tells
  <2> QED BY <2>3, <2>4
<1>15. \A q \in Run : LoneOK(q)' /\ SettlesOK(q)'
  BY <1>13, <1>14 DEF LoneOK, SettlesOK, Tells
<1>16. \A c \in Cancel : CancelOK(c)'
  BY <1>2, <1>3 DEF CancelOK, Projected
<1>17. \A k \in Job : JobOK(k)'
  BY <1>2, <1>3, <1>4, <1>9, <1>11 DEF JobOK, Projected
<1>18. ControllerOK' /\ AbortedOK' /\ AuthorsOK'
  <2>1. \A k \in Job : controller[k] # None => controller[k] # r
    BY <1>3, <1>4, <1>11 DEF ControllerOK
  <2>2. ControllerOK'
    BY <1>2, <1>3, <1>9, <2>1 DEF ControllerOK, TypeOK
  <2>3. AbortedOK'
    BY <1>2, <1>3, <1>9, <1>11 DEF AbortedOK, TypeOK
  <2> QED BY <1>2, <1>3, <2>2, <2>3 DEF AuthorsOK, Moved
<1>19. FunctionsOK'
  BY <1>2, <1>3, <1>9 DEF FunctionsOK
<1>20. TypeOK'
  <2>1. Registered \cap Ended = {}
    BY DEF Registered, Projection, Ended
  <2>2. \A k \in Job : controller'[k] # None =>
          run'[controller'[k]].job = k /\ run'[controller'[k]].pc \notin Ended
    BY <1>18, <2>1 DEF ControllerOK
  <2>3. Engine!ContractTypeOK'
    BY <1>2, <1>3 DEF TypeOK, Engine!ContractTypeOK, Engine!Execution, Engine!Settled
  <2> QED BY <1>2, <1>3, <1>19, <2>2, <2>3 DEF TypeOK, FunctionsOK, Refusable
<1> QED BY <1>12, <1>15, <1>16, <1>17, <1>18, <1>19, <1>20 DEF IInv

(* A run finds the record of its job, or none: then no other one has       *)
(* queued the job.                                                         *)
LEMMA StartFindsKeeps ==
  ASSUME IInv, NEW r \in Run, StartFinds(r)
  PROVE  IInv'
<1>1. /\ run[r].pc = "command"
      /\ UNCHANGED <<kind, engine, job, product, memory, cancel, bounds>>
  BY DEF StartFinds
<1>2. /\ TypeOK /\ FunctionsOK /\ RunOK(r) /\ LoneOK(r) /\ SettlesOK(r)
      /\ run[r].job \in Job /\ run[r].record \in Record /\ run[r] \in RunState
      /\ \A c \in Cancel : CancelOK(c)
  BY <1>1, HasJob DEF IInv
<1>3. UNCHANGED <<kind, ledger, head, sent, asked, answer, empty, memories,
                  job, revision, objects, changeSet, controller, aborted,
                  cancel, imports, crashes>>
  BY <1>1 DEF engine, product, memory, bounds
<1>4. PICK j \in Job : j = run[r].job
  BY <1>2
<1> DEFINE record == IF job[j] = None THEN run[r].record
                     ELSE [job[j] EXCEPT !.phase = "queued",
                                         !.cancelRequested = FALSE]
<1>5. record \in Record /\ record.phase = "queued"
      /\ (job[j] = None => record = run[r].record)
  <2>1. job[j] # None => job[j] \in Record
    BY <1>2 DEF FunctionsOK
  <2>2. run[r].record.phase = "queued"
    BY <1>1, <1>2 DEF RunOK
  <2> QED BY <1>2, <2>1, <2>2 DEF Record
<1> HIDE DEF record
<1>6. PICK next \in {"refused", "returned", "queue"} :
        /\ run' = [run EXCEPT ![r] = [run[r] EXCEPT !.pc = next, !.record = record]]
        /\ job[j] = None => next = "queue"
  <2> DEFINE pc == IF /\ job[j] # None /\ kind[j] # "import"
                      /\ job[j].basis # run[r].record.basis THEN "refused"
                   ELSE IF Returned(j) THEN "returned"
                   ELSE "queue"
  <2>1. run' = [run EXCEPT ![r] = [run[r] EXCEPT !.pc = pc, !.record = record]]
    BY <1>4 DEF StartFinds, record
  <2>2. /\ pc \in {"refused", "returned", "queue"}
        /\ job[j] = None => pc = "queue"
    BY DEF Returned
  <2> HIDE DEF pc
  <2> QED BY <2>1, <2>2
<1>7. /\ OnlyMoves(r) /\ run'[r].job = j /\ run'[r].record = record
      /\ run'[r].calls = run[r].calls /\ run'[r].pc = next
  <2>1. [run[r] EXCEPT !.pc = next, !.record = record] \in RunState
    BY <1>2, <1>5, AllStates, States
  <2> QED BY <1>2, <1>4, <1>6, <2>1, States DEF FunctionsOK, OnlyMoves
<1>8. \A q \in Run : run'[q].job = run[q].job
  BY <1>4, <1>7 DEF OnlyMoves
<1>9. /\ next \in Before /\ next \notin Registered \cup Begun \cup Projection
      /\ next \notin {"idle", "executing", "advance", "changeset", "project",
                      "settle", "last", "ended", "command"}
      /\ run[r].pc \in Before /\ run[r].pc \notin Registered \cup Begun \cup Ended
  BY <1>1, StateSets
<1>10. RunOK(r)'
  BY <1>1, <1>2, <1>3, <1>4, <1>5, <1>7, <1>9 DEF RunOK, Projected
<1>11. Lone(r)' => job[j] = None /\ \A c \in Cancel : cancel[c].job # j
  <2> SUFFICES ASSUME Lone(r)'
               PROVE  job[j] = None /\ \A c \in Cancel : cancel[c].job # j
    OBVIOUS
  <2>1. Lone(r)
    BY <1>8 DEF Lone
  <2>2. job[j] = None
    BY <1>1, <1>2, <1>4, <2>1 DEF LoneOK
  <2> QED BY <1>2, <2>2, WorkerAssumption DEF CancelOK
<1>12. LoneOK(r)'
  BY <1>3, <1>6, <1>7, <1>9, <1>11 DEF LoneOK
<1>13. SettlesOK(r)'
  <2>1. Lone(r)' => Lone(r)
    BY <1>8 DEF Lone
  <2> QED BY <1>2, <1>3, <1>4, <1>5, <1>7, <1>9, <1>11, <2>1 DEF SettlesOK, Tells
<1> QED
  BY <1>1, <1>3, <1>4, <1>7, <1>9, <1>10, <1>12, <1>13, RunAlone
     DEF engine, product, memory, bounds

(* A cancel reads the record of a job that has run, and is one more that   *)
(* has met it.                                                             *)
LEMMA CancelReadsKeeps ==
  ASSUME IInv, NEW c \in Cancel, NEW j \in Job, CancelReads(c, j)
  PROVE  IInv'
<1> DEFINE record == [job[j] EXCEPT !.cancelRequested = TRUE]
           next == IF job[j].phase \in Terminal THEN "done" ELSE "abort"
           begun == [pc |-> next, job |-> j, record |-> record]
<1>1. /\ cancel[c].pc = "idle" /\ job[j] # None
      /\ cancel' = [cancel EXCEPT ![c] = begun]
      /\ UNCHANGED <<kind, engine, job, product, memory, run, bounds>>
  BY DEF CancelReads
<1>2. UNCHANGED <<kind, ledger, head, sent, asked, answer, empty, memories,
                  job, revision, objects, changeSet, controller, aborted, run,
                  imports, crashes>>
  BY <1>1 DEF engine, product, memory, bounds
<1>3. /\ TypeOK /\ FunctionsOK /\ ControllerOK /\ AbortedOK /\ AuthorsOK
      /\ \A q \in Run : RunOK(q) /\ LoneOK(q) /\ SettlesOK(q)
      /\ \A d \in Cancel : CancelOK(d)
      /\ \A k \in Job : JobOK(k)
  BY DEF IInv
<1>4. None \notin Job /\ j # None
  BY WorkerAssumption
<1>5. job[j] \in Record /\ cancel \in [Cancel -> CancelState]
  BY <1>1, <1>3 DEF FunctionsOK
<1>6. record \in Record /\ record.phase = job[j].phase
  BY <1>5 DEF Record
<1>7. /\ next \in {"done", "abort"}
      /\ next = "done" => job[j].phase \in Terminal
  OBVIOUS
<1> HIDE DEF record, next
<1>8. /\ begun.pc = next /\ begun.job = j /\ begun.record = record
      /\ begun \in CancelState
  BY <1>6, <1>7 DEF CancelState
<1> HIDE DEF begun
<1>9. /\ cancel' \in [Cancel -> CancelState] /\ cancel'[c] = begun
      /\ \A d \in Cancel \ {c} : cancel'[d] = cancel[d]
  BY <1>1, <1>5, <1>8
<1>10. cancel[c].job = None
  BY <1>1, <1>3 DEF CancelOK
<1>11. \A q \in Run : RunOK(q)'
  BY <1>2, <1>3 DEF RunOK, Projected
<1>12. ASSUME NEW q \in Run
       PROVE  LoneOK(q)'
  <2> SUFFICES ASSUME Lone(q)'
               PROVE  LoneOK(q)'
    BY DEF LoneOK
  <2>1. Lone(q) /\ LoneOK(q)
    BY <1>2, <1>3 DEF Lone
  <2>2. ASSUME run[q].job = j, job[j].phase \in AtWork
        PROVE  run[q].pc \in Begun /\ begun.pc \notin {"write", "done"}
    <3>1. job[j].phase \notin Terminal
      BY <2>2 DEF AtWork, Terminal
    <3> QED BY <1>1, <1>7, <1>8, <2>1, <2>2, <3>1 DEF LoneOK
  <2>3. ASSUME NEW d \in Cancel, cancel'[d].job = run[q].job,
               cancel'[d].record.phase \in AtWork
        PROVE  /\ run[q].pc \in Begun
               /\ cancel'[d].pc \in {"write", "done"} =>
                    q \in aborted \/ run[q].pc \in {"last", "ended", "dead"}
    <3>1. CASE d = c
      BY <1>6, <1>8, <1>9, <2>2, <2>3, <3>1
    <3>2. CASE d # c
      BY <1>9, <2>1, <2>3, <3>2 DEF LoneOK
    <3> QED BY <3>1, <3>2
  <2> QED BY <1>2, <2>1, <2>3 DEF LoneOK
<1>13. ASSUME NEW q \in Run
       PROVE  SettlesOK(q)'
  <2> SUFFICES ASSUME Lone(q)', \A d \in Cancel : cancel'[d].job # run'[q].job
               PROVE  SettlesOK(q)'
    BY DEF SettlesOK, Tells
  <2>1. Lone(q) /\ SettlesOK(q) /\ Calls(run[q].job)' = Calls(run[q].job)
    BY <1>2, <1>3 DEF Lone, Calls
  <2>2. \A d \in Cancel : cancel[d].job # run[q].job
    <3>1. run[q].job # None
      BY <2>1 DEF Lone
    <3> QED BY <1>2, <1>9, <1>10, <3>1
  <2> QED BY <1>2, <2>1, <2>2 DEF SettlesOK, Tells
<1>14. \A d \in Cancel : CancelOK(d)'
  <2>1. CancelOK(c)'
    <3>1. job[j].phase = "completed" => Projected(j)
      BY <1>1, <1>3 DEF JobOK
    <3> QED BY <1>1, <1>2, <1>4, <1>6, <1>7, <1>8, <1>9, <3>1 DEF CancelOK, Projected
  <2>2. ASSUME NEW d \in Cancel, d # c
        PROVE  CancelOK(d)'
    BY <1>2, <1>3, <1>9, <2>2 DEF CancelOK, Projected
  <2> QED BY <2>1, <2>2
<1>15. \A k \in Job : JobOK(k)'
  BY <1>2, <1>3 DEF JobOK, Projected
<1>16. ControllerOK' /\ AbortedOK' /\ AuthorsOK'
  <2>1. ControllerOK'
    BY <1>2, <1>3 DEF ControllerOK
  <2>2. AbortedOK'
    BY <1>2, <1>3, <1>9, <1>10 DEF AbortedOK, TypeOK
  <2> QED BY <1>2, <1>3, <2>1, <2>2 DEF AuthorsOK, Moved
<1>17. FunctionsOK'
  BY <1>2, <1>3, <1>9 DEF FunctionsOK
<1>18. TypeOK'
  <2>1. Engine!ContractTypeOK'
    BY <1>2, <1>3 DEF TypeOK, Engine!ContractTypeOK, Engine!Execution, Engine!Settled
  <2> QED BY <1>2, <1>3, <1>9, <2>1 DEF TypeOK, Refusable
<1> QED BY <1>11, <1>12, <1>13, <1>14, <1>15, <1>16, <1>17, <1>18 DEF IInv

(* What it aborts is the run that has registered last.  A run that is      *)
(* alone is the one, or knows how it ends.                                 *)
LEMMA CancelAbortsKeeps ==
  ASSUME IInv, NEW c \in Cancel, CancelAborts(c)
  PROVE  IInv'
<1>1. /\ cancel[c].pc = "abort"
      /\ cancel' = [cancel EXCEPT ![c].pc = "write"]
      /\ UNCHANGED <<kind, engine, job, product, controller, run, bounds>>
      /\ aborted' = IF controller[cancel[c].job] = None THEN aborted
                    ELSE aborted \cup {controller[cancel[c].job]}
  BY DEF CancelAborts
<1>2. UNCHANGED <<kind, ledger, head, sent, asked, answer, empty, memories,
                  job, revision, objects, changeSet, controller, run, imports,
                  crashes>>
  BY <1>1 DEF engine, product, bounds
<1>3. /\ TypeOK /\ FunctionsOK /\ ControllerOK /\ AbortedOK /\ AuthorsOK
      /\ \A q \in Run : RunOK(q) /\ LoneOK(q) /\ SettlesOK(q)
      /\ \A d \in Cancel : CancelOK(d)
      /\ \A k \in Job : JobOK(k)
  BY DEF IInv
<1>4. cancel \in [Cancel -> CancelState]
  BY <1>3 DEF FunctionsOK
<1>5. /\ cancel' \in [Cancel -> CancelState]
      /\ cancel'[c].pc = "write" /\ cancel'[c].job = cancel[c].job
      /\ cancel'[c].record = cancel[c].record
      /\ \A d \in Cancel \ {c} : cancel'[d] = cancel[d]
  <2>1. [cancel[c] EXCEPT !.pc = "write"] \in CancelState
    BY <1>4 DEF CancelState
  <2> QED BY <1>1, <1>4, <2>1 DEF CancelState
<1>6. PICK j \in Job : j = cancel[c].job
  BY <1>1, <1>3, <1>4 DEF CancelOK, CancelState
<1>7. /\ aborted \subseteq aborted'
      /\ controller[j] # None => controller[j] \in aborted'
      /\ \A q \in aborted' : q \in aborted \/ (q = controller[j] /\ q # None)
  <2>1. CASE controller[j] = None
    BY <1>1, <1>6, <2>1
  <2>2. CASE controller[j] # None
    <3>1. aborted' = aborted \cup {controller[j]}
      BY <1>1, <1>6, <2>2
    <3> QED BY <2>2, <3>1
  <2> QED BY <2>1, <2>2
<1>8. \A d \in Cancel : cancel'[d].job = cancel[d].job
                        /\ cancel'[d].record = cancel[d].record
  BY <1>5
<1>9. \A q \in Run : RunOK(q)'
  BY <1>2, <1>3 DEF RunOK, Projected
<1>10. ASSUME NEW q \in Run
       PROVE  LoneOK(q)'
  <2> SUFFICES ASSUME Lone(q)'
               PROVE  LoneOK(q)'
    BY DEF LoneOK
  <2>1. Lone(q) /\ LoneOK(q)
    BY <1>2, <1>3 DEF Lone
  <2>2. q # None
    BY WorkerAssumption
  <2>3. ASSUME NEW d \in Cancel, cancel'[d].job = run[q].job,
               cancel'[d].record.phase \in AtWork
        PROVE  /\ run[q].pc \in Begun
               /\ cancel'[d].pc \in {"write", "done"} =>
                    q \in aborted' \/ run[q].pc \in {"last", "ended", "dead"}
    <3>1. run[q].pc \in Begun
      BY <1>8, <2>1, <2>3 DEF LoneOK
    <3>2. CASE d = c
      <4>1. run[q].pc \in Registered => q \in aborted'
        BY <1>5, <1>6, <1>7, <2>1, <2>2, <2>3, <3>2 DEF LoneOK
      <4> QED BY <3>1, <4>1 DEF Begun
    <3>3. CASE d # c
      BY <1>5, <1>7, <2>1, <2>3, <3>3 DEF LoneOK
    <3> QED BY <3>2, <3>3
  <2> QED BY <1>2, <2>1, <2>3 DEF LoneOK
<1>11. ASSUME NEW q \in Run
       PROVE  SettlesOK(q)'
  <2>1. SettlesOK(q) /\ Calls(run[q].job)' = Calls(run[q].job)
        /\ (Lone(q)' => Lone(q))
    BY <1>2, <1>3 DEF Lone, Calls
  <2> QED BY <1>2, <1>8, <2>1 DEF SettlesOK, Tells
<1>12. \A d \in Cancel : CancelOK(d)'
  <2>1. CancelOK(c)'
    BY <1>1, <1>2, <1>3, <1>5 DEF CancelOK, Projected
  <2>2. ASSUME NEW d \in Cancel, d # c
        PROVE  CancelOK(d)'
    BY <1>2, <1>3, <1>5, <2>2 DEF CancelOK, Projected
  <2> QED BY <2>1, <2>2
<1>13. \A k \in Job : JobOK(k)'
  BY <1>2, <1>3 DEF JobOK, Projected
<1>14. ControllerOK' /\ AbortedOK' /\ AuthorsOK'
  <2>1. ControllerOK'
    BY <1>2, <1>3 DEF ControllerOK
  <2>2. controller[j] # None => run[controller[j]].job = j
    BY <1>3 DEF ControllerOK
  <2>3. AbortedOK'
    BY <1>2, <1>3, <1>6, <1>7, <1>8, <2>2, WorkerAssumption DEF AbortedOK
  <2> QED BY <1>2, <1>3, <2>1, <2>3 DEF AuthorsOK, Moved
<1>15. FunctionsOK'
  BY <1>2, <1>3, <1>5 DEF FunctionsOK
<1>16. TypeOK'
  <2>1. Engine!ContractTypeOK'
    BY <1>2, <1>3 DEF TypeOK, Engine!ContractTypeOK, Engine!Execution, Engine!Settled
  <2>2. aborted' \subseteq Run
    BY <1>3, <1>7 DEF TypeOK
  <2> QED BY <1>2, <1>3, <1>5, <2>1, <2>2 DEF TypeOK, Refusable
<1> QED BY <1>9, <1>10, <1>11, <1>12, <1>13, <1>14, <1>15, <1>16 DEF IInv

(* A cancel writes the record it has read back.  It has one that the store *)
(* has held, and it has met every run of the job.                          *)
LEMMA CancelWritesKeeps ==
  ASSUME IInv, NEW c \in Cancel, CancelWrites(c)
  PROVE  IInv'
<1>1. /\ cancel[c].pc = "write"
      /\ job' = [job EXCEPT ![cancel[c].job] = cancel[c].record]
      /\ cancel' = [cancel EXCEPT ![c].pc = "done"]
      /\ UNCHANGED <<kind, engine, product, memory, run, bounds>>
  BY DEF CancelWrites
<1>2. UNCHANGED <<kind, ledger, head, sent, asked, answer, empty, memories,
                  revision, objects, changeSet, controller, aborted, run,
                  imports, crashes>>
  BY <1>1 DEF engine, product, memory, bounds
<1>3. /\ TypeOK /\ FunctionsOK /\ ControllerOK /\ AbortedOK /\ AuthorsOK
      /\ \A q \in Run : RunOK(q) /\ LoneOK(q) /\ SettlesOK(q)
      /\ \A d \in Cancel : CancelOK(d)
      /\ \A k \in Job : JobOK(k)
  BY DEF IInv
<1>4. cancel \in [Cancel -> CancelState] /\ job \in [Job -> Record \cup {None}]
  BY <1>3 DEF FunctionsOK
<1>5. PICK j \in Job : j = cancel[c].job
  BY <1>1, <1>3, <1>4 DEF CancelOK, CancelState
<1>6. /\ cancel[c].record \in Record /\ job[j] # None /\ cancel[c].record # None
      /\ cancel[c].record.phase = "completed" => Projected(j)
  BY <1>3, <1>5, WorkerAssumption DEF CancelOK
<1>7. /\ cancel' \in [Cancel -> CancelState]
      /\ cancel'[c].pc = "done" /\ cancel'[c].job = j
      /\ cancel'[c].record = cancel[c].record
      /\ \A d \in Cancel \ {c} : cancel'[d] = cancel[d]
  <2>1. [cancel[c] EXCEPT !.pc = "done"] \in CancelState
    BY <1>4 DEF CancelState
  <2> QED BY <1>1, <1>4, <1>5, <2>1 DEF CancelState
<1>8. /\ job' \in [Job -> Record \cup {None}] /\ job'[j] = cancel[c].record
      /\ \A k \in Job \ {j} : job'[k] = job[k]
  BY <1>1, <1>4, <1>5, <1>6
<1>9. \A k \in Job : job'[k] # None <=> job[k] # None
  BY <1>6, <1>8
<1>10. \A q \in Run : RunOK(q)'
  BY <1>2, <1>3 DEF RunOK, Projected
<1>11. ASSUME NEW q \in Run
       PROVE  LoneOK(q)'
  <2> SUFFICES ASSUME Lone(q)'
               PROVE  LoneOK(q)'
    BY DEF LoneOK
  <2>1. Lone(q) /\ LoneOK(q) /\ run[q].job \in Job
    BY <1>2, <1>3 DEF Lone, FunctionsOK, RunState
  <2>2. run[q].pc \in {"command", "queue"} => job'[run[q].job] = None
    BY <1>9, <2>1 DEF LoneOK
  <2>3. job'[run[q].job] # None /\ job'[run[q].job].phase \in AtWork =>
          run[q].pc \in Begun
    BY <1>5, <1>8, <2>1 DEF LoneOK
  <2>4. ASSUME NEW d \in Cancel, cancel'[d].job = run[q].job,
               cancel'[d].record.phase \in AtWork
        PROVE  /\ run[q].pc \in Begun
               /\ cancel'[d].pc \in {"write", "done"} =>
                    q \in aborted \/ run[q].pc \in {"last", "ended", "dead"}
    BY <1>1, <1>5, <1>7, <2>1, <2>4 DEF LoneOK
  <2> QED BY <1>2, <2>1, <2>2, <2>3, <2>4 DEF LoneOK
<1>12. ASSUME NEW q \in Run
       PROVE  SettlesOK(q)'
  <2> SUFFICES ASSUME Lone(q)', \A d \in Cancel : cancel'[d].job # run'[q].job
               PROVE  SettlesOK(q)'
    BY DEF SettlesOK, Tells
  <2>1. Lone(q) /\ SettlesOK(q) /\ Calls(run[q].job)' = Calls(run[q].job)
    BY <1>2, <1>3 DEF Lone, Calls
  <2>2. run[q].job \in Job \ {j}
    BY <1>2, <1>3, <1>7, <2>1 DEF Lone, FunctionsOK, RunState
  <2>3. \A d \in Cancel : cancel[d].job # run[q].job
    BY <1>2, <1>5, <1>7, <2>2
  <2> QED BY <1>2, <1>8, <2>1, <2>2, <2>3 DEF SettlesOK, Tells
<1>13. \A d \in Cancel : CancelOK(d)'
  <2>1. CancelOK(c)'
    BY <1>1, <1>2, <1>3, <1>5, <1>6, <1>7, <1>9, WorkerAssumption
       DEF CancelOK, Projected
  <2>2. ASSUME NEW d \in Cancel, d # c
        PROVE  CancelOK(d)'
    <3>1. cancel[d].job \in Job \cup {None}
      BY <1>4 DEF CancelState
    <3> QED BY <1>2, <1>3, <1>7, <1>9, <2>2, <3>1 DEF CancelOK, Projected
  <2> QED BY <2>1, <2>2
<1>14. \A k \in Job : JobOK(k)'
  <2>1. JobOK(j)'
    BY <1>2, <1>3, <1>6, <1>8 DEF JobOK, Projected
  <2>2. ASSUME NEW k \in Job, k # j
        PROVE  JobOK(k)'
    BY <1>2, <1>3, <1>8, <2>2 DEF JobOK, Projected
  <2> QED BY <2>1, <2>2
<1>15. ControllerOK' /\ AbortedOK' /\ AuthorsOK'
  <2>1. ControllerOK'
    BY <1>2, <1>3 DEF ControllerOK
  <2>2. \A d \in Cancel : cancel'[d].job = cancel[d].job
    BY <1>5, <1>7
  <2>3. AbortedOK'
    BY <1>2, <1>3, <2>2 DEF AbortedOK
  <2> QED BY <1>2, <1>3, <2>1, <2>3 DEF AuthorsOK, Moved
<1>16. FunctionsOK'
  BY <1>2, <1>3, <1>7, <1>8 DEF FunctionsOK
<1>17. TypeOK'
  <2>1. Engine!ContractTypeOK'
    BY <1>2, <1>3 DEF TypeOK, Engine!ContractTypeOK, Engine!Execution, Engine!Settled
  <2> QED BY <1>2, <1>3, <1>7, <1>8, <2>1 DEF TypeOK, Refusable
<1> QED BY <1>10, <1>11, <1>12, <1>13, <1>14, <1>15, <1>16, <1>17 DEF IInv

(* An import of text moves the workspace on, and counts. *)
LEMMA ImportTextKeeps ==
  ASSUME IInv, ImportText
  PROVE  IInv'
<1>1. /\ imports' = imports + 1 /\ revision' = revision + 1 /\ imports < MaxImports
      /\ UNCHANGED <<kind, ledger, head, sent, asked, answer, empty, memories,
                     job, objects, changeSet, controller, aborted, run, cancel,
                     crashes>>
  BY DEF ImportText, engine, memory
<1>2. /\ TypeOK /\ FunctionsOK /\ ControllerOK /\ AbortedOK /\ AuthorsOK
      /\ \A q \in Run : RunOK(q) /\ LoneOK(q) /\ SettlesOK(q)
      /\ \A d \in Cancel : CancelOK(d)
      /\ \A k \in Job : JobOK(k)
  BY DEF IInv
<1>3. /\ revision \in Nat /\ imports \in 0 .. MaxImports /\ MaxImports \in Nat
      /\ changeSet \in [Job -> ChangeSet \cup {None}]
  BY <1>2, WorkerAssumption DEF TypeOK, Revision
<1>4. \A q \in Run : RunOK(q)' /\ LoneOK(q)' /\ SettlesOK(q)'
  <2>1. \A q \in Run : RunOK(q)'
    BY <1>1, <1>2 DEF RunOK, Projected
  <2>2. \A q \in Run : LoneOK(q)'
    BY <1>1, <1>2 DEF LoneOK, Lone
  <2>3. \A q \in Run : SettlesOK(q)'
    BY <1>1, <1>2 DEF SettlesOK, Tells, Lone, Calls
  <2> QED BY <2>1, <2>2, <2>3
<1>5. /\ \A d \in Cancel : CancelOK(d)'
      /\ \A k \in Job : JobOK(k)'
  BY <1>1, <1>2 DEF CancelOK, JobOK, Projected
<1>6. ControllerOK' /\ AbortedOK' /\ FunctionsOK'
  BY <1>1, <1>2 DEF ControllerOK, AbortedOK, FunctionsOK
<1>7. AuthorsOK'
  <2>1. Moved' = Moved /\ changeSet' = changeSet
    BY <1>1 DEF Moved
  <2>2. \A k \in Moved : changeSet[k].to \in Nat
    BY <1>3 DEF Moved, ChangeSet, Revision
  <2>3. \A k \in Moved : changeSet[k].to <= revision + 1 /\ k \in objects
    BY <1>2, <1>3, <2>2 DEF AuthorsOK
  <2>4. Cardinality(Moved) \in Nat
    BY WorkerAssumption, FS_Subset, FS_CardinalityType DEF Moved
  <2>5. (\A k \in Job : kind[k] # "import") =>
          revision + 1 = 1 + (imports + 1) + Cardinality(Moved)
    BY <1>2, <1>3, <2>4 DEF AuthorsOK
  <2> QED BY <1>1, <1>2, <1>3, <2>1, <2>3, <2>5 DEF AuthorsOK
<1>8. TypeOK'
  <2>1. Engine!ContractTypeOK'
    BY <1>1, <1>2 DEF TypeOK, Engine!ContractTypeOK, Engine!Execution, Engine!Settled
  <2> QED BY <1>1, <1>2, <1>3, <2>1 DEF TypeOK, Revision, Refusable
<1> QED BY <1>4, <1>5, <1>6, <1>7, <1>8 DEF IInv

(* A crash takes the controllers and ends the runs and cancels under way.  *)
LEMMA CrashKeeps ==
  ASSUME IInv, Crash
  PROVE  IInv'
<1>1. /\ crashes < MaxCrashes /\ crashes' = crashes + 1
      /\ controller' = [j \in Job |-> None]
      /\ run' = [r \in Run |-> IF run[r].pc \in Ended \cup {"idle"} THEN run[r]
                               ELSE [run[r] EXCEPT !.pc = "dead"]]
      /\ cancel' = [c \in Cancel |-> IF cancel[c].pc \in {"idle", "done"}
                                     THEN cancel[c]
                                     ELSE [cancel[c] EXCEPT !.pc = "dead"]]
      /\ UNCHANGED <<kind, ledger, head, sent, asked, answer, empty, memories,
                     job, revision, objects, changeSet, aborted, imports>>
  BY DEF Crash, engine, product
<1>2. /\ TypeOK /\ FunctionsOK /\ ControllerOK /\ AbortedOK /\ AuthorsOK
      /\ \A q \in Run : RunOK(q) /\ LoneOK(q) /\ SettlesOK(q)
      /\ \A d \in Cancel : CancelOK(d)
      /\ \A k \in Job : JobOK(k)
  BY DEF IInv
<1>3. run \in [Run -> RunState] /\ cancel \in [Cancel -> CancelState]
  BY <1>2 DEF FunctionsOK
<1>4. ASSUME NEW q \in Run
      PROVE  /\ run'[q] \in RunState
             /\ run'[q].job = run[q].job /\ run'[q].record = run[q].record
             /\ run'[q].calls = run[q].calls
             /\ \/ run[q].pc \in Ended \cup {"idle"} /\ run'[q] = run[q]
                \/ /\ run[q].pc \notin Ended \cup {"idle"}
                   /\ run'[q].pc = "dead"
  <2>1. CASE run[q].pc \in Ended \cup {"idle"}
    BY <1>1, <1>3, <2>1
  <2>2. CASE run[q].pc \notin Ended \cup {"idle"}
    <3>1. run'[q] = [run[q] EXCEPT !.pc = "dead"]
      BY <1>1, <2>2
    <3>2. [run[q] EXCEPT !.pc = "dead"] \in RunState
      BY <1>3, States DEF RunStates, Ended
    <3> QED BY <1>3, <2>2, <3>1, <3>2, States
  <2> QED BY <2>1, <2>2
<1>5. ASSUME NEW c \in Cancel
      PROVE  /\ cancel'[c] \in CancelState
             /\ cancel'[c].job = cancel[c].job
             /\ cancel'[c].record = cancel[c].record
             /\ \/ cancel'[c].pc = cancel[c].pc
                \/ cancel[c].pc # "idle" /\ cancel'[c].pc = "dead"
  <2>1. CASE cancel[c].pc \in {"idle", "done"}
    BY <1>1, <1>3, <2>1
  <2>2. CASE cancel[c].pc \notin {"idle", "done"}
    <3>1. cancel'[c] = [cancel[c] EXCEPT !.pc = "dead"]
      BY <1>1, <2>2
    <3>2. [cancel[c] EXCEPT !.pc = "dead"] \in CancelState
      BY <1>3 DEF CancelState
    <3> QED BY <1>3, <2>2, <3>1, <3>2 DEF CancelState
  <2> QED BY <2>1, <2>2
<1>6. "dead" \in Ended /\ "dead" # "idle" /\ "dead" \notin Projection
  BY DEF Ended, Projection
<1>7. ASSUME NEW q \in Run
      PROVE  RunOK(q)'
  <2>1. PICK j \in Job \cup {None} : j = run[q].job
    BY <1>3 DEF RunState
  <2>2. Projected(j)' <=> Projected(j)
    BY <1>1 DEF Projected
  <2>3. RunOK(q) /\ run'[q].job = j /\ run'[q].record = run[q].record
    BY <1>2, <1>4, <2>1
  <2>4. CASE run'[q] = run[q]
    <3>1. UNCHANGED <<kind, ledger, asked, answer, empty, objects>>
      BY <1>1
    <3> QED BY <2>1, <2>2, <2>3, <2>4, <3>1 DEF RunOK
  <2>5. CASE run[q].pc \notin Ended \cup {"idle"} /\ run'[q].pc = "dead"
    <3>1. run'[q].pc \notin Before
      BY <2>5, StateSets
    <3> QED BY <1>1, <1>6, <2>1, <2>2, <2>3, <2>5, <3>1 DEF RunOK
  <2> QED BY <1>4, <2>4, <2>5
<1>8. ASSUME NEW q \in Run, Lone(q)'
      PROVE  LoneOK(q)' /\ SettlesOK(q)'
  <2>1. Lone(q) /\ LoneOK(q) /\ SettlesOK(q)
        /\ Calls(run[q].job)' = Calls(run[q].job)
    BY <1>1, <1>2, <1>4, <1>8 DEF Lone, Calls
  <2>2. run'[q].pc \notin Registered
    BY <1>4 DEF Registered, Projection, Ended
  <2>3. ASSUME NEW d \in Cancel, cancel'[d].job = run[q].job,
               cancel'[d].record.phase \in AtWork
        PROVE  /\ run'[q].pc \in Begun
               /\ cancel'[d].pc \in {"write", "done"} =>
                    q \in aborted \/ run'[q].pc \in {"last", "ended", "dead"}
    <3>1. /\ run[q].pc \in Begun
          /\ cancel[d].pc \in {"write", "done"} =>
               q \in aborted \/ run[q].pc \in {"last", "ended", "dead"}
      BY <1>5, <2>1, <2>3 DEF LoneOK
    <3> QED BY <1>4, <1>5, <3>1, StateSets
  <2>4. LoneOK(q)'
    <3>1. run'[q].pc \notin {"returned", "refused", "command", "queue"}
      BY <1>4, <2>1 DEF LoneOK, Ended
    <3>2. job[run[q].job] # None /\ job[run[q].job].phase \in AtWork =>
            run'[q].pc \in Begun
      BY <1>4, <2>1, StateSets DEF LoneOK
    <3> QED BY <1>1, <1>4, <2>2, <2>3, <3>1, <3>2 DEF LoneOK
  <2>5. SettlesOK(q)'
    <3>1. CASE run'[q] = run[q]
      <4>1. Tells(run[q].job, run[q].record.phase, run[q].record.calls)' <=>
            Tells(run[q].job, run[q].record.phase, run[q].record.calls)
        BY <1>1, <2>1, <3>1 DEF Tells
      <4> QED BY <1>1, <1>5, <2>1, <3>1, <4>1 DEF SettlesOK
    <3>2. CASE run'[q].pc = "dead"
      BY <1>6, <3>2, StateSets DEF SettlesOK, Tells
    <3> QED BY <1>4, <3>1, <3>2
  <2> QED BY <2>4, <2>5
<1>9. \A q \in Run : LoneOK(q)' /\ SettlesOK(q)'
  BY <1>8 DEF LoneOK, SettlesOK, Tells
<1>10. \A d \in Cancel : CancelOK(d)'
  BY <1>1, <1>2, <1>5 DEF CancelOK, Projected
<1>11. \A k \in Job : JobOK(k)'
  BY <1>1, <1>2, <1>4 DEF JobOK, Projected
<1>12. ControllerOK' /\ AbortedOK' /\ AuthorsOK'
  <2>1. ControllerOK'
    BY <1>1 DEF ControllerOK
  <2>2. AbortedOK'
    BY <1>1, <1>2, <1>4, <1>5 DEF AbortedOK, TypeOK
  <2> QED BY <1>1, <1>2, <2>1, <2>2 DEF AuthorsOK, Moved
<1>13. FunctionsOK'
  <2>1. run' \in [Run -> RunState]
    BY <1>1, <1>4
  <2>2. cancel' \in [Cancel -> CancelState]
    BY <1>1, <1>5
  <2> QED BY <1>1, <1>2, <2>1, <2>2 DEF FunctionsOK
<1>14. TypeOK'
  <2>1. Engine!ContractTypeOK'
    BY <1>1, <1>2 DEF TypeOK, Engine!ContractTypeOK, Engine!Execution, Engine!Settled
  <2>2. controller' \in [Job -> Run \cup {None}] /\ crashes' \in 0 .. MaxCrashes
    BY <1>1, <1>2, WorkerAssumption DEF TypeOK
  <2> QED BY <1>1, <1>2, <1>4, <1>5, <2>1, <2>2 DEF TypeOK, Refusable
<1> QED BY <1>7, <1>9, <1>10, <1>11, <1>12, <1>13, <1>14 DEF IInv

-----------------------------------------------------------------------------
(* The invariant, and what follows from it.                                *)

(* Nothing has been asked, sent or stored. *)
LEMMA InitHolds == Init => IInv
<1> SUFFICES ASSUME Init
             PROVE  IInv
  OBVIOUS
<1>1. /\ kind \in Kinds /\ kind \in [Job -> Kind]
      /\ None \notin Run \cup Job \cup Nat
      /\ None \notin {"committed", "failed", "other-request"}
      /\ MaxImports \in Nat /\ MaxCrashes \in Nat
  BY WorkerAssumption DEF Init
<1>2. /\ ledger = [k \in Job |-> Engine!Absent]
      /\ head = [e \in {"workspace"} |-> 0]
      /\ sent = [k \in Job |-> [c \in 0 .. MaxRepair |-> 0]]
      /\ asked = [r \in Run |-> None] /\ answer = [r \in Run |-> None]
      /\ empty = {} /\ memories = 0
  BY DEF Init, Engine!ContractInit
<1>3. /\ job = [j \in Job |-> None] /\ revision = 1 /\ objects = {}
      /\ changeSet = [j \in Job |-> None] /\ controller = [j \in Job |-> None]
      /\ aborted = {} /\ run = [r \in Run |-> NoRun]
      /\ cancel = [c \in Cancel |-> NoCancel] /\ imports = 0 /\ crashes = 0
  BY DEF Init
<1>4. NoRun \in RunState /\ NoRun.pc = "idle" /\ NoRun.job = None /\ NoRun.calls = 0
  BY DEF NoRun, RunState, Revision
<1>5. NoCancel \in CancelState /\ NoCancel.pc = "idle" /\ NoCancel.job = None
  BY DEF NoCancel, CancelState
<1>6. FunctionsOK
  BY <1>1, <1>3, <1>4, <1>5 DEF FunctionsOK
<1>7. Engine!ContractTypeOK
  BY <1>2 DEF Engine!ContractTypeOK, Engine!Absent, Engine!Execution, Engine!Settled
<1>8. TypeOK
  BY <1>1, <1>2, <1>3, <1>4, <1>5, <1>7 DEF TypeOK, Revision
<1>9. \A r \in Run : RunOK(r)
  BY <1>1, <1>2, <1>3, <1>4 DEF RunOK, Projection
<1>10. \A r \in Run : LoneOK(r) /\ SettlesOK(r)
  BY <1>3, <1>4 DEF LoneOK, SettlesOK, Tells, Lone
<1>11. \A c \in Cancel : CancelOK(c)
  BY <1>3, <1>5 DEF CancelOK
<1>12. \A j \in Job : JobOK(j)
  BY <1>2, <1>3 DEF JobOK
<1>13. ControllerOK /\ AbortedOK
  BY <1>3 DEF ControllerOK, AbortedOK
<1>14. AuthorsOK
  <2>1. Moved = {}
    BY <1>3 DEF Moved
  <2> QED BY <1>3, <2>1, FS_EmptySet DEF AuthorsOK
<1> QED BY <1>6, <1>8, <1>9, <1>10, <1>11, <1>12, <1>13, <1>14 DEF IInv

(* A step that changes nothing keeps everything. *)
LEMMA StutterKeeps ==
  ASSUME IInv, UNCHANGED vars
  PROVE  IInv'
<1>1. UNCHANGED <<kind, ledger, head, sent, asked, answer, empty, memories,
                  job, revision, objects, changeSet, controller, aborted, run,
                  cancel, imports, crashes>>
  BY DEF vars
<1>2. /\ TypeOK /\ FunctionsOK /\ ControllerOK /\ AbortedOK /\ AuthorsOK
      /\ \A q \in Run : RunOK(q) /\ LoneOK(q) /\ SettlesOK(q)
      /\ \A d \in Cancel : CancelOK(d)
      /\ \A k \in Job : JobOK(k)
  BY DEF IInv
<1>3. \A q \in Run : RunOK(q)' /\ LoneOK(q)' /\ SettlesOK(q)'
  <2>1. \A q \in Run : RunOK(q)'
    BY <1>1, <1>2 DEF RunOK, Projected
  <2>2. \A q \in Run : LoneOK(q)'
    BY <1>1, <1>2 DEF LoneOK, Lone
  <2>3. \A q \in Run : SettlesOK(q)'
    BY <1>1, <1>2 DEF SettlesOK, Tells, Lone, Calls
  <2> QED BY <2>1, <2>2, <2>3
<1>4. /\ \A d \in Cancel : CancelOK(d)'
      /\ \A k \in Job : JobOK(k)'
  BY <1>1, <1>2 DEF CancelOK, JobOK, Projected
<1>5. ControllerOK' /\ AbortedOK' /\ FunctionsOK' /\ AuthorsOK'
  BY <1>1, <1>2 DEF ControllerOK, AbortedOK, FunctionsOK, AuthorsOK, Moved
<1>6. TypeOK'
  <2>1. Engine!ContractTypeOK'
    BY <1>1, <1>2 DEF TypeOK, Engine!ContractTypeOK, Engine!Execution, Engine!Settled
  <2> QED BY <1>1, <1>2, <2>1 DEF TypeOK, Refusable
<1> QED BY <1>3, <1>4, <1>5, <1>6 DEF IInv

(* Every step of every run and request keeps the invariant. *)
LEMMA InvariantHolds == Spec => []IInv
<1>1. ASSUME IInv, [Next]_vars
      PROVE  IInv'
  <2>1. ASSUME NEW r \in Run, Step(r)
        PROVE  IInv'
    BY <1>1, <2>1, StartFindsKeeps, QueueKeeps, RegisterKeeps, BeginKeeps,
       ProgressKeeps, ReadsKeep, ExecuteKeeps, SendKeeps, SettleKeeps, EndsKeep,
       GoOnKeeps, WritesKeep, SnapshotKeeps, PutObjectsKeeps,
       CommitRelationsKeeps, AdvanceKeeps, PutChangeSetKeeps
       DEF Step
  <2>2. ASSUME NEW r \in Run, NEW j \in Job, StartReads(r, j)
        PROVE  IInv'
    BY <1>1, <2>2, StartKeeps
  <2>3. ASSUME NEW c \in Cancel,
               (\E j \in Job : CancelReads(c, j)) \/ CancelAborts(c) \/ CancelWrites(c)
        PROVE  IInv'
    BY <1>1, <2>3, CancelReadsKeeps, CancelAbortsKeeps, CancelWritesKeeps
  <2> QED
    BY <1>1, <2>1, <2>2, <2>3, ImportTextKeeps, CrashKeeps, StutterKeeps DEF Next
<1> QED BY <1>1, InitHolds, PTL DEF Spec

(* What the product holds was committed, and a job that the store reports  *)
(* completed has its objects and its change set in the product: whatever   *)
(* whole records runs, cancels and restarts wrote over one another.        *)
THEOREM CompletedJobsAreProjected == Spec => []CompletedIsProjected
<1>1. IInv => CompletedIsProjected
  BY DEF IInv, JobOK, Projected, CompletedIsProjected
<1> QED BY <1>1, InvariantHolds, PTL

(* The relation projections of a workspace follow one another: no two      *)
(* moved it to the same revision, and each of its revisions is accounted   *)
(* for.                                                                    *)
THEOREM RevisionsHaveOneAuthor == Spec => []EveryRevisionHasOneAuthor
<1>1. IInv => EveryRevisionHasOneAuthor
  <2> SUFFICES ASSUME IInv
               PROVE  EveryRevisionHasOneAuthor
    OBVIOUS
  <2> DEFINE to == {changeSet[j].to : j \in Moved}
             f == [j \in Moved |-> changeSet[j].to]
  <2>1. AuthorsOK
    BY DEF IInv
  <2>2. IsFiniteSet(Moved)
    BY WorkerAssumption, FS_Subset DEF Moved
  <2>3. ExistsBijection(Moved, to)
    <3>1. f \in [Moved -> to]
      OBVIOUS
    <3>2. \A i, j \in Moved : f[i] = f[j] => i = j
      BY <2>1 DEF AuthorsOK
    <3>3. \A n \in to : \E j \in Moved : f[j] = n
      OBVIOUS
    <3> HIDE DEF f, to
    <3> QED BY <3>1, <3>2, <3>3
            DEF ExistsBijection, Bijection, Injection, Surjection, IsInjective
  <2>4. Cardinality(to) = Cardinality(Moved)
    <3> HIDE DEF f, to
    <3> QED BY <2>2, <2>3, FS_Bijection
  <2>5. \A n \in to : n <= revision
    BY <2>1 DEF AuthorsOK
  <2>6. Moved \subseteq objects
    BY <2>1 DEF AuthorsOK
  <2> QED BY <2>1, <2>4, <2>5, <2>6 DEF EveryRevisionHasOneAuthor, AuthorsOK, Moved
<1> QED BY <1>1, InvariantHolds, PTL

(* A job that one run served and no cancel met is over as its run says,    *)
(* and what it says agrees with the ledger and with what was sent.         *)
THEOREM LoneJobsSettle == Spec => []UndisturbedJobSettles
<1>1. IInv => UndisturbedJobSettles
  <2> SUFFICES ASSUME IInv, NEW r \in Run, run[r].pc = "ended",
                      \A q \in Run \ {r} : run[q].job # run[r].job,
                      \A c \in Cancel : cancel[c].job # run[r].job
               PROVE  Tells(run[r].job, job[run[r].job].phase, job[run[r].job].calls)
    BY DEF UndisturbedJobSettles, Tells, Calls
  <2>1. SettlesOK(r) /\ run[r].job \in Job
    BY HasJob
  <2>2. Lone(r)
    BY <2>1, WorkerAssumption DEF Lone
  <2> QED BY <2>1, <2>2 DEF SettlesOK, Tells
<1> QED BY <1>1, InvariantHolds, PTL

(* The types, with a controller only for a run of the job that is at work; *)
(* and a cancel request aborts the one run of the job it read at work,     *)
(* unless that run knows how it ends.                                      *)
THEOREM LoneRunsHearCancels == Spec => []ControllersOK
<1>1. IInv => LoneRunHearsCancel
  <2> SUFFICES ASSUME IInv, NEW c \in Cancel, NEW r \in Run,
                      cancel[c].job = run[r].job,
                      cancel[c].pc \in {"write", "done"},
                      cancel[c].record.phase \in {"working", "projecting"},
                      \A q \in Run \ {r} : run[q].job # run[r].job
               PROVE  r \in aborted \/ run[r].pc \in {"last", "ended", "dead"}
    BY DEF LoneRunHearsCancel
  <2>1. CancelOK(c) /\ LoneOK(r)
    BY DEF IInv
  <2>2. Lone(r)
    BY <2>1 DEF Lone, CancelOK
  <2> QED BY <2>1, <2>2 DEF LoneOK, AtWork
<1>2. IInv => TypeOK
  BY DEF IInv
<1> QED BY <1>1, <1>2, InvariantHolds, PTL DEF ControllersOK
=============================================================================
