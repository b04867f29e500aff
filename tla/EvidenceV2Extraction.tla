----------------------- MODULE EvidenceV2Extraction -----------------------
(***************************************************************************)
(* Instance extraction of the Evidence Workbench V2                        *)
(* (apps/evidence-workbench-v2-api, extract.ts, behind the POST route of   *)
(* app.ts): one engine execution for each window of a chain instance, each *)
(* window projected into the product store once it is committed.  Two      *)
(* stores are written one after the other, by requests that may overlap    *)
(* and by a process that may die between any two steps.                    *)
(*                                                                         *)
(* The engine is the promise of IdempotentExecution, one call of execute() *)
(* for each run and window.                                                *)
(***************************************************************************)
EXTENDS Naturals, Sequences, FiniteSets, SequencesExt

CONSTANTS
  Run,          \* POST requests that start an extraction
  Source,       \* bound: the source parts to consider, each the sequence of
                \* the word counts of its citable units
  MaxUnits,     \* EVIDENCE_V2_WINDOW_MAX_UNITS
  TargetWords,  \* EVIDENCE_V2_WINDOW_TARGET_WORDS
  Ceiling,      \* emergencyCallCeiling
  MaxRepair,
  MaxCrashes,   \* bound: how many runs die
  None

(* A window is named by its ordinal; no part needs more than it has units. *)
Window == UNION {1 .. Len(part) : part \in Source}

(* The entity is the chain instance. *)
Request == [entity : {"instance"}, expectedRevision : Nat]

ASSUME ExtractionAssumption ==
  /\ Source \subseteq Seq(Nat \ {0}) /\ IsFiniteSet(Source)
  /\ MaxUnits \in Nat \ {0} /\ TargetWords \in Nat
  /\ Ceiling \in Nat /\ MaxCrashes \in Nat /\ MaxRepair \in Nat
  /\ None \notin Request \cup Nat \cup {"committed", "failed", "other-request"}

VARIABLES
  source,       \* the part of the instance: immutable
  ledger, head, sent, asked, answer,  \* the engine: see IdempotentExecution
  row,          \* the extraction_windows row of each window
  occurrences,  \* the windows whose occurrences the product holds
  run,          \* the state of each request
  crashes,
  overlapped    \* history: a run began while another one was under way

Call(r, w) == <<r, w>>

Engine == INSTANCE IdempotentExecution WITH
  Key <- Window, Entity <- {"instance"}, Caller <- Run \X Window

engine == <<ledger, head, sent, asked, answer>>

product == <<row, occurrences>>

vars == <<source, ledger, head, sent, asked, answer, row, occurrences, run,
          crashes, overlapped>>

Ended == {"done", "refused", "rejected", "crashed"}

RunState ==
  [pc : Ended \cup {"idle", "next", "snapshot", "execute", "executing",
                    "project", "record"},
   outstanding : SUBSET Window,
   window : Window \cup {None},
   revision : Nat,
   failed : Window \cup {None},
   replayed : BOOLEAN,   \* history: told of an execution it took no part in
   seen : SUBSET Window]  \* history: committed in the ledger when it began

NoRun == [pc |-> "idle", outstanding |-> {}, window |-> None, revision |-> 0,
          failed |-> None, replayed |-> FALSE, seen |-> {}]

TypeOK ==
  /\ source \in Source
  /\ Engine!ContractTypeOK
  /\ row \in [Window -> {"absent", "committed", "failed"}]
  /\ occurrences \subseteq Window
  /\ run \in [Run -> RunState]
  /\ \A r \in Run :
       run[r].pc \in {"snapshot", "execute", "executing", "project", "record"}
         => run[r].window \in run[r].outstanding
  /\ crashes \in 0 .. MaxCrashes
  /\ overlapped \in BOOLEAN

Init ==
  /\ source \in Source
  /\ Engine!ContractInit
  /\ row = [w \in Window |-> "absent"]
  /\ occurrences = {}
  /\ run = [r \in Run |-> NoRun]
  /\ crashes = 0
  /\ overlapped = FALSE

Underway(r) == run[r].pc \notin Ended \cup {"idle"}

-----------------------------------------------------------------------------
(* planEvidenceV2ObserveWindows(): the units in order, a new window when   *)
(* the next unit would pass the size or the word target.                   *)

Words(batch) == FoldLeft(LAMBDA a, b : a + b, 0, batch)

(* Mutant of Full: the bounds are looked at after the unit is taken. *)
FullLate(batch, unit) == Len(batch) > MaxUnits \/ Words(batch) > TargetWords

Full(batch, unit) ==
  \/ Len(batch) >= MaxUnits
  \/ Len(batch) > 0 /\ Words(batch) + unit > TargetWords

Take(windows, unit) ==
  IF windows = << >> \/ Full(Last(windows), unit)
  THEN Append(windows, <<unit>>)
  ELSE [windows EXCEPT ![Len(windows)] = Append(@, unit)]

Windows(part) ==
  LET taken[i \in 0 .. Len(part)] ==
        IF i = 0 THEN << >> ELSE Take(taken[i - 1], part[i])
  IN taken[Len(part)]

Plan == 1 .. Len(Windows(source))

-----------------------------------------------------------------------------
(* planFor() *)

(* Mutant of Outstanding: a window that failed counts as settled. *)
OutstandingUntried == {w \in Plan : row[w] = "absent"}

Outstanding == {w \in Plan : row[w] # "committed"}

Goto(r, next) == run' = [run EXCEPT ![r].pc = next]

Start(r) ==
  /\ run[r].pc = "idle"
  /\ run' = [run EXCEPT ![r] =
               [NoRun EXCEPT
                  !.pc = IF Cardinality(Outstanding) > Ceiling THEN "refused"
                         ELSE "next",
                  !.outstanding = Outstanding,
                  !.seen = {w \in Window : ledger[w].status = "committed"}]]
  /\ overlapped' = (overlapped \/ \E q \in Run : Underway(q))
  /\ UNCHANGED <<source, engine, product, crashes>>

(* The loop of run(): the next window of the plan that is outstanding. *)
Choose(r) ==
  /\ run[r].pc = "next"
  /\ run[r].outstanding # {}
  /\ run' = [run EXCEPT ![r].pc = "snapshot",
                        ![r].window = Min(run[r].outstanding)]
  /\ UNCHANGED <<source, engine, product, crashes, overlapped>>

Finish(r) ==
  /\ run[r].pc = "next"
  /\ run[r].outstanding = {}
  /\ Goto(r, "done")
  /\ UNCHANGED <<source, engine, product, crashes, overlapped>>

(* ledger.snapshot(): the revision the execution is to expect. *)
Snapshot(r) ==
  /\ run[r].pc = "snapshot"
  /\ run' = [run EXCEPT ![r].pc = "execute", ![r].revision = head["instance"]]
  /\ UNCHANGED <<source, engine, product, crashes, overlapped>>

Execute(r) ==
  LET w == run[r].window
      request == [entity |-> "instance", expectedRevision |-> run[r].revision]
  IN
  /\ run[r].pc = "execute"
  /\ \/ Engine!Open(Call(r, w), w, request)
     \/ Engine!Rejoin(Call(r, w), w, request)
  /\ run' = [run EXCEPT ![r].pc = "executing",
                        ![r].replayed = ledger[w].status \in Engine!Settled]
  /\ UNCHANGED <<source, product, crashes, overlapped>>

(* The engine at work for this run.  A commit adds exactly one revision.   *)
EngineStep(r) ==
  LET call == Call(r, run[r].window) IN
  /\ run[r].pc = "executing"
  /\ \/ \E c \in 0 .. MaxRepair : Engine!Send(call, c)
     \/ Engine!Commit(call) /\ head' # head
     \/ Engine!Fail(call)
     \/ Engine!Learn(call)
  /\ UNCHANGED <<source, run, product, crashes, overlapped>>

Answered(r, answers) ==
  /\ run[r].pc = "executing"
  /\ answer[Call(r, run[r].window)] \in answers

(* Mutant of RecordFailure: the run stops and records nothing. *)
RecordFailureSilently(r) ==
  /\ Answered(r, {"failed", "other-request"})
  /\ run' = [run EXCEPT ![r].pc = "done", ![r].failed = run[r].window]
  /\ UNCHANGED <<source, engine, product, crashes, overlapped>>

(* Mutant of RecordFailure: the window is tried again, with the same key. *)
RecordFailureRetries(r) ==
  LET w == run[r].window IN
  /\ Answered(r, {"failed", "other-request"})
  /\ row' = [row EXCEPT ![w] = "failed"]
  /\ Goto(r, "snapshot")
  /\ UNCHANGED <<source, engine, occurrences, crashes, overlapped>>

(* The window is recorded as failed, whatever its row said, and the run    *)
(* stops there.                                                            *)
RecordFailure(r) ==
  LET w == run[r].window IN
  /\ Answered(r, {"failed", "other-request"})
  /\ row' = [row EXCEPT ![w] = "failed"]
  /\ run' = [run EXCEPT ![r].pc = "done", ![r].failed = w]
  /\ UNCHANGED <<source, engine, occurrences, crashes, overlapped>>

(* execute() may reject: its markTerminal() was refused. *)
ExecuteRejects(r) ==
  /\ Answered(r, {None})
  /\ ledger[run[r].window].status \in Engine!Settled
  /\ Goto(r, "rejected")
  /\ UNCHANGED <<source, engine, product, crashes, overlapped>>

(* Mutant of Project: the window is recorded before it is projected. *)
ProjectLater(r) ==
  /\ Answered(r, {"committed"})
  /\ Goto(r, "record")
  /\ UNCHANGED <<source, engine, product, crashes, overlapped>>

(* putOccurrences() of what the ledger holds for the window, and then      *)
(* putExtractionWindow(): two transactions.                                *)
Project(r) ==
  /\ Answered(r, {"committed"})
  /\ occurrences' = occurrences \cup {run[r].window}
  /\ Goto(r, "record")
  /\ UNCHANGED <<source, engine, row, crashes, overlapped>>

RecordCommit(r) ==
  LET w == run[r].window IN
  /\ run[r].pc = "record"
  /\ row' = [row EXCEPT ![w] = "committed"]
  /\ run' = [run EXCEPT ![r].pc = "next", ![r].outstanding = @ \ {w}]
  /\ UNCHANGED <<source, engine, occurrences, crashes, overlapped>>

Crash(r) ==
  /\ Underway(r)
  /\ crashes < MaxCrashes
  /\ crashes' = crashes + 1
  /\ Goto(r, "crashed")
  /\ UNCHANGED <<source, engine, product, overlapped>>

-----------------------------------------------------------------------------

Step(r) ==
  \/ Choose(r) \/ Finish(r) \/ Snapshot(r) \/ Execute(r) \/ EngineStep(r)
  \/ RecordFailure(r) \/ ExecuteRejects(r) \/ Project(r) \/ RecordCommit(r)

Next == \E r \in Run : Start(r) \/ Step(r) \/ Crash(r)

Spec == Init /\ [][Next]_vars

(* A request that was accepted is worked on to its end. *)
FairSpec == Spec /\ \A r \in Run : WF_vars(Step(r))

-----------------------------------------------------------------------------
(***************************************************************************)
(* Properties.                                                             *)
(***************************************************************************)

(* planEvidenceV2ObserveWindows() is total over the units ("every unit     *)
(* appears in exactly one window"), keeps their order, and a window of     *)
(* more than one unit keeps both bounds; a window is closed only when the  *)
(* next unit would not fit.                                                *)
WindowsPartition ==
  LET windows == Windows(source) IN
  /\ FlattenSeq(windows) = source
  /\ \A i \in 1 .. Len(windows) :
       /\ Len(windows[i]) \in 1 .. MaxUnits
       /\ Len(windows[i]) > 1 => Words(windows[i]) <= TargetWords
       /\ i > 1 => \/ Len(windows[i - 1]) = MaxUnits
                   \/ Words(windows[i - 1]) + windows[i][1] > TargetWords

(* What the product shows was committed by the engine, and a window it     *)
(* calls committed shows its occurrences, at every moment between the      *)
(* three writes (R-05, R-07 of the V2 domain specification).               *)
ShownWasCommitted ==
  \A w \in Window :
    /\ w \in occurrences => ledger[w].status = "committed"
    /\ row[w] = "committed" => w \in occurrences

(* A run that reports complete has left every window of the plan in front  *)
(* of the reviewer, whoever extracted it.                                  *)
CompleteMeansShown ==
  \A r \in Run :
    run[r].pc = "done" /\ run[r].failed = None => occurrences = Plan

(* Runs that follow one another and do not die leave rows that agree with  *)
(* the ledger: a window is called failed if and only if its execution      *)
(* failed, and a committed one is shown, once no run is under way.         *)
UndisturbedRowsAgree ==
  /\ ~overlapped /\ crashes = 0
  /\ \A r \in Run : ~Underway(r) /\ run[r].pc # "rejected"
  =>
    \A w \in Window :
      /\ row[w] = "failed" <=> ledger[w].status = "failed"
      /\ row[w] = "committed" <=> ledger[w].status = "committed"

(* The three tables of the product and the ledger agree: what is shown is  *)
(* committed, and undisturbed runs leave nothing behind the ledger.        *)
TablesAgree == TypeOK /\ ShownWasCommitted /\ UndisturbedRowsAgree

(* Whatever other runs do, a run comes to an end. *)
EveryRunEnds == \A r \in Run : Underway(r) ~> run[r].pc \in Ended

(* "Re-running an instance's extraction executes only windows with no      *)
(* committed execution" (ADR-0048, section 7): a window whose execution    *)
(* had committed before a run began is not what that run fails on, not     *)
(* even after a crash.  (Runs that follow one another.)                    *)
NoCommittedWindowFails ==
  ~overlapped => \A r \in Run : run[r].failed \notin run[r].seen

(* And it does execute those: a run that stops at a window has taken part  *)
(* in an execution of it, rather than been told of an earlier failure.     *)
(* (Runs that follow one another, none of which dies.)                     *)
FailureIsOfThisRun ==
  ~overlapped /\ crashes = 0 =>
    \A r \in Run : run[r].failed # None => ~run[r].replayed
=============================================================================
