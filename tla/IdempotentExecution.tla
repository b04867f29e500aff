------------------------ MODULE IdempotentExecution ------------------------
(***************************************************************************)
(* What the callers of execute() are promised (packages/core,              *)
(* execution-engine.ts), without how the engine does it: a request key     *)
(* names one execution, every caller of the key gets the one recorded      *)
(* result, a logical model call is sent at most once, and a commit is made *)
(* at the state revision the request expected.  ExecutionEngine implements *)
(* this specification; the executors of the Evidence applications are      *)
(* modelled on top of it.                                                  *)
(***************************************************************************)
EXTENDS Naturals

CONSTANTS
  Key,        \* request keys
  Entity,     \* state streams
  Request,    \* what the request fingerprint covers
  Caller,     \* calls of execute()
  MaxRepair,  \* repair calls beside the primary one
  None

VARIABLES
  ledger,  \* the execution of each key
  head,    \* the state revision of each entity
  sent,    \* how often each logical model call of a key was sent
  asked,   \* the key each call asked for, or None
  answer   \* what each call was told, or None

contract == <<ledger, head, sent, asked, answer>>

Settled == {"committed", "failed"}

Execution == [status : {"absent", "open"} \cup Settled,
              request : Request \cup {None}]

Absent == [status |-> "absent", request |-> None]

ContractTypeOK ==
  /\ ledger \in [Key -> Execution]
  /\ head \in [Entity -> Nat]
  /\ sent \in [Key -> [0 .. MaxRepair -> Nat]]
  /\ asked \in [Caller -> Key \cup {None}]
  /\ answer \in [Caller -> Settled \cup {"other-request", None}]

ContractInit ==
  /\ ledger = [k \in Key |-> Absent]
  /\ head = [e \in Entity |-> 0]
  /\ sent = [k \in Key |-> [c \in 0 .. MaxRepair |-> 0]]
  /\ asked = [r \in Caller |-> None]
  /\ answer = [r \in Caller |-> None]

Waits(r) == asked[r] # None /\ answer[r] = None

Asks(r, k) ==
  /\ asked[r] = None
  /\ asked' = [asked EXCEPT ![r] = k]
  /\ UNCHANGED <<head, sent>>

(* The first request with a key opens its execution. *)
Open(r, k, request) ==
  /\ Asks(r, k)
  /\ ledger[k].status = "absent"
  /\ ledger' = [ledger EXCEPT ![k] = [status |-> "open", request |-> request]]
  /\ UNCHANGED answer

(* A later request with the key must be the same one.  It joins an open    *)
(* execution and is told the result of a settled one.                      *)
Rejoin(r, k, request) ==
  /\ Asks(r, k)
  /\ ledger[k].status # "absent"
  /\ answer' = [answer EXCEPT ![r] =
                  IF ledger[k].request # request THEN "other-request"
                  ELSE IF ledger[k].status = "open" THEN None
                  ELSE ledger[k].status]
  /\ UNCHANGED ledger

Send(r, c) ==
  /\ Waits(r)
  /\ sent[asked[r]][c] = 0
  /\ sent' = [sent EXCEPT ![asked[r]][c] = 1]
  /\ UNCHANGED <<ledger, head, asked, answer>>

(* A commit rests on a call that was sent and on the expected revision.    *)
Commit(r) ==
  LET k == asked[r]
      request == ledger[k].request
  IN
  /\ Waits(r)
  /\ ledger[k].status = "open"
  /\ \E c \in 0 .. MaxRepair : sent[k][c] > 0
  /\ head[request.entity] = request.expectedRevision
  /\ ledger' = [ledger EXCEPT ![k].status = "committed"]
  /\ \/ head' = [head EXCEPT ![request.entity] = @ + 1]
     \/ UNCHANGED head
  /\ answer' = [answer EXCEPT ![r] = "committed"]
  /\ UNCHANGED <<sent, asked>>

(* A call ends the execution without a commit: for good. *)
Fail(r) ==
  /\ Waits(r)
  /\ ledger[asked[r]].status = "open"
  /\ ledger' = [ledger EXCEPT ![asked[r]].status = "failed"]
  /\ answer' = [answer EXCEPT ![r] = "failed"]
  /\ UNCHANGED <<head, sent, asked>>

(* A call finds that another one has settled the execution. *)
Learn(r) ==
  /\ Waits(r)
  /\ ledger[asked[r]].status \in Settled
  /\ answer' = [answer EXCEPT ![r] = ledger[asked[r]].status]
  /\ UNCHANGED <<ledger, head, sent, asked>>

(* An operator discharges an open execution. *)
Discharge(k) ==
  /\ ledger[k].status = "open"
  /\ ledger' = [ledger EXCEPT ![k].status = "failed"]
  /\ UNCHANGED <<head, sent, asked, answer>>

ContractNext ==
  \/ \E r \in Caller :
       \/ \E k \in Key, request \in Request : Open(r, k, request) \/ Rejoin(r, k, request)
       \/ \E c \in 0 .. MaxRepair : Send(r, c)
       \/ Commit(r) \/ Fail(r) \/ Learn(r)
  \/ \E k \in Key : Discharge(k)

ContractSpec == ContractInit /\ [][ContractNext]_contract
=============================================================================
