---------------------- MODULE PostgresRepositoryProofs ----------------------
(***************************************************************************)
(* Proofs about PostgresRepository: for any number of connections, keys    *)
(* and entities, no commit overwrites another, inserts are granted once,   *)
(* commits are there as a whole, and what no two transactions contest is   *)
(* final.                                                                  *)
(*                                                                         *)
(* The argument is about row locks.  A transaction that writes holds, or   *)
(* has still to lock, every row it will publish; what it holds nobody else *)
(* can publish, so a row that was not stale when it was locked is not      *)
(* stale when the transaction commits.  What is read without a lock stays  *)
(* true only on a key that no other transaction has open.                  *)
(***************************************************************************)
EXTENDS PostgresRepository, FiniteSetTheorems, TLAPS

(* The rows of a list of statements. *)
Rows(s) == {s[i] : i \in 1 .. Len(s)}

(* The rows a transaction on key k may ever write. *)
Own(k) == ({"execution", "commit", "call", "event"} \X {k})
            \cup ({"head", "memory"} \X {EntityOf(k)})

(* A transaction has a kind and a key from its BEGIN on, locks and         *)
(* statements only when it writes, and only a commit something to commit.  *)
TxOK(c) ==
  /\ tx[c].pc # "idle" => tx[c].kind \in Kind /\ tx[c].key \in Key
  /\ tx[c].pc # "write" => tx[c].holds = {} /\ tx[c].todo = << >>
  /\ tx[c].kind # "commit" => tx[c].commit = NoCommit

(* It holds, or has still to write, every row of its kind and no other.    *)
LocksOK(c) ==
  tx[c].pc = "write" =>
    /\ tx[c].holds \cup Rows(tx[c].todo) \subseteq Own(tx[c].key)
    /\ Rows(Writes(tx[c].kind, tx[c].key, tx[c].commit))
         \subseteq tx[c].holds \cup Rows(tx[c].todo)

(* A row it holds is still what its conditional write found. *)
HeldIsFresh(c) ==
  tx[c].pc = "write" => \A row \in tx[c].holds : ~Stale(c, row)

(* What the caller knew when it called remains so. *)
CallStands(c) == tx[c].pc # "idle" => CanCall(tx[c].kind, tx[c].key)

(* On a key nobody contests, so does what the method read without a lock;  *)
(* a commit looks again at the revision.                                   *)
ReadStands(c) ==
  tx[c].pc = "write" /\ tx[c].key \notin contested =>
    IF tx[c].kind = "commit" THEN Mutable(tx[c].key)
    ELSE ~Refused(tx[c].kind, tx[c].key)

Contested ==
  \A c, d \in Client :
    c # d /\ tx[c].pc # "idle" /\ tx[d].pc # "idle" /\ tx[c].key = tx[d].key
      => tx[c].key \in contested

TxInv ==
  /\ \A c \in Client : /\ TxOK(c)
                       /\ LocksOK(c)
                       /\ HeldIsFresh(c)
                       /\ CallStands(c)
                       /\ ReadStands(c)
  /\ Contested

(* An insert was granted exactly when its row is there. *)
GrantsAreRows ==
  \A k \in Key :
    /\ granted[<<"accept", k>>] = IF execution[k] = "absent" THEN 0 ELSE 1
    /\ granted[<<"reserve", k>>] = IF call[k] THEN 1 ELSE 0
    /\ granted[<<"commit", k>>] = IF commitRow[k] = None THEN 0 ELSE 1

Writers(e) == {k \in Key : EntityOf(k) = e /\ commitRow[k] # None
                             /\ commitRow[k].memory # None}

WritersAreFinite == \A e \in Entity : IsFiniteSet(Writers(e))

IInv ==
  /\ NoLostUpdate
  /\ CommitIsWhole
  /\ GrantsAreRows
  /\ WritersAreFinite
  /\ TxInv
-----------------------------------------------------------------------------
(* Lists of rows.                                                          *)

(* The rows of a list are rows. *)
LEMMA RowsType ==
  ASSUME NEW S, NEW s \in Seq(S)
  PROVE  Rows(s) \subseteq S
BY DEF Rows

(* The rows of two lists are the rows of one and of the other. *)
LEMMA RowsConcat ==
  ASSUME NEW S, NEW s \in Seq(S), NEW t \in Seq(S)
  PROVE  Rows(s \o t) = Rows(s) \cup Rows(t)
<1>1. Rows(s \o t) \subseteq Rows(s) \cup Rows(t)
  <2> SUFFICES ASSUME NEW i \in 1 .. Len(s \o t)
               PROVE  (s \o t)[i] \in Rows(s) \cup Rows(t)
    BY DEF Rows
  <2>1. CASE i <= Len(s)
    BY <2>1 DEF Rows
  <2>2. CASE i > Len(s)
    <3>1. i - Len(s) \in 1 .. Len(t) /\ (s \o t)[i] = t[i - Len(s)]
      BY <2>2
    <3> QED BY <3>1 DEF Rows
  <2> QED BY <2>1, <2>2
<1>2. Rows(s) \subseteq Rows(s \o t)
  <2> SUFFICES ASSUME NEW i \in 1 .. Len(s)
               PROVE  s[i] \in Rows(s \o t)
    BY DEF Rows
  <2>1. i \in 1 .. Len(s \o t) /\ (s \o t)[i] = s[i]
    OBVIOUS
  <2> QED BY <2>1 DEF Rows
<1>3. Rows(t) \subseteq Rows(s \o t)
  <2> SUFFICES ASSUME NEW i \in 1 .. Len(t)
               PROVE  t[i] \in Rows(s \o t)
    BY DEF Rows
  <2>1. i + Len(s) \in 1 .. Len(s \o t) /\ (s \o t)[i + Len(s)] = t[i]
    OBVIOUS
  <2> QED BY <2>1 DEF Rows
<1> QED BY <1>1, <1>2, <1>3

(* To write the first row of a list leaves the others. *)
LEMMA RowsHeadTail ==
  ASSUME NEW S, NEW s \in Seq(S), s # << >>
  PROVE  /\ Head(s) \in S
         /\ Tail(s) \in Seq(S)
         /\ Rows(s) = {Head(s)} \cup Rows(Tail(s))
<1>1. Head(s) \in S /\ Tail(s) \in Seq(S) /\ Len(s) \in Nat \ {0}
  OBVIOUS
<1>2. Rows(s) \subseteq {Head(s)} \cup Rows(Tail(s))
  <2> SUFFICES ASSUME NEW i \in 1 .. Len(s)
               PROVE  s[i] = Head(s) \/ s[i] \in Rows(Tail(s))
    BY DEF Rows
  <2>1. CASE i = 1
    BY <2>1
  <2>2. CASE i # 1
    <3>1. i - 1 \in 1 .. Len(Tail(s)) /\ Tail(s)[i - 1] = s[i]
      BY <1>1, <2>2
    <3> QED BY <3>1 DEF Rows
  <2> QED BY <2>1, <2>2
<1>3. Head(s) \in Rows(s)
  <2>1. 1 \in 1 .. Len(s) /\ s[1] = Head(s)
    BY <1>1
  <2> QED BY <2>1 DEF Rows
<1>4. Rows(Tail(s)) \subseteq Rows(s)
  <2> SUFFICES ASSUME NEW i \in 1 .. Len(Tail(s))
               PROVE  Tail(s)[i] \in Rows(s)
    BY DEF Rows
  <2>1. i + 1 \in 1 .. Len(s) /\ s[i + 1] = Tail(s)[i]
    BY <1>1
  <2> QED BY <2>1 DEF Rows
<1> QED BY <1>1, <1>2, <1>3, <1>4

(* No statement, no row. *)
LEMMA RowsEmpty == Rows(<< >>) = {}
BY DEF Rows

(* What a request names. *)
LEMMA RequestType ==
  ASSUME NEW k \in Key
  PROVE  /\ EntityOf(k) \in Entity
         /\ Request[k].expectedRevision \in Nat
         /\ Request[k] = [entity |-> EntityOf(k),
                          expectedRevision |-> Request[k].expectedRevision]
BY PostgresAssumption DEF EntityOf

(* The statements of a method write rows of its own key, and a commit has  *)
(* a statement for everything that it publishes.                           *)
LEMMA WritesRows ==
  ASSUME NEW kind \in Kind, NEW k \in Key, NEW commit \in Commit
  PROVE  /\ Writes(kind, k, commit) \in Seq(Row)
         /\ Rows(Writes(kind, k, commit)) \subseteq Own(k)
         /\ kind = "reserve" => <<"call", k>> \in Rows(Writes(kind, k, commit))
         /\ kind = "commit" =>
              /\ <<"commit", k>> \in Rows(Writes(kind, k, commit))
              /\ commit.advances =>
                   <<"head", EntityOf(k)>> \in Rows(Writes(kind, k, commit))
              /\ commit.memory # None =>
                   <<"memory", EntityOf(k)>> \in Rows(Writes(kind, k, commit))
         /\ kind = "lease" =>
              Rows(Writes(kind, k, commit)) = {<<"event", k>>}
<1> DEFINE e == EntityOf(k)
           a == IF commit.memory = None THEN << >> ELSE << <<"memory", e>> >>
           b == IF commit.advances THEN << <<"head", e>> >> ELSE << >>
           d == << <<"event", k>>, <<"commit", k>>, <<"execution", k>> >>
<1>1. e \in Entity
  BY RequestType
<1>2. /\ <<"execution", k>> \in Row /\ <<"commit", k>> \in Row
      /\ <<"call", k>> \in Row /\ <<"event", k>> \in Row
      /\ <<"head", e>> \in Row /\ <<"memory", e>> \in Row
  BY <1>1 DEF Row
<1>3. /\ <<"execution", k>> \in Own(k) /\ <<"commit", k>> \in Own(k)
      /\ <<"call", k>> \in Own(k) /\ <<"event", k>> \in Own(k)
      /\ <<"head", e>> \in Own(k) /\ <<"memory", e>> \in Own(k)
  BY DEF Own
<1>4. ASSUME NEW row \in Row
      PROVE  << row >> \in Seq(Row) /\ Rows(<< row >>) = {row}
  <2>1. << row >> \in Seq(Row) /\ Len(<< row >>) = 1 /\ << row >>[1] = row
    OBVIOUS
  <2>2. 1 .. 1 = {1}
    OBVIOUS
  <2> QED BY <2>1, <2>2 DEF Rows
<1>5. CASE kind = "commit"
  <2> HIDE DEF e
  <2>1. a \in Seq(Row) /\ b \in Seq(Row)
    BY <1>2, <1>4
  <2>2. d \in Seq(Row)
    BY <1>2
  <2>3. Rows(d) = {<<"event", k>>, <<"commit", k>>, <<"execution", k>>}
    <3>1. Len(d) = 3
      OBVIOUS
    <3>2. 1 .. 3 = {1, 2, 3}
      OBVIOUS
    <3>3. Rows(d) = {d[1], d[2], d[3]}
      <4> HIDE DEF d
      <4> QED BY <3>1, <3>2 DEF Rows
    <3> QED BY <3>3
  <2>4. /\ commit.memory = None => Rows(a) = {}
        /\ commit.memory # None => Rows(a) = {<<"memory", e>>}
    BY <1>2, <1>4, RowsEmpty
  <2>5. /\ commit.advances => Rows(b) = {<<"head", e>>}
        /\ ~commit.advances => Rows(b) = {}
    BY <1>2, <1>4, RowsEmpty
  <2>6. Writes(kind, k, commit) = (a \o b) \o d
    BY <1>5 DEF Writes, e
  <2> HIDE DEF a, b, d
  <2>7. Rows((a \o b) \o d) = (Rows(a) \cup Rows(b)) \cup Rows(d)
    <3>1. (a \o b) \in Seq(Row)
      BY <2>1
    <3>2. Rows((a \o b) \o d) = Rows(a \o b) \cup Rows(d)
      BY <3>1, <2>2, RowsConcat
    <3>3. Rows(a \o b) = Rows(a) \cup Rows(b)
      BY <2>1, RowsConcat
    <3> QED BY <3>2, <3>3
  <2>8. (a \o b) \o d \in Seq(Row)
    BY <2>1, <2>2
  <2>9. Rows(a) \subseteq Own(k) /\ Rows(b) \subseteq Own(k)
    BY <2>4, <2>5, <1>3
  <2>10. Rows(d) \subseteq Own(k) /\ <<"commit", k>> \in Rows(d)
    BY <2>3, <1>3
  <2> QED BY <1>5, <2>4, <2>5, <2>6, <2>7, <2>8, <2>9, <2>10 DEF e
<1>6. CASE kind = "reserve"
  <2>1. Writes(kind, k, commit) = << <<"call", k>> >>
    BY <1>6 DEF Writes
  <2> QED BY <1>6, <2>1, <1>2, <1>3, <1>4
<1>7. CASE kind \in {"accept", "attempt", "terminal"}
  <2>1. Writes(kind, k, commit) = << <<"execution", k>> >>
    BY <1>7 DEF Writes
  <2> QED BY <1>7, <2>1, <1>2, <1>3, <1>4
<1>8. CASE kind \in {"lease", "delivered", "retry", "giveUp", "redrive"}
  <2>1. Writes(kind, k, commit) = << <<"event", k>> >>
    BY <1>8 DEF Writes
  <2> QED BY <1>8, <2>1, <1>2, <1>3, <1>4
<1> QED BY <1>5, <1>6, <1>7, <1>8 DEF Kind, Insert

-----------------------------------------------------------------------------
(* The steps that publish nothing.                                         *)

(* Nothing is open and nothing is written at first. *)
LEMMA InitOK == Init => IInv
<1> SUFFICES ASSUME Init PROVE IInv
  OBVIOUS
<1>1. TypeOK
  <2>1. Idle \in Transaction
    BY DEF Idle, Transaction, NoCommit, Commit
  <2>2. [i \in Insert \X Key |-> 0] \in [Insert \X Key -> Nat]
    OBVIOUS
  <2> QED BY <2>1, <2>2, PostgresAssumption DEF Init, TypeOK, Idle
<1>2. LinearHistory
  BY DEF Init, LinearHistory
<1>3. \A e \in Entity : Writers(e) = {}
  BY DEF Init, Writers
<1>4. NoLostMemoryUpdate
  <2> SUFFICES ASSUME NEW e \in Entity
               PROVE  /\ {commitRow[k].memory : k \in Writers(e)}
                           = 0 .. memory[e] - 1
                      /\ Cardinality(Writers(e)) = memory[e]
    BY DEF NoLostMemoryUpdate, Writers
  <2>1. memory[e] = 0
    BY DEF Init
  <2>2. Writers(e) = {}
    BY <1>3
  <2>3. Cardinality({}) = 0
    BY FS_EmptySet
  <2>4. {commitRow[k].memory : k \in {}} = {}
    OBVIOUS
  <2>5. 0 .. 0 - 1 = {}
    OBVIOUS
  <2> QED BY <2>1, <2>2, <2>3, <2>4, <2>5
<1>5. CommitIsWhole
  <2> SUFFICES ASSUME NEW k \in Key
               PROVE  /\ commitRow[k] = None /\ outbox[k] = "absent"
                      /\ DOMAIN history[EntityOf(k)] = {}
                      /\ execution[k] # "committed"
    BY DEF CommitIsWhole
  <2>1. history[EntityOf(k)] = << >>
    BY RequestType DEF Init
  <2> QED BY <2>1 DEF Init
<1>6. GrantsAreRows
  BY DEF Init, GrantsAreRows, Insert
<1>7. WritersAreFinite
  BY <1>3, FS_EmptySet DEF WritersAreFinite
<1>8. TxInv
  BY DEF Init, TxInv, TxOK, LocksOK, HeldIsFresh, CallStands, ReadStands,
         Contested, Idle
<1> QED BY <1>1, <1>2, <1>4, <1>5, <1>6, <1>7, <1>8 DEF IInv, NoLostUpdate

(* What the invariant says of the tables stays true when none changes and  *)
(* keys are only added to the contested ones.                              *)
LEMMA TablesKept ==
  ASSUME IInv, UNCHANGED <<tables, granted>>, contested \subseteq contested'
  PROVE  /\ LinearHistory' /\ NoLostMemoryUpdate' /\ CommitIsWhole'
         /\ GrantsAreRows' /\ WritersAreFinite'
<1>1. LinearHistory'
  BY DEF IInv, NoLostUpdate, LinearHistory, tables
<1>2. NoLostMemoryUpdate'
  BY DEF IInv, NoLostUpdate, NoLostMemoryUpdate, tables
<1>3. CommitIsWhole'
  BY DEF IInv, CommitIsWhole, tables
<1>4. GrantsAreRows'
  BY DEF IInv, GrantsAreRows, tables
<1>5. WritersAreFinite'
  BY DEF IInv, WritersAreFinite, Writers, tables
<1> QED BY <1>1, <1>2, <1>3, <1>4, <1>5

(* What a method reads of the rows of its key decides whether it is        *)
(* refused; a commit reads the head as well.                               *)
LEMMA SameRowsSameAnswer ==
  ASSUME NEW k \in Key, NEW kind \in Kind,
         execution'[k] = execution[k], outbox'[k] = outbox[k],
         call'[k] = call[k]
  PROVE  /\ Mutable(k)' <=> Mutable(k)
         /\ kind # "commit" => (Refused(kind, k)' <=> Refused(kind, k))
<1>1. Mutable(k)' <=> Mutable(k)
  BY DEF Mutable
<1>2. CASE kind = "accept"
  BY <1>1, <1>2 DEF Refused
<1>3. CASE kind = "attempt"
  BY <1>1, <1>3 DEF Refused, AttemptRefused
<1>4. CASE kind = "reserve"
  BY <1>1, <1>4 DEF Refused, ReserveRefused
<1>5. CASE kind = "terminal"
  BY <1>1, <1>5 DEF Refused, TerminalRefused
<1>6. CASE kind = "lease"
  BY <1>1, <1>6 DEF Refused, NothingToLease
<1>7. CASE kind = "delivered"
  BY <1>1, <1>7 DEF Refused, DeliveredRefused
<1>8. CASE kind \in {"retry", "giveUp"}
  BY <1>1, <1>8 DEF Refused, FailedRefused
<1>9. CASE kind = "redrive"
  BY <1>1, <1>9 DEF Refused, RedriveRefused
<1>10. CASE kind = "commit"
  BY <1>1, <1>10
<1> QED
  BY <1>2, <1>3, <1>4, <1>5, <1>6, <1>7, <1>8, <1>9, <1>10 DEF Kind, Insert

(* So does what it says of a transaction that takes no step.               *)
LEMMA OthersKept ==
  ASSUME IInv, UNCHANGED tables, contested \subseteq contested',
         NEW d \in Client, tx'[d] = tx[d]
  PROVE  /\ TxOK(d)' /\ LocksOK(d)' /\ HeldIsFresh(d)'
         /\ CallStands(d)' /\ ReadStands(d)'
<1>1. /\ TxOK(d) /\ LocksOK(d) /\ HeldIsFresh(d)
      /\ CallStands(d) /\ ReadStands(d)
  BY DEF IInv, TxInv
<1>2. TxOK(d)' /\ LocksOK(d)'
  BY <1>1 DEF TxOK, LocksOK
<1>3. HeldIsFresh(d)'
  BY <1>1 DEF HeldIsFresh, Stale, tables
<1>4. CallStands(d)'
  BY <1>1 DEF CallStands, CanCall, tables
<1>5. ReadStands(d)'
  BY <1>1, SameRowsSameAnswer DEF TxOK, ReadStands, tables
<1> QED BY <1>2, <1>3, <1>4, <1>5

(* A step of one transaction keeps the invariant when it takes no lock     *)
(* that another holds and what the invariant says of it is true after it.  *)
LEMMA StepOfOne ==
  ASSUME IInv, NEW c \in Client, NEW t \in Transaction,
         tx' = [tx EXCEPT ![c] = t],
         UNCHANGED <<tables, ops, granted, contested>>,
         t.pc # "idle" => tx[c].pc # "idle" /\ t.key = tx[c].key,
         \A d \in Client \ {c} : t.holds \cap tx[d].holds = {},
         TxOK(c)', LocksOK(c)', HeldIsFresh(c)', CallStands(c)', ReadStands(c)'
  PROVE  IInv'
<1>1. tx \in [Client -> Transaction]
  BY DEF IInv, NoLostUpdate, TypeOK
<1>2. tx'[c] = t /\ \A d \in Client \ {c} : tx'[d] = tx[d]
  BY <1>1
<1>3. TypeOK'
  <2>1. tx' \in [Client -> Transaction]
    BY <1>1
  <2>2. \A x, y \in Client : x # y => tx'[x].holds \cap tx'[y].holds = {}
    <3>1. \A x, y \in Client : x # y => tx[x].holds \cap tx[y].holds = {}
      BY DEF IInv, NoLostUpdate, TypeOK
    <3>2. SUFFICES ASSUME NEW x \in Client, NEW y \in Client, x # y
                   PROVE  tx'[x].holds \cap tx'[y].holds = {}
      OBVIOUS
    <3>3. CASE x = c
      BY <3>2, <3>3, <1>2
    <3>4. CASE y = c
      BY <3>2, <3>4, <1>2
    <3>5. CASE x # c /\ y # c
      BY <3>1, <3>2, <3>5, <1>2
    <3> QED BY <3>3, <3>4, <3>5
  <2> QED BY <2>1, <2>2 DEF IInv, NoLostUpdate, TypeOK, tables
<1>4. /\ LinearHistory' /\ NoLostMemoryUpdate' /\ CommitIsWhole'
      /\ GrantsAreRows' /\ WritersAreFinite'
  BY TablesKept
<1>5. TxInv'
  <2>1. ASSUME NEW d \in Client \ {c}
        PROVE  /\ TxOK(d)' /\ LocksOK(d)' /\ HeldIsFresh(d)'
               /\ CallStands(d)' /\ ReadStands(d)'
    BY <1>2, OthersKept
  <2>2. Contested'
    BY <1>2 DEF IInv, TxInv, Contested
  <2> QED BY <2>1, <2>2 DEF TxInv
<1> QED BY <1>3, <1>4, <1>5 DEF IInv, NoLostUpdate

(* ROLLBACK gives up the locks and leaves the tables alone. *)
LEMMA RollbackOK ==
  ASSUME IInv, NEW c \in Client, Rollback(c)
  PROVE  IInv'
<1>1. Idle \in Transaction
  BY DEF Idle, Transaction, NoCommit, Commit
<1>2. tx \in [Client -> Transaction]
  BY DEF IInv, NoLostUpdate, TypeOK
<1>3. tx' = [tx EXCEPT ![c] = Idle] /\ tx'[c] = Idle
  BY <1>2 DEF Rollback
<1>4. /\ TxOK(c)' /\ LocksOK(c)' /\ HeldIsFresh(c)'
      /\ CallStands(c)' /\ ReadStands(c)'
  BY <1>3 DEF Idle, TxOK, LocksOK, HeldIsFresh, CallStands, ReadStands
<1>5. UNCHANGED <<tables, ops, granted, contested>>
  BY DEF Rollback
<1>6. Idle.pc = "idle" /\ Idle.holds = {}
  BY DEF Idle
<1> QED BY <1>1, <1>3, <1>4, <1>5, <1>6, StepOfOne

(* BEGIN: the caller knows what it needs to know, and a key that another   *)
(* transaction has open is contested from now on.                          *)
LEMMA BeginOK ==
  ASSUME IInv, NEW c \in Client, NEW kind \in Kind, NEW k \in Key,
         Begin(c, kind, k)
  PROVE  IInv'
<1>1. tx \in [Client -> Transaction] /\ memory \in [Entity -> Nat]
  BY DEF IInv, NoLostUpdate, TypeOK
<1>2. PICK commit \in Prepared(kind, k) :
        tx' = [tx EXCEPT ![c] = [pc |-> "begun", kind |-> kind, key |-> k,
                                 commit |-> commit, todo |-> << >>,
                                 holds |-> {}]]
  BY DEF Begin
<1> DEFINE t == [pc |-> "begun", kind |-> kind, key |-> k, commit |-> commit,
                 todo |-> << >>, holds |-> {}]
<1>3. tx' = [tx EXCEPT ![c] = t]
  BY <1>2
<1>4. commit \in Commit /\ (kind # "commit" => commit = NoCommit)
  <2> DEFINE m == memory[EntityOf(k)]
  <2>1. m \in Nat
    BY <1>1, RequestType
  <2> HIDE DEF m
  <2>2. [advances : BOOLEAN, memory : (0 .. m) \cup {None}] \subseteq Commit
    BY <2>1 DEF Commit
  <2>3. NoCommit \in Commit
    BY DEF NoCommit, Commit
  <2> QED BY <2>2, <2>3 DEF Prepared, m
<1>5. t \in Transaction
  BY <1>4 DEF Transaction
<1> HIDE DEF t
<1>6. tx'[c] = t /\ \A d \in Client \ {c} : tx'[d] = tx[d]
  BY <1>1, <1>3
<1>7. /\ t.pc = "begun" /\ t.kind = kind /\ t.key = k /\ t.commit = commit
      /\ t.todo = << >> /\ t.holds = {}
  BY DEF t
<1>8. /\ UNCHANGED <<tables, granted>> /\ contested \subseteq contested'
      /\ contested' \subseteq Key /\ ops' \in 0 .. MaxOps
  BY PostgresAssumption DEF Begin, IInv, NoLostUpdate, TypeOK
<1>9. TypeOK'
  <2>1. tx' \in [Client -> Transaction]
    BY <1>1, <1>3, <1>5
  <2>2. \A x, y \in Client : x # y => tx'[x].holds \cap tx'[y].holds = {}
    BY <1>6, <1>7 DEF IInv, NoLostUpdate, TypeOK
  <2> QED BY <2>1, <2>2, <1>8 DEF IInv, NoLostUpdate, TypeOK, tables
<1>10. /\ LinearHistory' /\ NoLostMemoryUpdate' /\ CommitIsWhole'
       /\ GrantsAreRows' /\ WritersAreFinite'
  BY <1>8, TablesKept
<1>11. TxInv'
  <2>1. ASSUME NEW d \in Client \ {c}
        PROVE  /\ TxOK(d)' /\ LocksOK(d)' /\ HeldIsFresh(d)'
               /\ CallStands(d)' /\ ReadStands(d)'
    BY <1>6, <1>8, OthersKept
  <2>2. TxOK(c)' /\ LocksOK(c)' /\ HeldIsFresh(c)' /\ ReadStands(c)'
    BY <1>4, <1>6, <1>7 DEF TxOK, LocksOK, HeldIsFresh, ReadStands
  <2>3. CallStands(c)'
    BY <1>6, <1>7, <1>8 DEF CallStands, CanCall, Begin, tables
  <2>4. Contested'
    <3> SUFFICES ASSUME NEW x \in Client, NEW y \in Client, x # y,
                        tx'[x].pc # "idle", tx'[y].pc # "idle",
                        tx'[x].key = tx'[y].key
                 PROVE  tx'[x].key \in contested'
      BY DEF Contested
    <3>1. CASE x # c /\ y # c
      BY <3>1, <1>6, <1>8 DEF IInv, TxInv, Contested
    <3>2. CASE x = c
      BY <3>2, <1>6, <1>7 DEF Begin
    <3>3. CASE y = c
      BY <3>3, <1>6, <1>7 DEF Begin
    <3> QED BY <3>1, <3>2, <3>3
  <2> QED BY <2>1, <2>2, <2>3, <2>4 DEF TxInv
<1> QED BY <1>9, <1>10, <1>11 DEF IInv, NoLostUpdate

(* A method that is not refused goes on to its first statement.            *)
LEMMA ReadOK ==
  ASSUME IInv, NEW c \in Client, Read(c)
  PROVE  IInv'
<1> DEFINE kind == tx[c].kind
           k == tx[c].key
           w == Writes(kind, k, tx[c].commit)
           t == [tx[c] EXCEPT !.pc = "write", !.todo = w]
<1>1. CASE Rollback(c)
  BY <1>1, RollbackOK
<1>2. CASE /\ ~Refused(kind, k)
           /\ tx' = [tx EXCEPT ![c].pc = "write", ![c].todo = w]
           /\ UNCHANGED <<tables, ops, granted, contested>>
  <2>1. tx \in [Client -> Transaction] /\ tx[c] \in Transaction
    BY DEF IInv, NoLostUpdate, TypeOK
  <2>2. TxOK(c) /\ CallStands(c)
    BY DEF IInv, TxInv
  <2>3. /\ tx[c].pc = "begun" /\ kind \in Kind /\ k \in Key
        /\ tx[c].commit \in Commit
        /\ tx[c].holds = {} /\ tx[c].todo = << >>
    BY <2>1, <2>2 DEF Read, TxOK, Transaction
  <2>4. w \in Seq(Row) /\ Rows(w) \subseteq Own(k)
    BY <2>3, WritesRows
  <2>5. t \in Transaction
    BY <2>1, <2>4 DEF Transaction
  <2>6. /\ t.pc = "write" /\ t.kind = kind /\ t.key = k
        /\ t.commit = tx[c].commit /\ t.todo = w /\ t.holds = {}
    BY <2>1, <2>3 DEF Transaction
  <2>7. tx' = [tx EXCEPT ![c] = t]
    BY <1>2
  <2>8. UNCHANGED <<tables, ops, granted, contested>>
    BY <1>2
  <2> HIDE DEF t, w, k, kind
  <2>9. tx'[c] = t
    BY <2>1, <2>7
  <2>10. TxOK(c)'
    BY <2>2, <2>3, <2>6, <2>9 DEF TxOK, kind, k
  <2>11. LocksOK(c)'
    BY <2>4, <2>6, <2>9 DEF LocksOK, w
  <2>12. HeldIsFresh(c)'
    BY <2>6, <2>9 DEF HeldIsFresh
  <2>13. CallStands(c)'
    BY <2>2, <2>3, <2>6, <2>8, <2>9 DEF CallStands, CanCall, tables, kind, k
  <2>14. ReadStands(c)'
    <3>1. IF kind = "commit" THEN Mutable(k) ELSE ~Refused(kind, k)
      BY <1>2, <2>3 DEF Refused, CommitRefused
    <3> QED BY <3>1, <2>3, <2>6, <2>8, <2>9, SameRowsSameAnswer
            DEF ReadStands, tables
  <2> QED BY <2>3, <2>5, <2>6, <2>7, <2>8, <2>10, <2>11, <2>12, <2>13, <2>14,
             StepOfOne DEF k
<1> QED BY <1>1, <1>2 DEF Read

(* leaseOutbox() has the lock of the event when it looks at it.            *)
LEMMA LeaseOK ==
  ASSUME IInv, NEW c \in Client, LeaseOutbox(c)
  PROVE  IInv'
<1> DEFINE k == tx[c].key
           row == <<"event", k>>
           t == [tx[c] EXCEPT !.pc = "write", !.holds = {row}]
<1>1. CASE Refused("lease", k) \/ ~Free(c, row)
  BY <1>1, RollbackOK DEF LeaseOutbox
<1>2. CASE ~Refused("lease", k) /\ Free(c, row)
  <2>1. tx \in [Client -> Transaction] /\ tx[c] \in Transaction
    BY DEF IInv, NoLostUpdate, TypeOK
  <2>2. TxOK(c) /\ CallStands(c)
    BY DEF IInv, TxInv
  <2>3. /\ tx[c].pc = "begun" /\ tx[c].kind = "lease" /\ k \in Key
        /\ tx[c].commit \in Commit
        /\ tx[c].holds = {} /\ tx[c].todo = << >>
    BY <2>1, <2>2 DEF LeaseOutbox, TxOK, Transaction
  <2>4. row \in Row /\ row \in Own(k)
    BY <2>3 DEF Row, Own
  <2>5. t \in Transaction
    BY <2>1, <2>4 DEF Transaction
  <2>6. /\ t.pc = "write" /\ t.kind = "lease" /\ t.key = k
        /\ t.commit = tx[c].commit /\ t.todo = << >> /\ t.holds = {row}
    BY <2>1, <2>3 DEF Transaction
  <2>7. tx' = [tx EXCEPT ![c] = t]
    BY <1>2 DEF LeaseOutbox
  <2>8. UNCHANGED <<tables, ops, granted, contested>>
    BY <1>2 DEF LeaseOutbox
  <2> HIDE DEF t
  <2>9. tx'[c] = t
    BY <2>1, <2>7
  <2>10. TxOK(c)'
    BY <2>2, <2>3, <2>6, <2>9 DEF TxOK
  <2>11. LocksOK(c)'
    <3>1. "lease" \in Kind
      BY DEF Kind
    <3>2. Rows(Writes("lease", k, tx[c].commit)) = {row}
      BY <2>3, <3>1, WritesRows
    <3> QED BY <3>2, <2>4, <2>6, <2>9, RowsEmpty DEF LocksOK
  <2>12. HeldIsFresh(c)'
    BY <2>6, <2>9 DEF HeldIsFresh, Stale
  <2>13. CallStands(c)'
    BY <2>2, <2>3, <2>6, <2>8, <2>9 DEF CallStands, CanCall, tables
  <2>14. ReadStands(c)'
    BY <1>2, <2>3, <2>6, <2>8, <2>9, SameRowsSameAnswer
       DEF ReadStands, tables, Kind
  <2>15. \A d \in Client \ {c} : t.holds \cap tx[d].holds = {}
    BY <1>2, <2>6 DEF Free
  <2> QED BY <2>3, <2>5, <2>6, <2>7, <2>8, <2>10, <2>11, <2>12, <2>13, <2>14,
             <2>15, StepOfOne
<1> QED BY <1>1, <1>2

(* A statement finds its row free and fresh, and locks it.                 *)
LEMMA WriteOK ==
  ASSUME IInv, NEW c \in Client, Write(c)
  PROVE  IInv'
<1> DEFINE row == Head(tx[c].todo)
           t == [tx[c] EXCEPT !.todo = Tail(@), !.holds = @ \cup {row}]
<1>1. CASE Stale(c, row)
  BY <1>1, RollbackOK DEF Write
<1>2. CASE ~Stale(c, row)
  <2>1. tx \in [Client -> Transaction] /\ tx[c] \in Transaction
    BY DEF IInv, NoLostUpdate, TypeOK
  <2>2. /\ TxOK(c) /\ LocksOK(c) /\ HeldIsFresh(c)
        /\ CallStands(c) /\ ReadStands(c)
    BY DEF IInv, TxInv
  <2>3. /\ tx[c].pc = "write" /\ tx[c].kind \in Kind /\ tx[c].key \in Key
        /\ tx[c].todo # << >> /\ tx[c].todo \in Seq(Row)
        /\ tx[c].holds \subseteq Row
    BY <2>1, <2>2 DEF Write, TxOK, Transaction
  <2>4. /\ row \in Row /\ Tail(tx[c].todo) \in Seq(Row)
        /\ Rows(tx[c].todo) = {row} \cup Rows(Tail(tx[c].todo))
    BY <2>3, RowsHeadTail
  <2>5. t \in Transaction
    BY <2>1, <2>3, <2>4 DEF Transaction
  <2>6. /\ t.pc = "write" /\ t.kind = tx[c].kind /\ t.key = tx[c].key
        /\ t.commit = tx[c].commit /\ t.todo = Tail(tx[c].todo)
        /\ t.holds = tx[c].holds \cup {row}
    BY <2>1, <2>3 DEF Transaction
  <2>7. tx' = [tx EXCEPT ![c] = t]
    BY <1>2 DEF Write
  <2>8. UNCHANGED <<tables, ops, granted, contested>>
    BY <1>2 DEF Write
  <2> HIDE DEF t
  <2>9. tx'[c] = t
    BY <2>1, <2>7
  <2>10. TxOK(c)'
    BY <2>2, <2>3, <2>6, <2>9 DEF TxOK
  <2>11. LocksOK(c)'
    BY <2>2, <2>3, <2>4, <2>6, <2>9 DEF LocksOK
  <2>12. HeldIsFresh(c)'
    <3> SUFFICES ASSUME NEW r \in tx[c].holds \cup {row}
                 PROVE  ~Stale(c, r)'
      BY <2>6, <2>9 DEF HeldIsFresh
    <3>1. ~Stale(c, r)
      BY <1>2, <2>2, <2>3 DEF HeldIsFresh
    <3> QED BY <3>1, <2>6, <2>8, <2>9 DEF Stale, tables
  <2>13. CallStands(c)'
    BY <2>2, <2>3, <2>6, <2>8, <2>9 DEF CallStands, CanCall, tables
  <2>14. ReadStands(c)'
    BY <2>2, <2>3, <2>6, <2>8, <2>9, SameRowsSameAnswer DEF ReadStands, tables
  <2>15. \A d \in Client \ {c} : t.holds \cap tx[d].holds = {}
    BY <2>6 DEF Write, Free, IInv, NoLostUpdate, TypeOK
  <2> QED BY <2>3, <2>5, <2>6, <2>7, <2>8, <2>10, <2>11, <2>12, <2>13, <2>14,
             <2>15, StepOfOne
<1> QED BY <1>1, <1>2

-----------------------------------------------------------------------------
(* COMMIT.                                                                 *)

(* The transaction that commits holds every row that it publishes, and     *)
(* what its conditional writes found is still there.                       *)
LEMMA PublishHolds ==
  ASSUME IInv, NEW c \in Client, Publish(c)
  PROVE  LET kind == tx[c].kind
             k == tx[c].key
             e == EntityOf(k)
             commit == tx[c].commit
         IN  /\ kind \in Kind /\ k \in Key /\ e \in Entity /\ commit \in Commit
             /\ CanCall(kind, k)
             /\ kind = "commit" =>
                  commitRow[k] = None /\ <<"commit", k>> \in tx[c].holds
             /\ kind = "reserve" => ~call[k] /\ <<"call", k>> \in tx[c].holds
             /\ commit.advances =>
                  /\ kind = "commit"
                  /\ Len(history[e]) = Request[k].expectedRevision
                  /\ <<"head", e>> \in tx[c].holds
             /\ commit.memory # None =>
                  /\ kind = "commit"
                  /\ memory[e] = commit.memory
                  /\ <<"memory", e>> \in tx[c].holds
<1> DEFINE kind == tx[c].kind
           k == tx[c].key
           e == EntityOf(k)
           commit == tx[c].commit
<1>1. tx[c] \in Transaction
  BY DEF IInv, NoLostUpdate, TypeOK
<1>2. TxOK(c) /\ LocksOK(c) /\ HeldIsFresh(c) /\ CallStands(c)
  BY DEF IInv, TxInv
<1>3. tx[c].pc = "write" /\ tx[c].todo = << >>
  BY DEF Publish
<1>4. kind \in Kind /\ k \in Key /\ e \in Entity /\ commit \in Commit
  <2>1. kind \in Kind /\ k \in Key /\ commit \in Commit
    BY <1>1, <1>2, <1>3 DEF TxOK, Transaction
  <2> QED BY <2>1, RequestType
<1>5. CanCall(kind, k)
  BY <1>2, <1>3 DEF CallStands
<1>6. Rows(Writes(kind, k, commit)) \subseteq tx[c].holds
  BY <1>2, <1>3, RowsEmpty DEF LocksOK
<1>7. \A row \in tx[c].holds : ~Stale(c, row)
  BY <1>2, <1>3 DEF HeldIsFresh
<1>8. kind # "commit" => ~commit.advances /\ commit.memory = None
  BY <1>2 DEF TxOK, NoCommit
<1>9. kind = "commit" =>
        commitRow[k] = None /\ <<"commit", k>> \in tx[c].holds
  BY <1>4, <1>6, <1>7, WritesRows DEF Stale
<1>10. kind = "reserve" => ~call[k] /\ <<"call", k>> \in tx[c].holds
  BY <1>4, <1>6, <1>7, WritesRows DEF Stale
<1>11. commit.advances =>
         /\ kind = "commit"
         /\ Len(history[e]) = Request[k].expectedRevision
         /\ <<"head", e>> \in tx[c].holds
  BY <1>4, <1>6, <1>7, <1>8, WritesRows DEF Stale
<1>12. commit.memory # None =>
         /\ kind = "commit"
         /\ memory[e] = commit.memory
         /\ <<"memory", e>> \in tx[c].holds
  BY <1>4, <1>6, <1>7, <1>8, WritesRows DEF Stale
<1> QED BY <1>4, <1>5, <1>9, <1>10, <1>11, <1>12

(* A COMMIT changes the rows of its own key and entity only, and an        *)
(* execution or an event that exists never disappears.                     *)
LEMMA PublishChanges ==
  ASSUME IInv, NEW c \in Client, Publish(c)
  PROVE  /\ \A x \in Key : x # tx[c].key =>
              /\ execution'[x] = execution[x] /\ outbox'[x] = outbox[x]
              /\ call'[x] = call[x] /\ commitRow'[x] = commitRow[x]
         /\ \A x \in Key : /\ execution[x] # "absent" => execution'[x] # "absent"
                           /\ outbox[x] # "absent" => outbox'[x] # "absent"
         /\ tx[c].kind # "commit" => /\ commitRow' = commitRow
                                     /\ history' = history /\ memory' = memory
         /\ tx' \in [Client -> Transaction]
         /\ tx'[c] = Idle
         /\ \A d \in Client : d # c => tx'[d] = tx[d]
<1> DEFINE kind == tx[c].kind
           k == tx[c].key
<1>1. /\ execution \in [Key -> {"absent", "running"} \cup Terminal]
      /\ outbox \in [Key -> {"absent", "pending", "claimed", "delivered",
                             "failed"}]
      /\ call \in [Key -> BOOLEAN] /\ commitRow \in [Key -> Commit \cup {None}]
      /\ tx \in [Client -> Transaction]
  BY DEF IInv, NoLostUpdate, TypeOK
<1>2. k \in Key /\ kind \in Kind /\ CanCall(kind, k)
  BY PublishHolds
<1>3. \A x \in Key : x # k =>
        /\ execution'[x] = execution[x] /\ outbox'[x] = outbox[x]
        /\ call'[x] = call[x] /\ commitRow'[x] = commitRow[x]
  BY <1>1 DEF Publish
<1>4. /\ execution[k] # "absent" => execution'[k] # "absent"
      /\ outbox[k] # "absent" => outbox'[k] # "absent"
  <2>1. /\ execution'[k] = Status(kind, execution[k])
        /\ outbox'[k] = Delivery(kind, outbox[k])
    BY <1>1, <1>2 DEF Publish
  <2> QED BY <2>1 DEF Status, Delivery
<1>5. kind # "commit" => /\ commitRow' = commitRow
                         /\ history' = history /\ memory' = memory
  BY PublishHolds DEF Publish
<1>6. tx' = [tx EXCEPT ![c] = Idle]
  BY DEF Publish
<1>7. Idle \in Transaction
  BY DEF Idle, Transaction, NoCommit, Commit
<1>8. /\ tx' \in [Client -> Transaction] /\ tx'[c] = Idle
      /\ \A d \in Client : d # c => tx'[d] = tx[d]
  BY <1>1, <1>6, <1>7
<1> QED BY <1>3, <1>4, <1>5, <1>8

(* A publication writes values of the types of the table. *)
LEMMA PublishTypeOK ==
  ASSUME IInv, NEW c \in Client, Publish(c)
  PROVE  TypeOK'
<1> DEFINE kind == tx[c].kind
           k == tx[c].key
           e == EntityOf(k)
           commit == tx[c].commit
<1>1. TypeOK
  BY DEF IInv, NoLostUpdate
<1>2. kind \in Kind /\ k \in Key /\ e \in Entity /\ commit \in Commit
  BY PublishHolds
<1>3. execution' \in [Key -> {"absent", "running"} \cup Terminal]
  <2>1. Status(kind, execution[k]) \in {"absent", "running"} \cup Terminal
    BY <1>1, <1>2 DEF Status, Terminal, TypeOK
  <2>2. execution' = [execution EXCEPT ![k] = Status(kind, execution[k])]
    BY DEF Publish
  <2> QED BY <1>1, <2>1, <2>2 DEF TypeOK
<1>4. outbox' \in [Key -> {"absent", "pending", "claimed", "delivered",
                           "failed"}]
  <2>1. Delivery(kind, outbox[k])
          \in {"absent", "pending", "claimed", "delivered", "failed"}
    BY <1>1, <1>2 DEF Delivery, TypeOK
  <2>2. outbox' = [outbox EXCEPT ![k] = Delivery(kind, outbox[k])]
    BY DEF Publish
  <2> QED BY <1>1, <2>1, <2>2 DEF TypeOK
<1>5. call' \in [Key -> BOOLEAN] /\ commitRow' \in [Key -> Commit \cup {None}]
  BY <1>1, <1>2 DEF Publish, TypeOK
<1>6. history' \in [Entity -> Seq(Key)]
  <2>1. Append(history[e], k) \in Seq(Key)
    BY <1>1, <1>2 DEF TypeOK
  <2>2. CASE commit.advances
    <3>1. history' = [history EXCEPT ![e] = Append(history[e], k)]
      BY <2>2 DEF Publish
    <3> QED BY <1>1, <2>1, <3>1 DEF TypeOK
  <2>3. CASE ~commit.advances
    BY <1>1, <2>3 DEF Publish, TypeOK
  <2> QED BY <2>2, <2>3
<1>7. memory' \in [Entity -> Nat]
  BY <1>1, <1>2 DEF Publish, TypeOK
<1>8. granted' \in [Insert \X Key -> Nat]
  BY <1>1, <1>2 DEF Publish, TypeOK
<1>9. tx' \in [Client -> Transaction]
  BY PublishChanges
<1>10. \A x, y \in Client : x # y => tx'[x].holds \cap tx'[y].holds = {}
  BY <1>1, PublishChanges DEF TypeOK, Idle
<1>11. ops' \in 0 .. MaxOps /\ contested' \subseteq Key
  BY <1>1 DEF Publish, TypeOK
<1> QED BY <1>3, <1>4, <1>5, <1>6, <1>7, <1>8, <1>9, <1>10, <1>11 DEF TypeOK

(* A revision that is added expected the head that it is added to.         *)
LEMMA PublishLinear ==
  ASSUME IInv, NEW c \in Client, Publish(c)
  PROVE  LinearHistory'
<1> DEFINE k == tx[c].key
           e == EntityOf(k)
           commit == tx[c].commit
<1>1. /\ LinearHistory /\ history \in [Entity -> Seq(Key)]
      /\ commitRow \in [Key -> Commit \cup {None}]
  BY DEF IInv, NoLostUpdate, TypeOK
<1>2. k \in Key /\ e \in Entity /\ commit \in Commit
  BY PublishHolds
<1>3. \A x \in Key : commitRow[x] # None => commitRow'[x] # None
  BY <1>1, <1>2, PostgresAssumption DEF Publish
<1>4. CASE ~commit.advances
  <2>1. history' = history
    BY <1>4 DEF Publish
  <2>2. \A x \in Entity : \A i \in 1 .. Len(history[x]) : history[x][i] \in Key
    BY <1>1
  <2> QED BY <1>1, <1>3, <2>1, <2>2 DEF LinearHistory
<1>5. CASE commit.advances
  <2>1. /\ tx[c].kind = "commit"
        /\ Len(history[e]) = Request[k].expectedRevision
    BY <1>5, PublishHolds
  <2>2. history' = [history EXCEPT ![e] = Append(history[e], k)]
    BY <1>5 DEF Publish
  <2>3. commitRow'[k] = commit /\ commit # None
    BY <1>1, <1>2, <2>1, PostgresAssumption DEF Publish
  <2> SUFFICES ASSUME NEW x \in Entity, NEW i \in 1 .. Len(history'[x])
               PROVE  /\ commitRow'[history'[x][i]] # None
                      /\ Request[history'[x][i]]
                           = [entity |-> x, expectedRevision |-> i - 1]
    BY DEF LinearHistory
  <2>4. CASE x # e
    <3>1. history'[x] = history[x]
      BY <1>1, <2>2, <2>4
    <3>2. history[x][i] \in Key
      BY <1>1, <3>1
    <3> QED BY <1>1, <1>3, <3>1, <3>2 DEF LinearHistory
  <2>5. CASE x = e /\ i \in 1 .. Len(history[e])
    <3>1. history'[e] = Append(history[e], k)
      BY <1>1, <1>2, <2>2
    <3>2. history'[e][i] = history[e][i] /\ history[e][i] \in Key
      BY <1>1, <1>2, <2>5, <3>1
    <3> QED BY <1>1, <1>2, <1>3, <2>5, <3>2 DEF LinearHistory
  <2>6. CASE x = e /\ i \notin 1 .. Len(history[e])
    <3>1. history'[e] = Append(history[e], k)
      BY <1>1, <1>2, <2>2
    <3>2. i = Len(history[e]) + 1 /\ history'[e][i] = k
      BY <1>1, <1>2, <2>6, <3>1
    <3>3. i - 1 = Request[k].expectedRevision
      BY <1>1, <1>2, <2>1, <3>2
    <3> QED BY <1>2, <2>3, <2>6, <3>2, <3>3, RequestType
  <2> QED BY <2>4, <2>5, <2>6
<1> QED BY <1>4, <1>5

(* A commit that writes the memory record wrote the version after the one  *)
(* that it read, and is one more that did.                                 *)
LEMMA PublishMemory ==
  ASSUME IInv, NEW c \in Client, Publish(c)
  PROVE  NoLostMemoryUpdate' /\ WritersAreFinite'
<1> DEFINE k == tx[c].key
           e == EntityOf(k)
           commit == tx[c].commit
<1>1. /\ commitRow \in [Key -> Commit \cup {None}]
      /\ memory \in [Entity -> Nat]
  BY DEF IInv, NoLostUpdate, TypeOK
<1>2. k \in Key /\ e \in Entity /\ commit \in Commit
  BY PublishHolds
<1>3. \A x \in Entity :
        /\ {commitRow[y].memory : y \in Writers(x)} = 0 .. memory[x] - 1
        /\ Cardinality(Writers(x)) = memory[x]
        /\ IsFiniteSet(Writers(x))
  BY DEF IInv, NoLostUpdate, NoLostMemoryUpdate, WritersAreFinite, Writers
<1>4. SUFFICES ASSUME NEW x \in Entity
               PROVE  /\ {commitRow'[y].memory : y \in Writers(x)'}
                           = 0 .. memory'[x] - 1
                      /\ Cardinality(Writers(x)') = memory'[x]
                      /\ IsFiniteSet(Writers(x)')
  BY DEF NoLostMemoryUpdate, WritersAreFinite, Writers
<1>5. CASE x = e /\ commit.memory # None
  <2>1. tx[c].kind = "commit" /\ memory[e] = commit.memory /\ commitRow[k] = None
    BY <1>5, PublishHolds
  <2>2. memory'[e] = memory[e] + 1
    BY <1>1, <1>2, <1>5 DEF Publish
  <2>3. commitRow'[k] = commit /\ commit # None
    BY <1>1, <1>2, <2>1, PostgresAssumption DEF Publish
  <2>4. \A y \in Key : y # k => commitRow'[y] = commitRow[y]
    BY PublishChanges
  <2>5. k \notin Writers(x)
    BY <2>1 DEF Writers
  <2>6. Writers(x)' = Writers(x) \cup {k}
    BY <1>2, <1>5, <2>3, <2>4 DEF Writers
  <2>7. \A y \in Writers(x) : commitRow'[y].memory = commitRow[y].memory
    BY <2>4, <2>5 DEF Writers
  <2>8. {commitRow'[y].memory : y \in Writers(x) \cup {k}}
          = {commitRow[y].memory : y \in Writers(x)} \cup {memory[e]}
    BY <2>1, <2>3, <2>7
  <2>9. (0 .. memory[e] - 1) \cup {memory[e]} = 0 .. (memory[e] + 1) - 1
    BY <1>1, <1>2
  <2>10. /\ IsFiniteSet(Writers(x) \cup {k})
         /\ Cardinality(Writers(x) \cup {k}) = Cardinality(Writers(x)) + 1
    BY <1>2, <1>3, <2>5, FS_AddElement
  <2> QED BY <1>2, <1>3, <1>5, <2>2, <2>6, <2>8, <2>9, <2>10
<1>6. CASE ~(x = e /\ commit.memory # None)
  <2>1. memory'[x] = memory[x]
    BY <1>1, <1>2, <1>6 DEF Publish
  <2>2. Writers(x)' = Writers(x)
        /\ \A y \in Writers(x) : commitRow'[y] = commitRow[y]
    <3>1. CASE tx[c].kind # "commit"
      BY <3>1, PublishChanges DEF Writers
    <3>2. CASE tx[c].kind = "commit"
      <4>1. commitRow[k] = None
        BY <3>2, PublishHolds
      <4>2. commitRow'[k] = commit
        BY <1>1, <1>2, <3>2 DEF Publish
      <4>3. \A y \in Key : y # k => commitRow'[y] = commitRow[y]
        BY PublishChanges
      <4> QED BY <1>6, <4>1, <4>2, <4>3 DEF Writers
    <3> QED BY <3>1, <3>2
  <2> QED BY <1>3, <2>1, <2>2
<1> QED BY <1>5, <1>6

(* The commit row, the event and the revision of a commit appear together; *)
(* on an uncontested key the status of the execution agrees with them.     *)
LEMMA PublishWhole ==
  ASSUME IInv, NEW c \in Client, Publish(c)
  PROVE  CommitIsWhole'
<1> DEFINE kind == tx[c].kind
           k == tx[c].key
           e == EntityOf(k)
           commit == tx[c].commit
           In(h, x) == \E i \in DOMAIN h[EntityOf(x)] : h[EntityOf(x)][i] = x
<1>1. /\ commitRow \in [Key -> Commit \cup {None}]
      /\ history \in [Entity -> Seq(Key)]
      /\ execution \in [Key -> {"absent", "running"} \cup Terminal]
      /\ outbox \in [Key -> {"absent", "pending", "claimed", "delivered",
                             "failed"}]
  BY DEF IInv, NoLostUpdate, TypeOK
<1>2. /\ kind \in Kind /\ k \in Key /\ e \in Entity /\ commit \in Commit
      /\ CanCall(kind, k)
  BY PublishHolds
<1>3. \A x \in Key :
        /\ commitRow[x] # None <=> outbox[x] # "absent"
        /\ In(history, x) <=> commitRow[x] # None /\ commitRow[x].advances
        /\ x \notin contested =>
             (commitRow[x] # None <=> execution[x] = "committed")
  BY DEF IInv, CommitIsWhole
<1>4. \A x \in Key : x # k =>
        /\ execution'[x] = execution[x] /\ outbox'[x] = outbox[x]
        /\ commitRow'[x] = commitRow[x]
  BY PublishChanges
<1>5. contested' = contested
  BY DEF Publish
<1>6. kind = "commit" => commitRow'[k] = commit /\ commitRow'[k] # None
  BY <1>1, <1>2, PostgresAssumption DEF Publish
<1>7. commitRow'[k] # None <=> outbox'[k] # "absent"
  <2>1. outbox'[k] = Delivery(kind, outbox[k])
    BY <1>1, <1>2 DEF Publish
  <2>2. CASE kind = "commit"
    BY <1>6, <2>1, <2>2 DEF Delivery
  <2>3. CASE kind # "commit"
    <3>1. commitRow'[k] = commitRow[k]
      BY <2>3, PublishChanges
    <3>2. outbox'[k] # "absent" <=> outbox[k] # "absent"
      BY <1>2, <2>1, <2>3 DEF Delivery, CanCall, Kind, Insert
    <3> QED BY <1>2, <1>3, <3>1, <3>2
  <2> QED BY <2>2, <2>3
<1>8. ASSUME NEW x \in Key
      PROVE  In(history', x) <=> commitRow'[x] # None /\ commitRow'[x].advances
  <2>1. EntityOf(x) \in Entity
    BY RequestType
  <2>2. CASE ~commit.advances
    <3>1. In(history', x) <=> In(history, x)
      BY <2>2 DEF Publish
    <3>2. CASE x # k \/ kind # "commit"
      BY <1>3, <1>4, <3>1, <3>2, PublishChanges
    <3>3. CASE x = k /\ kind = "commit"
      <4>1. commitRow[k] = None
        BY <3>3, PublishHolds
      <4> QED BY <1>2, <1>3, <1>6, <2>2, <3>1, <3>3, <4>1
    <3> QED BY <3>2, <3>3
  <2>3. CASE commit.advances
    <3>1. kind = "commit" /\ commitRow[k] = None
      BY <2>3, PublishHolds
    <3>2. history' = [history EXCEPT ![e] = Append(history[e], k)]
      BY <2>3 DEF Publish
    <3>3. CASE x = k
      <4>1. history'[e] = Append(history[e], k)
        BY <1>1, <1>2, <3>2
      <4>2. /\ Len(history[e]) + 1 \in DOMAIN Append(history[e], k)
            /\ Append(history[e], k)[Len(history[e]) + 1] = k
        BY <1>1, <1>2
      <4> QED BY <1>6, <2>3, <3>1, <3>3, <4>1, <4>2
    <3>4. CASE x # k
      <4>1. In(history', x) <=> In(history, x)
        <5>1. CASE EntityOf(x) # e
          <6>1. history'[EntityOf(x)] = history[EntityOf(x)]
            BY <1>1, <2>1, <3>2, <5>1
          <6> QED BY <6>1
        <5>2. CASE EntityOf(x) = e
          <6> DEFINE h == history[e]
          <6>1. h \in Seq(Key) /\ history'[e] = Append(h, k)
            BY <1>1, <1>2, <3>2
          <6> HIDE DEF h
          <6>2. /\ DOMAIN h = 1 .. Len(h)
                /\ DOMAIN Append(h, k) = 1 .. Len(h) + 1
                /\ \A i \in 1 .. Len(h) : Append(h, k)[i] = h[i]
                /\ Append(h, k)[Len(h) + 1] = k
            BY <6>1, <1>2
          <6>3. (\E i \in DOMAIN Append(h, k) : Append(h, k)[i] = x)
                  <=> (\E i \in DOMAIN h : h[i] = x)
            <7>1. 1 .. Len(h) + 1 = (1 .. Len(h)) \cup {Len(h) + 1}
              BY <6>1
            <7> QED BY <3>4, <6>2, <7>1
          <6> QED BY <5>2, <6>1, <6>3 DEF h
        <5> QED BY <5>1, <5>2
      <4> QED BY <1>3, <1>4, <3>4, <4>1
    <3> QED BY <3>3, <3>4
  <2> QED BY <2>2, <2>3
<1>9. k \notin contested =>
        (commitRow'[k] # None <=> execution'[k] = "committed")
  <2> SUFFICES ASSUME k \notin contested
               PROVE  commitRow'[k] # None <=> execution'[k] = "committed"
    OBVIOUS
  <2>1. execution'[k] = Status(kind, execution[k])
    BY <1>1, <1>2 DEF Publish
  <2>2. CASE kind = "commit"
    BY <1>6, <2>1, <2>2 DEF Status
  <2>3. CASE kind # "commit"
    <3>1. commitRow'[k] = commitRow[k]
      BY <2>3, PublishChanges
    <3>2. ~Refused(kind, k)
      BY <2>3 DEF IInv, TxInv, ReadStands, Publish
    <3>3. execution'[k] = "committed" <=> execution[k] = "committed"
      <4>1. kind \in {"attempt", "terminal"} => Mutable(k)
        BY <3>2 DEF Refused, AttemptRefused, TerminalRefused
      <4> QED BY <2>1, <2>3, <4>1 DEF Status, Mutable, Terminal
    <3> QED BY <1>2, <1>3, <3>1, <3>3
  <2> QED BY <2>2, <2>3
<1> QED BY <1>3, <1>4, <1>5, <1>7, <1>8, <1>9 DEF CommitIsWhole

(* An insert is reported as the first one when it adds the row.            *)
LEMMA PublishGrants ==
  ASSUME IInv, NEW c \in Client, Publish(c)
  PROVE  GrantsAreRows'
<1> DEFINE kind == tx[c].kind
           k == tx[c].key
           first == kind \in Insert /\ (kind = "accept" => execution[k] = "absent")
<1>1. /\ commitRow \in [Key -> Commit \cup {None}] /\ call \in [Key -> BOOLEAN]
      /\ execution \in [Key -> {"absent", "running"} \cup Terminal]
      /\ granted \in [Insert \X Key -> Nat]
  BY DEF IInv, NoLostUpdate, TypeOK
<1>2. k \in Key /\ kind \in Kind /\ CanCall(kind, k)
  BY PublishHolds
<1>3. GrantsAreRows
  BY DEF IInv
<1>4. granted' = IF first THEN [granted EXCEPT ![<<kind, k>>] = @ + 1]
                 ELSE granted
  BY DEF Publish
<1>5. \A i \in Insert, x \in Key :
        granted'[<<i, x>>] = IF first /\ i = kind /\ x = k
                             THEN granted[<<i, x>>] + 1 ELSE granted[<<i, x>>]
  BY <1>1, <1>2, <1>4
<1>6. \A x \in Key : x # k =>
        /\ execution'[x] = execution[x] /\ call'[x] = call[x]
        /\ commitRow'[x] = commitRow[x]
  BY PublishChanges
<1>7. execution'[k] = Status(kind, execution[k])
  BY <1>1, <1>2 DEF Publish
<1>8. call'[k] = (call[k] \/ kind = "reserve")
  BY <1>1, <1>2 DEF Publish
<1>9. ASSUME NEW x \in Key
      PROVE  /\ granted'[<<"accept", x>>]
                  = IF execution'[x] = "absent" THEN 0 ELSE 1
             /\ granted'[<<"reserve", x>>] = IF call'[x] THEN 1 ELSE 0
             /\ granted'[<<"commit", x>>]
                  = IF commitRow'[x] = None THEN 0 ELSE 1
  <2>1. "accept" \in Insert /\ "reserve" \in Insert /\ "commit" \in Insert
    BY DEF Insert
  <2>2. /\ granted[<<"accept", x>>] = IF execution[x] = "absent" THEN 0 ELSE 1
        /\ granted[<<"reserve", x>>] = IF call[x] THEN 1 ELSE 0
        /\ granted[<<"commit", x>>] = IF commitRow[x] = None THEN 0 ELSE 1
    BY <1>3 DEF GrantsAreRows
  <2>3. granted'[<<"accept", x>>]
          = IF kind = "accept" /\ execution[k] = "absent" /\ x = k
            THEN granted[<<"accept", x>>] + 1 ELSE granted[<<"accept", x>>]
    BY <1>5, <2>1
  <2>4. granted'[<<"reserve", x>>]
          = IF kind = "reserve" /\ x = k
            THEN granted[<<"reserve", x>>] + 1 ELSE granted[<<"reserve", x>>]
    BY <1>5, <2>1
  <2>5. granted'[<<"commit", x>>]
          = IF kind = "commit" /\ x = k
            THEN granted[<<"commit", x>>] + 1 ELSE granted[<<"commit", x>>]
    BY <1>5, <2>1
  <2>6. granted'[<<"accept", x>>] = IF execution'[x] = "absent" THEN 0 ELSE 1
    <3>1. execution[x] # "absent" => execution'[x] # "absent"
      BY PublishChanges
    <3>2. x = k => (execution'[k] = "absent" <=>
                      kind # "accept" /\ execution[k] = "absent")
      BY <1>2, <1>7, <3>1 DEF Status, CanCall
    <3> QED BY <1>6, <2>2, <2>3, <3>1, <3>2
  <2>7. granted'[<<"reserve", x>>] = IF call'[x] THEN 1 ELSE 0
    <3>1. kind = "reserve" => ~call[k]
      BY PublishHolds
    <3>2. call'[x] <=> call[x] \/ (kind = "reserve" /\ x = k)
      BY <1>6, <1>8
    <3>3. CASE kind = "reserve" /\ x = k
      BY <2>2, <2>4, <3>1, <3>2, <3>3
    <3>4. CASE ~(kind = "reserve" /\ x = k)
      <4>1. granted'[<<"reserve", x>>] = granted[<<"reserve", x>>]
        BY <2>4, <3>4
      <4>2. call'[x] <=> call[x]
        BY <3>2, <3>4
      <4> QED BY <2>2, <4>1, <4>2
    <3> QED BY <3>3, <3>4
  <2>8. granted'[<<"commit", x>>] = IF commitRow'[x] = None THEN 0 ELSE 1
    <3>1. kind = "commit" => commitRow[k] = None /\ commitRow'[k] # None
      BY <1>1, <1>2, PublishHolds, PostgresAssumption DEF Publish
    <3>2. kind # "commit" => commitRow' = commitRow
      BY PublishChanges
    <3> QED BY <1>6, <2>2, <2>5, <3>1, <3>2
  <2> QED BY <2>6, <2>7, <2>8
<1> QED BY <1>9 DEF GrantsAreRows

(* What is published makes stale only rows that the transaction held, and  *)
(* so none that another holds.                                             *)
LEMMA PublishTx ==
  ASSUME IInv, NEW c \in Client, Publish(c)
  PROVE  TxInv'
<1>1. TxOK(c)' /\ LocksOK(c)' /\ HeldIsFresh(c)' /\ CallStands(c)' /\ ReadStands(c)'
  BY PublishChanges
     DEF TxOK, LocksOK, HeldIsFresh, CallStands, ReadStands, Idle
<1>2. contested' = contested
  BY DEF Publish
<1>3. Contested'
  BY <1>2, PublishChanges DEF IInv, TxInv, Contested, Idle
<1>4. ASSUME NEW d \in Client, d # c
      PROVE  /\ TxOK(d)' /\ LocksOK(d)' /\ HeldIsFresh(d)'
             /\ CallStands(d)' /\ ReadStands(d)'
  <2> DEFINE k == tx[c].key
             e == EntityOf(k)
             commit == tx[c].commit
             kd == tx[d].key
             ed == EntityOf(kd)
  <2>1. /\ TxOK(d) /\ LocksOK(d) /\ HeldIsFresh(d)
        /\ CallStands(d) /\ ReadStands(d)
    BY DEF IInv, TxInv
  <2>2. tx'[d] = tx[d]
    BY <1>4, PublishChanges
  <2>3. TxOK(d)' /\ LocksOK(d)'
    BY <2>1, <2>2 DEF TxOK, LocksOK
  <2>4. HeldIsFresh(d)'
    <3> SUFFICES ASSUME tx[d].pc = "write", NEW row \in tx[d].holds
                 PROVE  ~Stale(d, row)'
      BY <2>2 DEF HeldIsFresh
    <3>1. ~Stale(d, row) /\ row \in Own(kd) /\ kd \in Key
      BY <2>1 DEF HeldIsFresh, LocksOK, TxOK
    <3>2. row \notin tx[c].holds
      BY <1>4 DEF IInv, NoLostUpdate, TypeOK
    <3>3. /\ history \in [Entity -> Seq(Key)] /\ memory \in [Entity -> Nat]
          /\ call \in [Key -> BOOLEAN]
          /\ commitRow \in [Key -> Commit \cup {None}]
      BY DEF IInv, NoLostUpdate, TypeOK
    <3>4. k \in Key /\ e \in Entity /\ ed \in Entity
      BY <3>1, PublishHolds, RequestType
    <3>5. CASE row[1] = "head"
      <4>1. row = <<"head", ed>>
        BY <3>1, <3>5 DEF Own
      <4>2. history'[ed] = history[ed]
        <5>1. CASE commit.advances
          <6>1. e # ed
            BY <3>2, <4>1, <5>1, PublishHolds
          <6> QED BY <3>3, <3>4, <5>1, <6>1 DEF Publish
        <5>2. CASE ~commit.advances
          BY <5>2 DEF Publish
        <5> QED BY <5>1, <5>2
      <4> QED BY <2>2, <3>1, <3>5, <4>2 DEF Stale
    <3>6. CASE row[1] = "memory"
      <4>1. row = <<"memory", ed>>
        BY <3>1, <3>6 DEF Own
      <4>2. memory'[ed] = memory[ed]
        <5>1. CASE commit.memory # None
          <6>1. e # ed
            BY <3>2, <4>1, <5>1, PublishHolds
          <6> QED BY <3>3, <3>4, <5>1, <6>1 DEF Publish
        <5>2. CASE commit.memory = None
          BY <5>2 DEF Publish
        <5> QED BY <5>1, <5>2
      <4> QED BY <2>2, <3>1, <3>6, <4>2 DEF Stale
    <3>7. CASE row[1] = "commit"
      <4>1. row = <<"commit", kd>>
        BY <3>1, <3>7 DEF Own
      <4>2. commitRow'[kd] = commitRow[kd]
        <5>1. CASE tx[c].kind = "commit"
          <6>1. k # kd
            BY <3>2, <4>1, <5>1, PublishHolds
          <6> QED BY <3>1, <6>1, PublishChanges
        <5>2. CASE tx[c].kind # "commit"
          BY <5>2, PublishChanges
        <5> QED BY <5>1, <5>2
      <4> QED BY <2>2, <3>1, <3>7, <4>2 DEF Stale
    <3>8. CASE row[1] = "call"
      <4>1. row = <<"call", kd>>
        BY <3>1, <3>8 DEF Own
      <4>2. call'[kd] = call[kd]
        <5>1. CASE tx[c].kind = "reserve"
          <6>1. k # kd
            BY <3>2, <4>1, <5>1, PublishHolds
          <6> QED BY <3>1, <6>1, PublishChanges
        <5>2. CASE tx[c].kind # "reserve"
          BY <3>1, <3>3, <3>4, <5>2 DEF Publish
        <5> QED BY <5>1, <5>2
      <4> QED BY <2>2, <3>1, <3>8, <4>2 DEF Stale
    <3>9. CASE row[1] \notin {"head", "memory", "commit", "call"}
      BY <3>9 DEF Stale
    <3> QED BY <3>5, <3>6, <3>7, <3>8, <3>9
  <2>5. CallStands(d)'
    <3> SUFFICES ASSUME tx[d].pc # "idle"
                 PROVE  CanCall(tx[d].kind, kd)'
      BY <2>2 DEF CallStands
    <3>1. CanCall(tx[d].kind, kd) /\ kd \in Key
      BY <2>1 DEF CallStands, TxOK
    <3>2. /\ execution[kd] # "absent" => execution'[kd] # "absent"
          /\ outbox[kd] # "absent" => outbox'[kd] # "absent"
      BY <3>1, PublishChanges
    <3> QED BY <2>2, <3>1, <3>2 DEF CanCall
  <2>6. ReadStands(d)'
    <3> SUFFICES ASSUME tx[d].pc = "write", kd \notin contested
                 PROVE  IF tx[d].kind = "commit" THEN Mutable(kd)'
                        ELSE ~Refused(tx[d].kind, kd)'
      BY <1>2, <2>2 DEF ReadStands
    <3>1. kd # k
      BY <1>4 DEF IInv, TxInv, Contested, Publish
    <3>2. kd \in Key /\ tx[d].kind \in Kind
      BY <2>1 DEF TxOK
    <3>3. /\ execution'[kd] = execution[kd] /\ outbox'[kd] = outbox[kd]
          /\ call'[kd] = call[kd]
      BY <3>1, <3>2, PublishChanges
    <3>4. IF tx[d].kind = "commit" THEN Mutable(kd)
          ELSE ~Refused(tx[d].kind, kd)
      BY <2>1 DEF ReadStands
    <3> QED BY <2>2, <3>2, <3>3, <3>4, SameRowsSameAnswer
  <2> QED BY <2>3, <2>4, <2>5, <2>6
<1> QED BY <1>1, <1>3, <1>4 DEF TxInv

(* COMMIT keeps the invariant. *)
LEMMA PublishOK ==
  ASSUME IInv, NEW c \in Client, Publish(c)
  PROVE  IInv'
BY PublishTypeOK, PublishLinear, PublishMemory, PublishWhole, PublishGrants,
   PublishTx DEF IInv, NoLostUpdate

-----------------------------------------------------------------------------
(* The theorems.                                                           *)

(* Every step keeps the invariant. *)
LEMMA NextOK == IInv /\ [Next]_vars => IInv'
<1> SUFFICES ASSUME IInv, [Next]_vars PROVE IInv'
  OBVIOUS
<1>1. CASE Next
  <2>1. PICK c \in Client :
          \/ \E kind \in Kind, k \in Key : Begin(c, kind, k)
          \/ Read(c) \/ LeaseOutbox(c) \/ Write(c) \/ Abort(c) \/ Publish(c)
    BY <1>1 DEF Next
  <2>2. CASE \E kind \in Kind, k \in Key : Begin(c, kind, k)
    BY <2>2, BeginOK
  <2>3. CASE Read(c)
    BY <2>3, ReadOK
  <2>4. CASE LeaseOutbox(c)
    BY <2>4, LeaseOK
  <2>5. CASE Write(c)
    BY <2>5, WriteOK
  <2>6. CASE Abort(c)
    BY <2>6, RollbackOK DEF Abort
  <2>7. CASE Publish(c)
    BY <2>7, PublishOK
  <2> QED BY <2>1, <2>2, <2>3, <2>4, <2>5, <2>6, <2>7
<1>2. CASE UNCHANGED vars
  <2>1. UNCHANGED <<tables, tx, ops, granted, contested>>
    BY <1>2 DEF vars
  <2>2. TypeOK'
    BY <2>1 DEF IInv, NoLostUpdate, TypeOK, tables
  <2>3. TxInv'
    <3>1. Contested'
      BY <2>1 DEF IInv, TxInv, Contested
    <3> QED BY <2>1, <3>1, OthersKept DEF TxInv
  <2> QED BY <2>1, <2>2, <2>3, TablesKept DEF IInv, NoLostUpdate
<1> QED BY <1>1, <1>2

(* Every step of every transaction keeps the invariant. *)
LEMMA InvariantHolds == Spec => []IInv
BY InitOK, NextOK, PTL DEF Spec

(* No commit overwrites another, of the state or of the memory, however    *)
(* the statements of the transactions of repository.ts interleave: what    *)
(* its conditional writes check under the row lock is enough under READ    *)
(* COMMITTED.                                                              *)
THEOREM NoUpdateIsLost == Spec => []NoLostUpdate
<1>1. IInv => NoLostUpdate
  BY DEF IInv
<1> QED BY <1>1, InvariantHolds, PTL

(* One caller of accept(), of reserveModelCall() and of commit() for a key *)
(* is told that it was the first.                                          *)
THEOREM InsertsAreGrantedOnce == Spec => []GrantedOnce
<1>1. IInv => GrantedOnce
  <2> SUFFICES ASSUME IInv, NEW p \in Insert \X Key
               PROVE  granted[p] <= 1
    BY DEF GrantedOnce
  <2>1. PICK i \in Insert, k \in Key : p = <<i, k>>
    OBVIOUS
  <2>2. /\ granted[<<"accept", k>>] <= 1
        /\ granted[<<"reserve", k>>] <= 1
        /\ granted[<<"commit", k>>] <= 1
    BY DEF IInv, GrantsAreRows
  <2> QED BY <2>1, <2>2 DEF Insert
<1> QED BY <1>1, InvariantHolds, PTL

(* The rows that commit() writes are there as a whole or not at all.       *)
THEOREM CommitsAreWhole == Spec => []CommitIsWhole
<1>1. IInv => CommitIsWhole
  BY DEF IInv
<1> QED BY <1>1, InvariantHolds, PTL

(* Without two open transactions on its key a terminal execution is never  *)
(* changed and a delivered event stays delivered: the reads without a lock *)
(* are harmless there, and only there.                                     *)
THEOREM WhatNobodyContestsIsFinal == Spec => UncontestedIsFinal
<1> DEFINE Final(k) ==
      /\ execution[k] \in Terminal => execution'[k] = execution[k]
      /\ outbox[k] = "delivered" => outbox'[k] = "delivered"
<1>1. IInv /\ [Next]_vars => [\A k \in Key \ contested' : Final(k)]_vars
  <2> SUFFICES ASSUME IInv, Next, NEW k \in Key \ contested'
               PROVE  Final(k)
    OBVIOUS
  <2>1. PICK c \in Client :
          \/ \E kind \in Kind, x \in Key : Begin(c, kind, x)
          \/ Read(c) \/ LeaseOutbox(c) \/ Write(c) \/ Abort(c) \/ Publish(c)
    BY DEF Next
  <2>2. CASE ~Publish(c)
    BY <2>1, <2>2 DEF Begin, Read, LeaseOutbox, Write, Abort, Rollback, tables
  <2>3. CASE Publish(c)
    <3>1. CASE k # tx[c].key
      BY <2>3, <3>1, PublishChanges
    <3>2. CASE k = tx[c].key
      <4>1. k \notin contested
        BY <2>3 DEF Publish
      <4>2. IF tx[c].kind = "commit" THEN Mutable(k) ELSE ~Refused(tx[c].kind, k)
        BY <2>3, <3>2, <4>1 DEF IInv, TxInv, ReadStands, Publish
      <4>3. /\ execution'[k] = Status(tx[c].kind, execution[k])
            /\ outbox'[k] = Delivery(tx[c].kind, outbox[k])
        BY <2>3, <3>2 DEF Publish, IInv, NoLostUpdate, TypeOK
      <4>4. tx[c].kind \in Kind
        BY <2>3, PublishHolds
      <4>5. tx[c].kind = "commit" => outbox[k] = "absent"
        BY <2>3, <3>2, PublishHolds DEF IInv, CommitIsWhole
      <4>6. execution[k] \in Terminal => execution'[k] = execution[k]
        BY <4>2, <4>3, <4>4 DEF Status, Mutable, Terminal, Refused,
           AttemptRefused, TerminalRefused
      <4>7. outbox[k] = "delivered" => outbox'[k] = "delivered"
        BY <4>2, <4>3, <4>4, <4>5 DEF Delivery, Refused, NothingToLease,
           DeliveredRefused, FailedRefused, RedriveRefused
      <4> QED BY <4>6, <4>7
    <3> QED BY <3>1, <3>2
  <2> QED BY <2>2, <2>3
<1> QED BY <1>1, InvariantHolds, PTL DEF Spec, UncontestedIsFinal
=============================================================================
