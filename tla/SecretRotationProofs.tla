------------------------ MODULE SecretRotationProofs ------------------------
(***************************************************************************)
(* Proofs about the rotation of a secret, for any number of operations,    *)
(* requests, readers and versions.  RotationProxy by itself: the states of *)
(* an operation and what Secret Manager holds of it.  SecretRotation: the  *)
(* console's record of rotations agrees with the proxy's; what is proved   *)
(* about the proxy alone holds with its console.                           *)
(***************************************************************************)
EXTENDS MCSecretRotation, FiniteSetTheorems, SequenceTheorems, TLAPS

----------------------------------------------------------------------------
(* The proxy *)

\* The states an operation may be in after its last mutation.
StatesOf ==
  [stage |-> {"adding_version", "add_unknown", "staged", "failed"},
   finalize |-> {"finalizing", "finalize_unknown", "finalized"},
   cancel |-> {"canceling", "cancel_unknown", "canceled"}]

Fits(op) == op.state \in StatesOf[op.action]

StoreInv ==
  /\ \A o \in Ops : operation[o] # None => Fits(operation[o])
  /\ OneOperation
  /\ \A r \in Requests : reserved[r] # None => operation[reserved[r]] # None

HasPair(op) == op.old # None /\ op.new # None /\ op.old # op.new

\* The steps of a stage.
Staging == {"rejecting", "capturing", "adding", "recording"}

\* While an operation is pending, one handler works on it, and the versions that
\* handler saw enabled stay so until it disables one of them.
WorkerOK(r) ==
  /\ reserved[r] # None
  /\ worker[r].pc \in Staging => worker[r].action = "stage"
  /\ worker[r].action # "stage" => Work(r).action = worker[r].action
  /\ worker[r].pc # "done" /\ Work(r).state = Pending[worker[r].action]
       => Work(r).request = r
  /\ worker[r].pc \in {"disabling", "saving"}
       => worker[r].action # "stage" /\ HasPair(Work(r))
  /\ worker[r].pc = "listing" /\ worker[r].action # "stage"
       => \/ Work(r).state = Pending[worker[r].action]
          \/ GivenUp(Work(r)) \in Versions /\ version[GivenUp(Work(r))] = "disabled"
  /\ worker[r].pc = "disabling"
       => /\ Work(r).state = Pending[worker[r].action]
          /\ version[Work(r).old] = "enabled" /\ version[Work(r).new] = "enabled"
  /\ worker[r].pc = "saving" /\ Work(r).state = Pending[worker[r].action]
       => version[GivenUp(Work(r))] = "disabled" /\ version[Kept(Work(r))] = "enabled"

WorkerInv == \A r \in Requests : worker[r] # None => WorkerOK(r)

\* A reader that goes on has seen a pair that no longer changes; what it has
\* found disabled stays disabled, and what it has found enabled stays enabled as
\* long as the operation has not ended.
Open(x) == operation[reader[x].op].state \notin Terminal

ReaderOK(x) ==
  LET seen == reader[x].seen IN
  /\ operation[reader[x].op] # None
  /\ seen.action # "stage" /\ Fits(seen) /\ seen.state \notin Terminal
  /\ seen.old # None /\ seen.new # None
  /\ operation[reader[x].op].action = seen.action
  /\ operation[reader[x].op].old = seen.old
  /\ operation[reader[x].op].new = seen.new
  /\ reader[x].pc = "new" /\ seen.action = "finalize" => version[seen.old] = "disabled"
  /\ reader[x].pc = "new" /\ seen.action = "cancel" /\ Open(x) => version[seen.old] = "enabled"
  /\ reader[x].pc = "confirming" => version[GivenUp(seen)] = "disabled"
  /\ reader[x].pc = "confirming" /\ Open(x) => version[Kept(seen)] = "enabled"

ReaderInv == \A x \in Readers : reader[x] # None /\ reader[x].pc # "done" => ReaderOK(x)

ProxyInv ==
  /\ ProxyTypeOK
  /\ NeverWithoutCredential
  /\ StoreInv
  /\ WorkerInv
  /\ ReaderInv
----------------------------------------------------------------------------

LEMMA StateFacts ==
  /\ \A a \in Actions :
       /\ {Pending[a], Unknown[a], Done[a]} \subseteq StatesOf[a] \cap States
       /\ Pending[a] \notin Terminal /\ Unknown[a] \notin Terminal
       /\ a # "stage" => Done[a] \in {"finalized", "canceled"}
  /\ \A a, b \in Actions :
       /\ Pending[a] \notin {Unknown[b], Done[b]}
       /\ Pending[a] \in StatesOf[b] => a = b
  /\ "failed" \in States \cap Terminal \cap StatesOf["stage"]
  /\ Terminal \subseteq States
  /\ \A a \in Actions : Pending[a] # "failed"
BY DEF Actions, Pending, Unknown, Done, Terminal, States, StatesOf

\* The typed parts of the invariant, as later steps use them.
LEMMA WorkerFacts ==
  ASSUME ProxyInv, NEW r \in Requests, worker[r] # None
  PROVE  /\ worker[r] \in Worker /\ worker[r].action \in Actions
         /\ reserved[r] \in Ops /\ operation[reserved[r]] # None
         /\ Work(r) \in Operation /\ Fits(Work(r)) /\ Work(r).action \in Actions
         /\ Work(r).state = Pending[worker[r].action]
              => Work(r).action = worker[r].action /\ active = reserved[r]
<1>1. worker[r] \in Worker /\ worker[r].action \in Actions
  BY DEF ProxyInv, ProxyTypeOK, Worker
<1>2. reserved[r] \in Ops /\ operation[reserved[r]] # None
  BY DEF ProxyInv, ProxyTypeOK, WorkerInv, WorkerOK, StoreInv
<1>3. Work(r) \in Operation /\ Fits(Work(r)) /\ Work(r).action \in Actions
  BY <1>2 DEF ProxyInv, ProxyTypeOK, StoreInv, Work, Operation
<1>4. Work(r).state = Pending[worker[r].action]
        => Work(r).action = worker[r].action /\ active = reserved[r]
  BY <1>1, <1>2, <1>3, StateFacts DEF Fits, Work, ProxyInv, StoreInv, OneOperation
<1> QED BY <1>1, <1>2, <1>3, <1>4

\* A handler's step that may save its operation and may add a version, but
\* neither begins nor ends a disable.
LEMMA WorkerMoves ==
  ASSUME ProxyInv, NEW r \in Requests, worker[r] # None, worker[r].pc # "done",
         NEW w \in Worker, w.action = worker[r].action,
         w.pc \notin {"listing", "disabling", "saving"},
         w.pc \in Staging => w.action = "stage",
         worker' = [worker EXCEPT ![r] = w],
         UNCHANGED <<reserved, reader>>,
         version' \in [Versions -> {"absent", "enabled", "disabled"}],
         \A v \in Versions : version[v] # "absent" => version'[v] = version[v],
         NEW record \in Operation,
         record.action = Work(r).action, record.request = Work(r).request,
         worker[r].action # "stage" => record.old = Work(r).old /\ record.new = Work(r).new,
         Work(r).state = Pending[worker[r].action]
           => /\ Fits(record)
              /\ \A a \in Actions : record.state = Pending[a] => Work(r).state = Pending[a],
         \/ UNCHANGED <<operation, active>>
         \/ /\ Work(r).state = Pending[worker[r].action]
            /\ operation' = [operation EXCEPT ![reserved[r]] = record]
            /\ active' = IF active = reserved[r] /\ record.state \in Terminal
                         THEN None ELSE active
  PROVE  ProxyInv'
<1> DEFINE o == reserved[r]
<1>1. /\ o \in Ops /\ operation[o] # None /\ operation[o] = Work(r) /\ Work(r) \in Operation
      /\ worker[r].action \in Actions /\ worker[r] \in Worker
      /\ Work(r).state = Pending[worker[r].action]
           => Work(r).action = worker[r].action /\ active = o
  BY WorkerFacts DEF Work
<1>2. w # None /\ record # None
  BY ProxyRecords
<1>3. /\ worker'[r] = w /\ \A q \in Requests : q # r => worker'[q] = worker[q]
      /\ worker' \in [Requests -> Worker \cup {None}]
  BY DEF ProxyInv, ProxyTypeOK
<1>4. \A p \in Ops : p # o => operation'[p] = operation[p]
  BY DEF ProxyInv, ProxyTypeOK
<1>5. \/ operation'[o] = operation[o] /\ active' = active
      \/ /\ operation[o].state = Pending[worker[r].action] /\ operation'[o] = record
         /\ active' = IF active = o /\ record.state \in Terminal THEN None ELSE active
  BY <1>1 DEF ProxyInv, ProxyTypeOK
<1>6. ProxyTypeOK'
  BY <1>1, <1>3 DEF ProxyInv, ProxyTypeOK
<1>7. NeverWithoutCredential'
  BY DEF ProxyInv, ProxyTypeOK, NeverWithoutCredential, Enabled
<1>8. StoreInv'
  <2>1. \A p \in Ops : operation'[p] # None => Fits(operation'[p])
    BY <1>1, <1>4, <1>5 DEF ProxyInv, StoreInv
  <2>2. OneOperation'
    BY <1>1, <1>4, <1>5, StateFacts DEF ProxyInv, StoreInv, OneOperation
  <2>3. \A q \in Requests : reserved'[q] # None => operation'[reserved'[q]] # None
    BY <1>2, <1>4, <1>5, <1>6 DEF ProxyInv, StoreInv, ProxyTypeOK
  <2> QED BY <2>1, <2>2, <2>3 DEF StoreInv, Fits
<1>9. WorkerInv'
  <2> SUFFICES ASSUME NEW q \in Requests, worker'[q] # None
               PROVE  WorkerOK(q)'
    BY DEF WorkerInv
  <2>1. worker[q] # None /\ WorkerOK(q) /\ reserved[q] \in Ops /\ worker[q].action \in Actions
        /\ worker'[q].action = worker[q].action
    BY <1>3, WorkerFacts DEF ProxyInv, WorkerInv
  <2>2. operation'[reserved[q]].action = operation[reserved[q]].action
        /\ operation'[reserved[q]].request = operation[reserved[q]].request
    BY <1>1, <1>4, <1>5, <2>1
  <2>3. worker'[q].pc # "done" => worker[q].pc # "done"
    BY <1>3
  <2>4. worker'[q].pc \in {"listing", "disabling", "saving"} => q # r
    BY <1>3
  <2>5. operation'[reserved[q]].state = Pending[worker[q].action]
          => operation[reserved[q]].state = Pending[worker[q].action]
    BY <1>1, <1>4, <1>5, <2>1
  <2>6. worker[q].action # "stage"
          => /\ operation'[reserved[q]].old = operation[reserved[q]].old
             /\ operation'[reserved[q]].new = operation[reserved[q]].new
    <3>1. worker[q].action # "stage" => operation[reserved[q]].action # "stage"
      BY <2>1 DEF WorkerOK, Work
    <3> QED BY <1>1, <1>4, <1>5, <2>1, <3>1
  <2>7. worker[q].pc # "done" /\ q # r /\ Work(q).state = Pending[worker[q].action]
          => operation'[reserved[q]] = operation[reserved[q]]
    <3> SUFFICES ASSUME worker[q].pc # "done", q # r, reserved[q] = o,
                        Work(q).state = Pending[worker[q].action],
                        operation[o].state = Pending[worker[r].action]
                 PROVE  FALSE
      BY <1>4, <1>5, <2>1
    <3>1. Work(q).state = Pending[worker[q].action] /\ Work(q) = Work(r)
      BY DEF Work
    <3>2. worker[q].action = worker[r].action
      BY <1>1, <2>1, <3>1, WorkerFacts
    <3>3. Work(q).request = q
      BY <2>1, <3>1 DEF WorkerOK
    <3>4. Work(r).request = r
      BY <1>1 DEF ProxyInv, WorkerInv, WorkerOK, Work
    <3> QED BY <3>1, <3>3, <3>4
  <2>8. worker'[q].pc \in {"listing", "disabling", "saving"} => worker'[q] = worker[q]
    BY <1>3
  <2>9. /\ reserved'[q] # None
        /\ worker'[q].pc \in Staging => worker'[q].action = "stage"
        /\ worker'[q].action # "stage" => Work(q)'.action = worker'[q].action
        /\ worker'[q].pc # "done" /\ Work(q)'.state = Pending[worker'[q].action]
             => Work(q)'.request = q
    BY <1>3, <2>1, <2>2, <2>3, <2>5 DEF WorkerOK, Work
  <2>10. worker'[q].pc \in {"disabling", "saving"}
           => worker'[q].action # "stage" /\ HasPair(Work(q)')
    BY <2>1, <2>6, <2>8 DEF WorkerOK, Work, HasPair
  <2>11. worker[q].pc \in {"disabling", "saving"}
           => Work(q).old \in Versions /\ Work(q).new \in Versions
    BY <2>1, WorkerFacts DEF WorkerOK, HasPair, Operation
  <2>14. worker'[q].pc = "listing" /\ worker'[q].action # "stage"
           => \/ Work(q)'.state = Pending[worker'[q].action]
              \/ /\ GivenUp(Work(q)') \in Versions
                 /\ version'[GivenUp(Work(q)')] = "disabled"
    <3> SUFFICES ASSUME worker'[q].pc = "listing", worker'[q].action # "stage",
                        Work(q).state # Pending[worker[q].action]
                 PROVE  /\ GivenUp(Work(q)') \in Versions
                        /\ version'[GivenUp(Work(q)')] = "disabled"
      BY <2>1, <2>4, <2>7, <2>8 DEF Work
    <3>1. GivenUp(Work(q)) \in Versions /\ version[GivenUp(Work(q))] = "disabled"
      BY <2>1, <2>8 DEF WorkerOK
    <3>2. GivenUp(Work(q)') = GivenUp(Work(q))
      BY <2>1, <2>2, <2>6, <2>8 DEF GivenUp, Work
    <3> QED BY <3>1, <3>2
  <2>12. worker'[q].pc = "disabling"
           => /\ Work(q)'.state = Pending[worker'[q].action]
              /\ version'[Work(q)'.old] = "enabled" /\ version'[Work(q)'.new] = "enabled"
    BY <2>1, <2>4, <2>7, <2>8, <2>11 DEF WorkerOK, Work
  <2>13. worker'[q].pc = "saving" /\ Work(q)'.state = Pending[worker'[q].action]
           => version'[GivenUp(Work(q)')] = "disabled" /\ version'[Kept(Work(q)')] = "enabled"
    BY <2>1, <2>2, <2>5, <2>6, <2>8, <2>11 DEF WorkerOK, Work, GivenUp, Kept
  <2> QED BY <2>9, <2>10, <2>12, <2>13, <2>14 DEF WorkerOK, HasPair, Work, GivenUp, Kept
<1>10. ReaderInv'
  <2> SUFFICES ASSUME NEW x \in Readers, reader[x] # None, reader[x].pc # "done"
               PROVE  ReaderOK(x)'
    BY DEF ReaderInv
  <2>1. ReaderOK(x) /\ reader[x] \in Reader
    BY DEF ProxyInv, ReaderInv, ProxyTypeOK
  <2>2. reader[x].op \in Ops /\ reader[x].seen \in Operation
    BY <2>1 DEF Reader
  <2>3. /\ operation'[reader[x].op] # None
        /\ operation'[reader[x].op].action = operation[reader[x].op].action
        /\ operation'[reader[x].op].old = operation[reader[x].op].old
        /\ operation'[reader[x].op].new = operation[reader[x].op].new
    BY <1>1, <1>2, <1>4, <1>5, <2>1, <2>2 DEF ReaderOK
  <2>4. Open(x)' => Open(x)
    BY <1>1, <1>4, <1>5, <2>2, StateFacts DEF Open
  <2>5. reader[x].seen.old \in Versions /\ reader[x].seen.new \in Versions
    BY <2>1, <2>2 DEF ReaderOK, Operation
  <2> QED BY <2>1, <2>3, <2>4, <2>5 DEF ReaderOK, GivenUp, Kept, Fits
<1> QED BY <1>6, <1>7, <1>8, <1>9, <1>10 DEF ProxyInv

\* A version added by hand disturbs nothing.
LEMMA AddPreserves ==
  ASSUME ProxyInv, NEW v \in Versions, AddByHand(v)
  PROVE  ProxyInv'
<1>1. \A u \in Versions : version[u] # "absent" => version'[u] = version[u]
  BY DEF AddByHand, ProxyInv, ProxyTypeOK
<1>2. ProxyTypeOK' /\ NeverWithoutCredential' /\ StoreInv'
  BY <1>1 DEF AddByHand, ProxyInv, ProxyTypeOK, NeverWithoutCredential, Enabled, StoreInv,
              OneOperation, Fits
<1>3. WorkerInv'
  <2> SUFFICES ASSUME NEW q \in Requests, worker[q] # None
               PROVE  WorkerOK(q)'
    BY DEF WorkerInv, AddByHand
  <2>1. WorkerOK(q) /\ Work(q) \in Operation
    BY WorkerFacts DEF ProxyInv, WorkerInv
  <2>2. worker[q].pc \in {"disabling", "saving"}
          => Work(q).old \in Versions /\ Work(q).new \in Versions
    BY <2>1 DEF WorkerOK, HasPair, Operation
  <2> QED BY <1>1, <2>1, <2>2 DEF AddByHand, WorkerOK, HasPair, Work, GivenUp, Kept
<1>4. ReaderInv'
  <2> SUFFICES ASSUME NEW x \in Readers, reader[x] # None, reader[x].pc # "done"
               PROVE  ReaderOK(x)'
    BY DEF ReaderInv, AddByHand
  <2>1. ReaderOK(x) /\ reader[x].seen.old \in Versions /\ reader[x].seen.new \in Versions
    BY DEF ProxyInv, ReaderInv, ReaderOK, ProxyTypeOK, Reader, Operation
  <2> QED BY <1>1, <2>1 DEF AddByHand, ReaderOK, Open, Fits, GivenUp, Kept
<1> QED BY <1>2, <1>3, <1>4 DEF ProxyInv

LEMMA ReservePreserves ==
  ASSUME ProxyInv, NEW r \in Requests, NEW a \in Actions, NEW o \in Ops, Reserve(r, a, o)
  PROVE  ProxyInv'
<1> DEFINE record == [state |-> Pending[a], action |-> a, request |-> r,
                      old |-> IF a = "stage" THEN None ELSE operation[o].old,
                      new |-> IF a = "stage" THEN None ELSE operation[o].new]
<1>1. /\ reserved[r] = None
      /\ IF a = "stage" THEN operation[o] = None /\ active = None
                        ELSE operation[o] # None /\ operation[o].state = "staged"
      /\ reserved' = [reserved EXCEPT ![r] = o]
      /\ operation' = [operation EXCEPT ![o] = record]
      /\ active' = o
      /\ UNCHANGED <<version, reader>>
  BY DEF Reserve
<1>2. PICK pc \in {"listing", "done"} :
        worker' = [worker EXCEPT ![r] =
          [pc |-> pc, action |-> a, old |-> None, new |-> None, answer |-> "lost"]]
  BY DEF Reserve, Accepted
<1>3. record \in Operation /\ record # None
  <2>1. operation[o] \in Operation \cup {None}
    BY DEF ProxyInv, ProxyTypeOK
  <2> QED BY <1>1, <2>1, ProxyRecords, StateFacts DEF Operation
<1>4. /\ record.state = Pending[a] /\ record.action = a /\ record.request = r
      /\ a # "stage" => record.old = operation[o].old /\ record.new = operation[o].new
  OBVIOUS
<1> HIDE DEF record
<1>5. /\ operation'[o] = record
      /\ \A p \in Ops : p # o => operation'[p] = operation[p]
      /\ reserved'[r] = o
      /\ \A q \in Requests : q # r => reserved'[q] = reserved[q]
      /\ \A q \in Requests : q # r => worker'[q] = worker[q]
      /\ worker'[r].pc \in {"listing", "done"} /\ worker'[r].action = a
  BY <1>1, <1>2 DEF ProxyInv, ProxyTypeOK
<1>6. a # "stage" => operation[o].action = "stage"
  <2>1. a # "stage" => Fits(operation[o]) /\ operation[o].action \in Actions
    BY <1>1 DEF ProxyInv, StoreInv, ProxyTypeOK, Operation
  <2> QED BY <1>1, <2>1 DEF Fits, StatesOf, Actions
<1>7. ProxyTypeOK'
  <2>1. worker' \in [Requests -> Worker \cup {None}]
    BY <1>2 DEF ProxyInv, ProxyTypeOK, Worker
  <2> QED BY <1>1, <1>3, <2>1 DEF ProxyInv, ProxyTypeOK
<1>8. NeverWithoutCredential'
  BY <1>1 DEF ProxyInv, NeverWithoutCredential, Enabled
<1>9. StoreInv'
  <2>1. Fits(record)
    BY <1>4, StateFacts DEF Fits
  <2>2. OneOperation'
    <3>1. a # "stage" => active = o
      BY <1>1 DEF ProxyInv, StoreInv, OneOperation, Terminal
    <3> QED BY <1>1, <1>5, <3>1, ProxyNames DEF ProxyInv, StoreInv, OneOperation
  <2> QED BY <1>1, <1>3, <1>5, <2>1, <2>2 DEF ProxyInv, StoreInv, Fits
<1>10. WorkerInv'
  <2> SUFFICES ASSUME NEW q \in Requests, worker'[q] # None
               PROVE  WorkerOK(q)'
    BY DEF WorkerInv
  <2>1. CASE q = r
    BY <1>3, <1>4, <1>5, <2>1, ProxyNames DEF WorkerOK, Work, Staging
  <2>2. CASE q # r
    <3>1. WorkerOK(q) /\ worker[q] # None /\ reserved[q] \in Ops /\ operation[reserved[q]] # None
          /\ worker[q].action \in Actions
      BY <1>5, <2>2, WorkerFacts DEF ProxyInv, WorkerInv
    <3>2. CASE reserved[q] # o
      BY <1>1, <1>5, <2>2, <3>1, <3>2 DEF WorkerOK, Work, HasPair, GivenUp, Kept
    <3>3. CASE reserved[q] = o
      <4>1. a # "stage" /\ operation[o].action = "stage"
        BY <1>1, <1>6, <3>1, <3>3
      <4>2. worker[q].action = "stage"
        BY <3>1, <3>3, <4>1 DEF WorkerOK, Work
      <4>3. Pending[a] # Pending["stage"]
        BY <4>1, StateFacts DEF Actions
      <4> QED BY <1>4, <1>5, <2>2, <3>1, <3>3, <4>2, <4>3 DEF WorkerOK, Work
    <3> QED BY <3>2, <3>3
  <2> QED BY <2>1, <2>2
<1>11. ReaderInv'
  <2> SUFFICES ASSUME NEW x \in Readers, reader[x] # None, reader[x].pc # "done"
               PROVE  ReaderOK(x)'
    BY <1>1 DEF ReaderInv
  <2>1. ReaderOK(x) /\ reader[x].op \in Ops
    BY DEF ProxyInv, ReaderInv, ProxyTypeOK, Reader
  <2>2. reader[x].op # o
    BY <1>1, <1>6, <2>1 DEF ReaderOK
  <2> QED BY <1>1, <1>5, <2>1, <2>2 DEF ReaderOK, Open, Fits, GivenUp, Kept
<1> QED BY <1>7, <1>8, <1>9, <1>10, <1>11 DEF ProxyInv

----------------------------------------------------------------------------
(* The steps of a handler *)

\* What WorkerMoves asks of a step that saves nothing.
LEMMA WorkerOnly ==
  ASSUME ProxyInv, NEW r \in Requests, worker[r] # None, worker[r].pc # "done",
         NEW w \in Worker, w.action = worker[r].action,
         w.pc \notin {"listing", "disabling", "saving"},
         w.pc \in Staging => w.action = "stage",
         worker' = [worker EXCEPT ![r] = w],
         UNCHANGED <<operation, active, reserved, reader>>,
         version' \in [Versions -> {"absent", "enabled", "disabled"}],
         \A v \in Versions : version[v] # "absent" => version'[v] = version[v]
  PROVE  ProxyInv'
<1>1. Work(r) \in Operation /\ Fits(Work(r))
  BY WorkerFacts
<1> QED BY <1>1, WorkerMoves

\* What WorkerMoves asks of a step that saves its operation.
LEMMA WorkerUpdatePreserves ==
  ASSUME ProxyInv, NEW r \in Requests, worker[r] # None, worker[r].pc # "done",
         NEW next \in {"adding", "done"}, next = "adding" => worker[r].action = "stage", NEW record \in Operation,
         WorkerUpdate(r, record, next), UNCHANGED <<reserved, version, reader>>,
         record.action = Work(r).action, record.request = Work(r).request,
         worker[r].action # "stage" => record.old = Work(r).old /\ record.new = Work(r).new,
         Work(r).state = Pending[worker[r].action]
           => /\ Fits(record)
              /\ \A a \in Actions : record.state = Pending[a] => Work(r).state = Pending[a]
  PROVE  ProxyInv'
<1>1. worker[r] \in Worker /\ reserved[r] \in Ops /\ Work(r) \in Operation
  BY WorkerFacts
<1>2. \/ UNCHANGED <<operation, active>>
      \/ /\ Work(r).state = Pending[worker[r].action]
         /\ operation' = [operation EXCEPT ![reserved[r]] = record]
         /\ active' = IF active = reserved[r] /\ record.state \in Terminal
                      THEN None ELSE active
  BY DEF WorkerUpdate, Update, Work
<1>3. operation'[reserved[r]].state \in States
  <2>1. operation'[reserved[r]] = record \/ operation'[reserved[r]] = Work(r)
    BY <1>1, <1>2 DEF Work, ProxyInv, ProxyTypeOK
  <2> QED BY <1>1, <2>1 DEF Operation
<1>4. \E w \in Worker : /\ w.action = worker[r].action
                        /\ w.pc \in {next, "failing"}
                        /\ worker' = [worker EXCEPT ![r] = w]
  <2>1. CASE worker' = [worker EXCEPT ![r].pc = next, ![r].answer = operation'[reserved[r]].state]
    <3> DEFINE w == [worker[r] EXCEPT !.pc = next, !.answer = operation'[reserved[r]].state]
    <3>1. w \in Worker /\ w.action = worker[r].action /\ w.pc = next
      BY <1>1, <1>3 DEF Worker
    <3>2. worker' = [worker EXCEPT ![r] = w]
      BY <2>1 DEF ProxyInv, ProxyTypeOK
    <3> QED BY <3>1, <3>2
  <2>2. CASE worker' = [worker EXCEPT ![r].pc = "failing"]
    <3> DEFINE w == [worker[r] EXCEPT !.pc = "failing"]
    <3>1. w \in Worker /\ w.action = worker[r].action /\ w.pc = "failing"
      BY <1>1 DEF Worker
    <3>2. worker' = [worker EXCEPT ![r] = w]
      BY <2>2 DEF ProxyInv, ProxyTypeOK
    <3> QED BY <3>1, <3>2
  <2> QED BY <2>1, <2>2 DEF WorkerUpdate
<1>5. version' \in [Versions -> {"absent", "enabled", "disabled"}]
  BY DEF ProxyInv, ProxyTypeOK
<1>6. PICK w \in Worker : /\ w.action = worker[r].action
                         /\ w.pc \in {next, "failing"}
                         /\ worker' = [worker EXCEPT ![r] = w]
  BY <1>4
<1>7. w.pc \notin {"listing", "disabling", "saving"} /\ (w.pc \in Staging => w.action = "stage")
  BY <1>6 DEF Staging
<1>8. \A v \in Versions : version[v] # "absent" => version'[v] = version[v]
  OBVIOUS
<1> QED BY <1>2, <1>5, <1>6, <1>7, <1>8, WorkerMoves

\* Listing chooses the version a stage will replace, or finds the pair that
\* finalize and cancel need; a disable begins with both of the pair enabled.
LEMMA ListPreserves ==
  ASSUME ProxyInv, NEW r \in Requests,
         ListFails(r) \/ ListForStage(r) \/ ListForDisable(r)
  PROVE  ProxyInv'
<1>1. /\ worker[r] # None /\ worker[r].pc = "listing"
      /\ UNCHANGED <<operation, active, reserved, version, reader>>
  BY DEF ListFails, ListForStage, ListForDisable, At
<1>2. /\ worker[r] \in Worker /\ reserved[r] \in Ops /\ Work(r) \in Operation
      /\ worker[r].action \in Actions
  BY <1>1, WorkerFacts
<1>3. version' \in [Versions -> {"absent", "enabled", "disabled"}]
  BY <1>1 DEF ProxyInv, ProxyTypeOK
<1>4. ASSUME NEW pc \in {"failing", "rejecting"}, worker' = [worker EXCEPT ![r].pc = pc],
             pc = "rejecting" => worker[r].action = "stage"
      PROVE  ProxyInv'
  <2> DEFINE w == [worker[r] EXCEPT !.pc = pc]
  <2>1. w \in Worker /\ w.action = worker[r].action /\ w.pc = pc
    BY <1>2 DEF Worker
  <2>2. worker' = [worker EXCEPT ![r] = w]
    BY <1>4 DEF ProxyInv, ProxyTypeOK
  <2> HIDE DEF w
  <2> QED BY <1>1, <1>3, <1>4, <2>1, <2>2, WorkerOnly DEF Staging
<1>5. ASSUME NEW v \in Versions, worker[r].action = "stage",
             worker' = [worker EXCEPT ![r].pc = "capturing", ![r].old = v]
      PROVE  ProxyInv'
  <2> DEFINE w == [worker[r] EXCEPT !.pc = "capturing", !.old = v]
  <2>1. w \in Worker /\ w.action = worker[r].action /\ w.pc = "capturing"
    BY <1>2 DEF Worker
  <2>2. worker' = [worker EXCEPT ![r] = w]
    BY <1>5 DEF ProxyInv, ProxyTypeOK
  <2> HIDE DEF w
  <2> QED BY <1>1, <1>3, <1>5, <2>1, <2>2, WorkerOnly DEF Staging
<1>6. ASSUME worker[r].action # "stage", None \notin {Work(r).old, Work(r).new},
             Cardinality({Work(r).old, Work(r).new}) = 2,
             Enabled = {Work(r).old, Work(r).new},
             worker' = [worker EXCEPT ![r].pc = "disabling"]
      PROVE  ProxyInv'
  <2> DEFINE w == [worker[r] EXCEPT !.pc = "disabling"]
  <2>1. w \in Worker /\ w.action = worker[r].action /\ w.pc = "disabling"
    BY <1>2 DEF Worker
  <2>2. worker' = [worker EXCEPT ![r] = w]
    BY <1>6 DEF ProxyInv, ProxyTypeOK
  <2> HIDE DEF w
  <2>3. /\ worker'[r] = w /\ \A q \in Requests : q # r => worker'[q] = worker[q]
        /\ worker' \in [Requests -> Worker \cup {None}]
    BY <2>1, <2>2 DEF ProxyInv, ProxyTypeOK
  <2>4. HasPair(Work(r))
    <3>1. ASSUME Work(r).old = Work(r).new
          PROVE  FALSE
      <4>1. {Work(r).old, Work(r).new} = {Work(r).old}
        BY <3>1
      <4>2. Cardinality({Work(r).old}) = 1
        BY FS_Singleton
      <4> QED BY <1>6, <4>1, <4>2
    <3> QED BY <1>6, <3>1 DEF HasPair
  <2>5. /\ Work(r).old \in Versions /\ Work(r).new \in Versions
        /\ version[Work(r).old] = "enabled" /\ version[Work(r).new] = "enabled"
    BY <1>6 DEF Enabled
  <2>6. Work(r).state = Pending[worker[r].action]
    BY <1>1, <1>6, <2>5 DEF ProxyInv, WorkerInv, WorkerOK, GivenUp
  <2>7. ProxyTypeOK' /\ NeverWithoutCredential' /\ StoreInv' /\ ReaderInv'
    BY <1>1, <2>3 DEF ProxyInv, ProxyTypeOK, NeverWithoutCredential, Enabled, StoreInv,
                      OneOperation, ReaderInv, ReaderOK, Open, Fits, GivenUp, Kept
  <2>8. WorkerInv'
    <3> SUFFICES ASSUME NEW q \in Requests, worker'[q] # None
                 PROVE  WorkerOK(q)'
      BY DEF WorkerInv
    <3>1. CASE q = r
      BY <1>1, <1>6, <2>1, <2>3, <2>4, <2>5, <2>6, <3>1
         DEF ProxyInv, WorkerInv, WorkerOK, Work, HasPair, Staging
    <3>2. CASE q # r
      BY <1>1, <2>3, <3>2 DEF ProxyInv, WorkerInv, WorkerOK, Work, HasPair, GivenUp, Kept
    <3> QED BY <3>1, <3>2
  <2> QED BY <2>7, <2>8 DEF ProxyInv
<1>7. CASE ListFails(r)
  BY <1>4, <1>7 DEF ListFails
<1>8. CASE ListForStage(r)
  BY <1>4, <1>5, <1>8 DEF ListForStage, Enabled
<1>9. CASE ListForDisable(r)
  BY <1>4, <1>6, <1>9 DEF ListForDisable
<1> QED BY <1>7, <1>8, <1>9

LEMMA AddVersionPreserves ==
  ASSUME ProxyInv, NEW r \in Requests, Add(r)
  PROVE  ProxyInv'
<1>1. /\ worker[r] # None /\ worker[r].pc = "adding"
      /\ UNCHANGED <<operation, active, reserved, reader>>
  BY DEF Add, At
<1>2. worker[r] \in Worker
  BY <1>1, WorkerFacts
<1>3. /\ version' \in [Versions -> {"absent", "enabled", "disabled"}]
      /\ \A v \in Versions : version[v] # "absent" => version'[v] = version[v]
  BY DEF Add, ProxyInv, ProxyTypeOK
<1>4. \E w \in Worker : /\ w.action = worker[r].action
                        /\ w.pc \in {"recording", "failing"}
                        /\ worker' = [worker EXCEPT ![r] = w]
  <2>1. CASE worker' = [worker EXCEPT ![r].pc = "failing"]
    <3> DEFINE w == [worker[r] EXCEPT !.pc = "failing"]
    <3>1. w \in Worker /\ w.action = worker[r].action /\ w.pc = "failing"
      BY <1>2 DEF Worker
    <3>2. worker' = [worker EXCEPT ![r] = w]
      BY <2>1 DEF ProxyInv, ProxyTypeOK
    <3> QED BY <3>1, <3>2
  <2>2. ASSUME NEW v \in Versions,
               worker' = [worker EXCEPT ![r].pc = "recording", ![r].new = v]
        PROVE  \E w \in Worker : /\ w.action = worker[r].action
                                 /\ w.pc \in {"recording", "failing"}
                                 /\ worker' = [worker EXCEPT ![r] = w]
    <3> DEFINE w == [worker[r] EXCEPT !.pc = "recording", !.new = v]
    <3>1. w \in Worker /\ w.action = worker[r].action /\ w.pc = "recording"
      BY <1>2 DEF Worker
    <3>2. worker' = [worker EXCEPT ![r] = w]
      BY <2>2 DEF ProxyInv, ProxyTypeOK
    <3> QED BY <3>1, <3>2
  <2> QED BY <2>1, <2>2 DEF Add
<1>5. PICK w \in Worker : /\ w.action = worker[r].action
                         /\ w.pc \in {"recording", "failing"}
                         /\ worker' = [worker EXCEPT ![r] = w]
  BY <1>4
<1>6. worker[r].pc # "done" /\ w.pc \notin {"listing", "disabling", "saving"}
  BY <1>1, <1>5
<1>7. w.pc \in Staging => w.action = "stage"
  BY <1>1, <1>5 DEF ProxyInv, WorkerInv, WorkerOK, Staging
<1> QED BY <1>1, <1>3, <1>5, <1>6, <1>7, WorkerOnly

\* The four steps that save the operation through an update.
LEMMA SavePreserves ==
  ASSUME ProxyInv, NEW r \in Requests,
         RejectStage(r) \/ CaptureOld(r) \/ RecordStaged(r) \/ SaveDone(r)
  PROVE  ProxyInv'
<1>1. /\ worker[r] # None /\ worker[r].pc # "done" /\ UNCHANGED <<reserved, version, reader>>
  BY DEF RejectStage, CaptureOld, RecordStaged, SaveDone, At
<1>2. /\ worker[r] \in Worker /\ Work(r) \in Operation /\ worker[r].action \in Actions
      /\ Work(r).state = Pending[worker[r].action] => Work(r).action = worker[r].action
      /\ worker[r].old \in Versions \cup {None} /\ worker[r].new \in Versions \cup {None}
  BY <1>1, WorkerFacts DEF Worker
<1>3. CASE RejectStage(r)
  <2> DEFINE record == [Work(r) EXCEPT !.state = "failed"]
  <2>1. record \in Operation
    BY <1>2, StateFacts DEF Operation
  <2>2. /\ record.action = Work(r).action /\ record.request = Work(r).request
        /\ record.old = Work(r).old /\ record.new = Work(r).new /\ record.state = "failed"
    BY <1>2 DEF Operation
  <2>3. worker[r].action = "stage"
    BY <1>1, <1>3 DEF RejectStage, At, ProxyInv, WorkerInv, WorkerOK, Staging
  <2>4. Work(r).state = Pending[worker[r].action]
          => /\ Fits(record)
             /\ \A a \in Actions : record.state = Pending[a] => Work(r).state = Pending[a]
    BY <1>2, <2>2, <2>3, StateFacts DEF Fits
  <2>5. WorkerUpdate(r, record, "done")
    BY <1>3 DEF RejectStage
  <2> HIDE DEF record
  <2> QED BY <1>1, <2>1, <2>2, <2>3, <2>4, <2>5, WorkerUpdatePreserves
<1>4. CASE CaptureOld(r)
  <2> DEFINE record == [Work(r) EXCEPT !.old = worker[r].old]
  <2>1. record \in Operation
    BY <1>2 DEF Operation
  <2>2. /\ record.action = Work(r).action /\ record.request = Work(r).request
        /\ record.state = Work(r).state
    BY <1>2 DEF Operation
  <2>3. worker[r].action = "stage"
    BY <1>1, <1>4 DEF CaptureOld, At, ProxyInv, WorkerInv, WorkerOK, Staging
  <2>4. Fits(record)
    BY <1>1, <2>2, WorkerFacts DEF Fits
  <2>5. WorkerUpdate(r, record, "adding")
    BY <1>4 DEF CaptureOld
  <2> HIDE DEF record
  <2> QED BY <1>1, <2>1, <2>2, <2>3, <2>4, <2>5, WorkerUpdatePreserves
<1>5. CASE RecordStaged(r)
  <2> DEFINE record == [Work(r) EXCEPT !.state = "staged", !.old = worker[r].old,
                                       !.new = worker[r].new]
  <2>1. record \in Operation
    BY <1>2 DEF Operation, States, Done, Actions
  <2>2. /\ record.action = Work(r).action /\ record.request = Work(r).request
        /\ record.state = "staged"
    BY <1>2 DEF Operation
  <2>3. worker[r].action = "stage"
    BY <1>1, <1>5 DEF RecordStaged, At, ProxyInv, WorkerInv, WorkerOK, Staging
  <2>4. Work(r).state = Pending[worker[r].action]
          => /\ Fits(record)
             /\ \A a \in Actions : record.state = Pending[a] => Work(r).state = Pending[a]
    BY <1>2, <2>2, <2>3 DEF Fits, StatesOf, Actions, Pending
  <2>5. WorkerUpdate(r, record, "done")
    BY <1>5 DEF RecordStaged
  <2> HIDE DEF record
  <2> QED BY <1>1, <2>1, <2>2, <2>3, <2>4, <2>5, WorkerUpdatePreserves
<1>6. CASE SaveDone(r)
  <2> DEFINE record == [Work(r) EXCEPT !.state = Done[worker[r].action]]
  <2>1. record \in Operation
    BY <1>2, StateFacts DEF Operation
  <2>2. /\ record.action = Work(r).action /\ record.request = Work(r).request
        /\ record.old = Work(r).old /\ record.new = Work(r).new
        /\ record.state = Done[worker[r].action]
    BY <1>2 DEF Operation
  <2>3. Work(r).state = Pending[worker[r].action]
          => /\ Fits(record)
             /\ \A a \in Actions : record.state = Pending[a] => Work(r).state = Pending[a]
    BY <1>2, <2>2, StateFacts DEF Fits
  <2>4. WorkerUpdate(r, record, "done")
    BY <1>6 DEF SaveDone
  <2> HIDE DEF record
  <2> QED BY <1>1, <2>1, <2>2, <2>3, <2>4, WorkerUpdatePreserves
<1> QED BY <1>3, <1>4, <1>5, <1>6

LEMMA FailPreserves ==
  ASSUME ProxyInv, NEW r \in Requests, Fail(r)
  PROVE  ProxyInv'
<1> DEFINE record == [Work(r) EXCEPT !.state = Unknown[worker[r].action],
                                     !.old = IF worker[r].action = "stage"
                                             THEN worker[r].old ELSE @]
<1>1. /\ worker[r] # None /\ worker[r].pc = "failing" /\ UNCHANGED <<reserved, version, reader>>
  BY DEF Fail, At
<1>2. /\ worker[r] \in Worker /\ Work(r) \in Operation /\ worker[r].action \in Actions
      /\ reserved[r] \in Ops
      /\ Work(r).state = Pending[worker[r].action] => Work(r).action = worker[r].action
      /\ worker[r].old \in Versions \cup {None}
  BY <1>1, WorkerFacts DEF Worker
<1>3. record \in Operation
  BY <1>2, StateFacts DEF Operation
<1>4. /\ record.action = Work(r).action /\ record.request = Work(r).request
      /\ record.state = Unknown[worker[r].action]
      /\ worker[r].action # "stage" => record.old = Work(r).old /\ record.new = Work(r).new
  BY <1>2 DEF Operation
<1>5. Work(r).state = Pending[worker[r].action]
        => /\ Fits(record)
           /\ \A a \in Actions : record.state = Pending[a] => Work(r).state = Pending[a]
  BY <1>2, <1>4, StateFacts DEF Fits
<1>6. \/ UNCHANGED <<operation, active>>
      \/ Update(reserved[r], record, Pending[worker[r].action])
  BY DEF Fail
<1>7. \E answer : worker' = [worker EXCEPT ![r].pc = "done", ![r].answer = answer]
                 /\ answer \in States
  <2>1. Unknown[worker[r].action] \in States
    BY <1>2, StateFacts
  <2>2. operation'[reserved[r]].state \in States
    <3>1. operation'[reserved[r]] = record \/ operation'[reserved[r]] = Work(r)
      BY <1>2, <1>6 DEF Update, Work, ProxyInv, ProxyTypeOK
    <3> QED BY <1>2, <1>3, <3>1 DEF Operation
  <2> QED BY <2>1, <2>2 DEF Fail
<1> HIDE DEF record
<1>8. PICK answer \in States :
        worker' = [worker EXCEPT ![r].pc = "done", ![r].answer = answer]
  BY <1>7
<1> DEFINE w == [worker[r] EXCEPT !.pc = "done", !.answer = answer]
<1>9. w \in Worker /\ w.action = worker[r].action /\ w.pc = "done"
  BY <1>2 DEF Worker
<1>10. worker' = [worker EXCEPT ![r] = w]
  BY <1>8 DEF ProxyInv, ProxyTypeOK
<1> HIDE DEF w
<1>11. \/ UNCHANGED <<operation, active>>
       \/ /\ Work(r).state = Pending[worker[r].action]
          /\ operation' = [operation EXCEPT ![reserved[r]] = record]
          /\ active' = IF active = reserved[r] /\ record.state \in Terminal
                       THEN None ELSE active
  BY <1>6 DEF Update, Work
<1>12. version' \in [Versions -> {"absent", "enabled", "disabled"}]
  BY <1>1 DEF ProxyInv, ProxyTypeOK
<1>13. \A v \in Versions : version[v] # "absent" => version'[v] = version[v]
  BY <1>1
<1>14. w.pc \notin {"listing", "disabling", "saving"} /\ (w.pc \in Staging => w.action = "stage")
  BY <1>9 DEF Staging
<1>15. worker[r].pc # "done"
  BY <1>1
<1> QED
  BY <1>1, <1>3, <1>4, <1>5, <1>9, <1>10, <1>11, <1>12, <1>13, <1>14, <1>15, WorkerMoves

\* While one handler disables, no other handler of a pending operation exists.
LEMMA SoleHandler ==
  ASSUME ProxyInv, NEW r \in Requests, NEW q \in Requests,
         worker[r] # None, worker[r].pc # "done", worker[q] # None, worker[q].pc # "done",
         Work(r).state = Pending[worker[r].action], Work(q).state = Pending[worker[q].action]
  PROVE  q = r
<1>1. Work(r).request = r /\ Work(q).request = q
  BY DEF ProxyInv, WorkerInv, WorkerOK
<1>2. reserved[r] = reserved[q]
  BY WorkerFacts
<1> QED BY <1>1, <1>2 DEF Work

LEMMA DisablePreserves ==
  ASSUME ProxyInv, NEW r \in Requests, Disable(r)
  PROVE  ProxyInv'
<1> DEFINE target == IF worker[r].action = "finalize" THEN Work(r).old ELSE Work(r).new
           kept == IF worker[r].action = "finalize" THEN Work(r).new ELSE Work(r).old
<1>1. /\ worker[r] # None /\ worker[r].pc = "disabling"
      /\ UNCHANGED <<operation, active, reserved, reader>>
  BY DEF Disable, At
<1>2. /\ worker[r] \in Worker /\ worker[r].action \in Actions /\ Work(r) \in Operation
      /\ reserved[r] \in Ops
  BY <1>1, WorkerFacts
<1>3. /\ worker[r].action # "stage" /\ HasPair(Work(r))
      /\ Work(r).action = worker[r].action
      /\ Work(r).state = Pending[worker[r].action]
      /\ version[Work(r).old] = "enabled" /\ version[Work(r).new] = "enabled"
  BY <1>1 DEF ProxyInv, WorkerInv, WorkerOK
<1>4. /\ target \in Versions /\ kept \in Versions /\ target # kept
      /\ target = GivenUp(Work(r)) /\ kept = Kept(Work(r))
      /\ version[kept] = "enabled"
  BY <1>2, <1>3 DEF HasPair, Operation, GivenUp, Kept
<1>5. active = reserved[r] /\ Work(r).state \notin Terminal
  BY <1>1, <1>2, <1>3, WorkerFacts, StateFacts
<1> HIDE DEF target, kept
<1>6. CASE version' = [version EXCEPT ![target] = "disabled"]
  <2>1. PICK pc \in {"saving", "failing"} : worker' = [worker EXCEPT ![r].pc = pc]
    BY DEF Disable
  <2> DEFINE w == [worker[r] EXCEPT !.pc = pc]
  <2>2. w \in Worker /\ w.action = worker[r].action /\ w.pc = pc
    BY <1>2 DEF Worker
  <2>3. /\ worker'[r] = w /\ \A q \in Requests : q # r => worker'[q] = worker[q]
        /\ worker' \in [Requests -> Worker \cup {None}]
    BY <2>1, <2>2 DEF ProxyInv, ProxyTypeOK
  <2> HIDE DEF w
  <2>4. /\ version' \in [Versions -> {"absent", "enabled", "disabled"}]
        /\ version'[target] = "disabled"
        /\ \A v \in Versions : v # target => version'[v] = version[v]
    BY <1>4, <1>6 DEF ProxyInv, ProxyTypeOK
  <2>5. \A v \in Versions : version[v] = "disabled" => version'[v] = "disabled"
    BY <2>4
  <2>6. ProxyTypeOK' /\ StoreInv'
    BY <1>1, <2>3, <2>4 DEF ProxyInv, ProxyTypeOK, StoreInv, OneOperation, Fits
  <2>7. NeverWithoutCredential'
    BY <1>4, <2>4 DEF NeverWithoutCredential, Enabled
  <2>8. WorkerInv'
    <3> SUFFICES ASSUME NEW q \in Requests, worker'[q] # None
                 PROVE  WorkerOK(q)'
      BY DEF WorkerInv
    <3>1. CASE q = r
      <4>1. WorkerOK(r)
        BY <1>1 DEF ProxyInv, WorkerInv
      <4>2. version'[GivenUp(Work(r))] = "disabled" /\ version'[Kept(Work(r))] = "enabled"
        BY <1>4, <2>4
      <4> QED BY <1>1, <1>3, <2>1, <2>2, <2>3, <3>1, <4>1, <4>2
                 DEF WorkerOK, Work, HasPair, GivenUp, Kept, Staging
    <3>2. CASE q # r
      <4>1. WorkerOK(q) /\ worker[q] # None /\ worker'[q] = worker[q]
        BY <2>3, <3>2 DEF ProxyInv, WorkerInv
      <4>2. worker[q].pc # "done" => Work(q).state # Pending[worker[q].action]
        BY <1>1, <1>3, <3>2, <4>1, SoleHandler
      <4> QED BY <1>1, <2>5, <4>1, <4>2 DEF WorkerOK, Work, HasPair, GivenUp, Kept
    <3> QED BY <3>1, <3>2
  <2>9. ReaderInv'
    <3> SUFFICES ASSUME NEW x \in Readers, reader[x] # None, reader[x].pc # "done"
                 PROVE  ReaderOK(x)'
      BY <1>1 DEF ReaderInv
    <3>1. ReaderOK(x) /\ reader[x].op \in Ops
          /\ reader[x].seen.old \in Versions /\ reader[x].seen.new \in Versions
      BY DEF ProxyInv, ReaderInv, ReaderOK, ProxyTypeOK, Reader, Operation
    <3>2. Open(x) => Work(r).old = reader[x].seen.old /\ Work(r).new = reader[x].seen.new
                     /\ Work(r).action = reader[x].seen.action
      BY <1>5, <3>1 DEF Open, ReaderOK, ProxyInv, StoreInv, OneOperation, Work
    <3>3. Open(x) => version'[Kept(reader[x].seen)] = version[Kept(reader[x].seen)]
      BY <1>4, <2>4, <3>1, <3>2 DEF GivenUp, Kept
    <3> QED BY <1>1, <2>5, <3>1, <3>3 DEF ReaderOK, Open, Fits, GivenUp, Kept
  <2> QED BY <2>6, <2>7, <2>8, <2>9 DEF ProxyInv
<1>7. CASE worker' = [worker EXCEPT ![r].pc = "failing"] /\ UNCHANGED version
  <2> DEFINE w == [worker[r] EXCEPT !.pc = "failing"]
  <2>1. w \in Worker /\ w.action = worker[r].action /\ w.pc = "failing"
    BY <1>2 DEF Worker
  <2>2. worker' = [worker EXCEPT ![r] = w]
    BY <1>7 DEF ProxyInv, ProxyTypeOK
  <2>3. version' \in [Versions -> {"absent", "enabled", "disabled"}]
    BY <1>7 DEF ProxyInv, ProxyTypeOK
  <2> HIDE DEF w
  <2> QED BY <1>1, <1>7, <2>1, <2>2, <2>3, WorkerOnly DEF Staging
<1> QED BY <1>6, <1>7 DEF Disable, target

----------------------------------------------------------------------------
(* The steps of a reader *)

\* A reader's step that saves nothing.
LEMMA ReaderMoves ==
  ASSUME ProxyInv, NEW x \in Readers, reader' \in [Readers -> Reader \cup {None}],
         \A z \in Readers : z # x => reader'[z] = reader[z],
         UNCHANGED <<operation, active, reserved, version, worker>>,
         reader'[x] # None /\ reader'[x].pc # "done" => ReaderOK(x)'
  PROVE  ProxyInv'
<1>1. ProxyTypeOK' /\ NeverWithoutCredential' /\ StoreInv' /\ WorkerInv'
  BY DEF ProxyInv, ProxyTypeOK, NeverWithoutCredential, Enabled, StoreInv, OneOperation,
         WorkerInv, WorkerOK, Fits, HasPair, Work, GivenUp, Kept
<1>2. ReaderInv'
  <2> SUFFICES ASSUME NEW z \in Readers, reader'[z] # None, reader'[z].pc # "done"
               PROVE  ReaderOK(z)'
    BY DEF ReaderInv
  <2>1. CASE z # x
    BY <2>1 DEF ProxyInv, ReaderInv, ReaderOK, Open, Fits, GivenUp, Kept
  <2> QED BY <2>1
<1> QED BY <1>1, <1>2 DEF ProxyInv

LEMMA ReaderFacts ==
  ASSUME ProxyInv, NEW x \in Readers, reader[x] # None
  PROVE  /\ reader[x] \in Reader /\ reader[x].op \in Ops
         /\ reader[x].seen \in Operation /\ reader[x].seen.action \in Actions
         /\ reader[x].pc # "done" => ReaderOK(x)
         /\ reader[x].pc # "done"
              => reader[x].seen.old \in Versions /\ reader[x].seen.new \in Versions
BY DEF ProxyInv, ProxyTypeOK, ReaderInv, ReaderOK, Reader, Operation

LEMMA ReadPreserves ==
  ASSUME ProxyInv, NEW x \in Readers, NEW o \in Ops, Read(x, o)
  PROVE  ProxyInv'
<1> DEFINE y == [op |-> o, seen |-> operation[o],
                 pc |-> IF Reconcilable(operation[o]) THEN "old" ELSE "done",
                 answer |-> Unconfirmed(operation[o])]
<1>1. /\ operation[o] \in Operation /\ operation[o] # None /\ Fits(operation[o])
      /\ operation[o].action \in Actions
  BY DEF Read, ProxyInv, ProxyTypeOK, StoreInv, Operation
<1>2. Unconfirmed(operation[o]) \in States
  BY <1>1, StateFacts DEF Unconfirmed, Operation
<1>3. y \in Reader /\ y.op = o /\ y.seen = operation[o]
      /\ y.pc = IF Reconcilable(operation[o]) THEN "old" ELSE "done"
  BY <1>1, <1>2 DEF Reader
<1>4. reader' = [reader EXCEPT ![x] = y]
  BY DEF Read
<1> HIDE DEF y
<1>5. /\ reader' \in [Readers -> Reader \cup {None}] /\ reader'[x] = y
      /\ \A z \in Readers : z # x => reader'[z] = reader[z]
  BY <1>3, <1>4 DEF ProxyInv, ProxyTypeOK
<1>6. UNCHANGED <<operation, active, reserved, version, worker>>
  BY DEF Read
<1>7. y.pc # "done" => ReaderOK(x)'
  <2>1. Reconcilable(operation[o])
          => /\ operation[o].action # "stage" /\ operation[o].state \notin Terminal
             /\ operation[o].old # None /\ operation[o].new # None
    BY <1>1 DEF Reconcilable, Terminal, Fits, StatesOf, Actions
  <2> QED BY <1>1, <1>3, <1>5, <1>6, <2>1 DEF ReaderOK, Fits
<1> QED BY <1>5, <1>6, <1>7, ReaderMoves

\* Each get goes on only with what the version's state shows.
LEMMA GetPreserves ==
  ASSUME ProxyInv, NEW x \in Readers, GetFirst(x) \/ GetSecond(x) \/ Forget(x)
  PROVE  ProxyInv'
<1>1. /\ reader[x] # None /\ UNCHANGED <<operation, active, reserved, version, worker>>
  BY DEF GetFirst, GetSecond, Forget, Reads
<1>2. /\ reader[x] \in Reader /\ reader[x].seen.action \in Actions
      /\ reader[x].pc # "done" => ReaderOK(x)
  BY <1>1, ReaderFacts
<1>3. ASSUME NEW pc \in {"new", "confirming", "done"}, reader[x].pc # "done",
             reader' = [reader EXCEPT ![x].pc = pc],
             pc = "new" => IF reader[x].seen.action = "finalize"
                           THEN version[reader[x].seen.old] = "disabled"
                           ELSE version[reader[x].seen.old] = "enabled",
             pc = "confirming" => /\ version[GivenUp(reader[x].seen)] = "disabled"
                                  /\ Open(x) => version[Kept(reader[x].seen)] = "enabled"
      PROVE  ProxyInv'
  <2> DEFINE y == [reader[x] EXCEPT !.pc = pc]
  <2>1. y \in Reader /\ y.op = reader[x].op /\ y.seen = reader[x].seen /\ y.pc = pc
    BY <1>2 DEF Reader
  <2>2. reader' = [reader EXCEPT ![x] = y]
    BY <1>3 DEF ProxyInv, ProxyTypeOK
  <2> HIDE DEF y
  <2>3. /\ reader' \in [Readers -> Reader \cup {None}] /\ reader'[x] = y
        /\ \A z \in Readers : z # x => reader'[z] = reader[z]
    BY <2>1, <2>2 DEF ProxyInv, ProxyTypeOK
  <2>4. pc # "done" => ReaderOK(x)'
    BY <1>1, <1>2, <1>3, <2>1, <2>3 DEF ReaderOK, Open, Fits, GivenUp, Kept
  <2> QED BY <1>1, <2>1, <2>3, <2>4, ReaderMoves
<1>4. CASE GetFirst(x)
  BY <1>3, <1>4 DEF GetFirst, Reads
<1>5. CASE GetSecond(x)
  <2>1. PICK pc \in {"done", "confirming"} :
          /\ reader' = [reader EXCEPT ![x].pc = pc]
          /\ pc = "confirming" =>
               IF reader[x].seen.action = "finalize"
               THEN version[reader[x].seen.new] = "enabled"
               ELSE version[reader[x].seen.new] = "disabled"
    BY <1>5 DEF GetSecond
  <2>2. reader[x].pc = "new" /\ ReaderOK(x)
    BY <1>2, <1>5 DEF GetSecond, Reads
  <2>3. pc = "confirming" => /\ version[GivenUp(reader[x].seen)] = "disabled"
                             /\ Open(x) => version[Kept(reader[x].seen)] = "enabled"
    BY <1>2, <2>1, <2>2 DEF ReaderOK, GivenUp, Kept, Actions
  <2> QED BY <1>3, <2>1, <2>2, <2>3
<1>6. CASE Forget(x)
  <2>1. /\ reader' \in [Readers -> Reader \cup {None}] /\ reader'[x] = None
        /\ \A z \in Readers : z # x => reader'[z] = reader[z]
    BY <1>6 DEF Forget, ProxyInv, ProxyTypeOK
  <2> QED BY <1>1, <2>1, ReaderMoves
<1> QED BY <1>4, <1>5, <1>6

LEMMA ConfirmPreserves ==
  ASSUME ProxyInv, NEW x \in Readers, Confirm(x)
  PROVE  ProxyInv'
<1> DEFINE o == reader[x].op
           seen == reader[x].seen
           confirmed == [seen EXCEPT !.state = Done[seen.action]]
<1>1. reader[x] # None /\ reader[x].pc = "confirming" /\ UNCHANGED <<reserved, version, worker>>
  BY DEF Confirm, Reads
<1>2. /\ reader[x] \in Reader /\ o \in Ops /\ seen \in Operation /\ seen.action \in Actions
      /\ ReaderOK(x) /\ seen.old \in Versions /\ seen.new \in Versions
  BY <1>1, ReaderFacts
<1>3. /\ confirmed \in Operation /\ confirmed.action = seen.action
      /\ confirmed.old = seen.old /\ confirmed.new = seen.new
      /\ confirmed.state = Done[seen.action] /\ confirmed # None
  BY <1>2, StateFacts, ProxyRecords DEF Operation
<1>4. /\ Fits(confirmed) /\ confirmed.state \in Terminal
      /\ \A a \in Actions : confirmed.state # Pending[a]
  BY <1>2, <1>3, StateFacts DEF Fits, ReaderOK, Terminal
<1>5. \/ UNCHANGED <<operation, active>>
      \/ Update(o, confirmed, seen.state)
  BY DEF Confirm
<1> HIDE DEF confirmed
<1>6. \A p \in Ops : p # o => operation'[p] = operation[p]
  BY <1>5 DEF Update, ProxyInv, ProxyTypeOK
<1>7. \/ operation'[o] = operation[o] /\ active' = active
      \/ /\ operation[o].state = seen.state /\ operation'[o] = confirmed
         /\ active' = IF active = o THEN None ELSE active
  BY <1>2, <1>4, <1>5 DEF Update, ProxyInv, ProxyTypeOK
<1>8. PICK y \in Reader : reader' = [reader EXCEPT ![x] = y] /\ y.pc = "done"
  <2>1. operation'[o].state \in States
    BY <1>2, <1>3, <1>7 DEF ReaderOK, ProxyInv, ProxyTypeOK, Operation
  <2>2. CASE reader' = [reader EXCEPT ![x].pc = "done", ![x].answer = operation'[o].state]
    <3> DEFINE y == [reader[x] EXCEPT !.pc = "done", !.answer = operation'[o].state]
    <3>1. y \in Reader /\ y.pc = "done"
      BY <1>2, <2>1 DEF Reader
    <3>2. reader' = [reader EXCEPT ![x] = y]
      BY <2>2 DEF ProxyInv, ProxyTypeOK
    <3> QED BY <3>1, <3>2
  <2>3. CASE reader' = [reader EXCEPT ![x].pc = "done"]
    <3> DEFINE y == [reader[x] EXCEPT !.pc = "done"]
    <3>1. y \in Reader /\ y.pc = "done"
      BY <1>2 DEF Reader
    <3>2. reader' = [reader EXCEPT ![x] = y]
      BY <2>3 DEF ProxyInv, ProxyTypeOK
    <3> QED BY <3>1, <3>2
  <2> QED BY <2>2, <2>3 DEF Confirm
<1>9. /\ reader' \in [Readers -> Reader \cup {None}] /\ reader'[x].pc = "done"
      /\ \A z \in Readers : z # x => reader'[z] = reader[z]
  BY <1>8 DEF ProxyInv, ProxyTypeOK
<1>10. ProxyTypeOK'
  <2>1. operation' \in [Ops -> Operation \cup {None}] /\ active' \in Ops \cup {None}
    BY <1>2, <1>3, <1>5 DEF Update, ProxyInv, ProxyTypeOK
  <2> QED BY <1>1, <1>9, <2>1 DEF ProxyInv, ProxyTypeOK
<1>11. NeverWithoutCredential'
  BY <1>1 DEF ProxyInv, NeverWithoutCredential, Enabled
<1>12. StoreInv'
  <2>1. OneOperation'
    BY <1>2, <1>4, <1>6, <1>7 DEF ProxyInv, StoreInv, OneOperation, ReaderOK
  <2> QED BY <1>1, <1>2, <1>3, <1>4, <1>6, <1>7, <1>10, <2>1
             DEF ProxyInv, StoreInv, Fits, ProxyTypeOK
<1>13. WorkerInv'
  <2> SUFFICES ASSUME NEW q \in Requests, worker[q] # None
               PROVE  WorkerOK(q)'
    BY <1>1 DEF WorkerInv
  <2>1. WorkerOK(q) /\ reserved[q] \in Ops /\ worker[q].action \in Actions
    BY WorkerFacts DEF ProxyInv, WorkerInv
  <2>2. CASE operation'[reserved[q]] = operation[reserved[q]]
    BY <1>1, <2>1, <2>2 DEF WorkerOK, Work, HasPair, GivenUp, Kept
  <2>3. CASE reserved[q] = o /\ operation'[o] = confirmed /\ operation[o].state = seen.state
    <3>1. /\ operation[o].action = confirmed.action
          /\ operation[o].old = confirmed.old /\ operation[o].new = confirmed.new
      BY <1>2, <1>3 DEF ReaderOK
    <3>2. version[GivenUp(operation[o])] = "disabled" /\ GivenUp(operation[o]) \in Versions
      BY <1>1, <1>2, <1>3, <3>1 DEF ReaderOK, GivenUp
    <3>3. worker[q].pc # "disabling"
      BY <2>1, <2>3, <3>2 DEF WorkerOK, Work, GivenUp
    <3> QED BY <1>1, <1>4, <2>1, <2>3, <3>1, <3>2, <3>3
               DEF WorkerOK, Work, HasPair, GivenUp, Kept
  <2> QED BY <1>6, <1>7, <2>1, <2>2, <2>3
<1>14. ReaderInv'
  <2> SUFFICES ASSUME NEW z \in Readers, z # x, reader[z] # None, reader[z].pc # "done"
               PROVE  ReaderOK(z)'
    BY <1>9 DEF ReaderInv
  <2>1. ReaderOK(z) /\ reader[z].op \in Ops
    BY ReaderFacts
  <2>2. /\ operation'[reader[z].op] # None
        /\ operation'[reader[z].op].action = operation[reader[z].op].action
        /\ operation'[reader[z].op].old = operation[reader[z].op].old
        /\ operation'[reader[z].op].new = operation[reader[z].op].new
    BY <1>2, <1>3, <1>6, <1>7, <2>1 DEF ReaderOK
  <2>3. Open(z)' => Open(z)
    BY <1>4, <1>6, <1>7, <1>9, <2>1 DEF Open
  <2> QED BY <1>1, <1>9, <2>1, <2>2, <2>3 DEF ReaderOK, Fits, GivenUp, Kept
<1> QED BY <1>10, <1>11, <1>12, <1>13, <1>14 DEF ProxyInv

----------------------------------------------------------------------------

LEMMA InitProxyInv == ProxyInit => ProxyInv
<1> SUFFICES ASSUME ProxyInit PROVE ProxyInv
  OBVIOUS
<1>1. ProxyTypeOK
  BY ProxyVersions DEF ProxyInit, ProxyTypeOK
<1>2. NeverWithoutCredential
  BY ProxyVersions DEF ProxyInit, NeverWithoutCredential, Enabled
<1>3. StoreInv /\ WorkerInv /\ ReaderInv
  BY DEF ProxyInit, StoreInv, OneOperation, WorkerInv, ReaderInv
<1> QED BY <1>1, <1>2, <1>3 DEF ProxyInv

LEMMA NextProxyInv == ProxyInv /\ [ProxyNext]_proxyVars => ProxyInv'
<1> SUFFICES ASSUME ProxyInv, [ProxyNext]_proxyVars PROVE ProxyInv'
  OBVIOUS
<1>1. ASSUME NEW r \in Requests, NEW a \in Actions, NEW o \in Ops, Reserve(r, a, o)
      PROVE  ProxyInv'
  BY <1>1, ReservePreserves
<1>2. ASSUME NEW r \in Requests, WorkerStep(r) PROVE ProxyInv'
  BY <1>2, ListPreserves, SavePreserves, AddVersionPreserves, DisablePreserves, FailPreserves
     DEF WorkerStep
<1>3. ASSUME NEW x \in Readers, NEW o \in Ops, Read(x, o) PROVE ProxyInv'
  BY <1>3, ReadPreserves
<1>4. ASSUME NEW x \in Readers, ReaderStep(x) \/ Forget(x) PROVE ProxyInv'
  BY <1>4, GetPreserves, ConfirmPreserves DEF ReaderStep
<1>5. ASSUME NEW v \in Versions, AddByHand(v) PROVE ProxyInv'
  BY <1>5, AddPreserves
<1>6. CASE UNCHANGED proxyVars
  BY <1>6 DEF proxyVars, ProxyInv, ProxyTypeOK, NeverWithoutCredential, Enabled, StoreInv,
              OneOperation, WorkerInv, WorkerOK, ReaderInv, ReaderOK, Open, Fits, HasPair,
              Work, GivenUp, Kept
<1> QED BY <1>1, <1>2, <1>3, <1>4, <1>5, <1>6 DEF ProxyNext

LEMMA ProxyInvariant == ProxySpec => []ProxyInv
BY InitProxyInv, NextProxyInv, PTL DEF ProxySpec

\* The records of the store, the handlers and the versions keep their types.
THEOREM ProxyTypeCorrect == ProxySpec => []ProxyTypeOK
<1>1. ProxyInv => ProxyTypeOK
  BY DEF ProxyInv
<1> QED BY <1>1, ProxyInvariant, PTL

\* However many mutations, replays, lost answers and versions added by hand there
\* are, the target secret always has an enabled version (secretManager.js never
\* disables the last one on server.js's behalf).
THEOREM CredentialStays == ProxySpec => []NeverWithoutCredential
<1>1. ProxyInv => NeverWithoutCredential
  BY DEF ProxyInv
<1> QED BY <1>1, ProxyInvariant, PTL

\* replayStore.js lets one operation hold the secret at a time.
THEOREM OneOperationHolds == ProxySpec => []OneOperation
<1>1. ProxyInv => OneOperation
  BY DEF ProxyInv, StoreInv
<1> QED BY <1>1, ProxyInvariant, PTL

\* What a handler's step may write over an operation.
LEMMA WorkerWrites ==
  ASSUME ProxyInv, NEW r \in Requests, WorkerStep(r),
         NEW o \in Ops, operation'[o] # operation[o]
  PROVE  /\ o = reserved[r] /\ operation[o].state = Pending[worker[r].action]
         /\ worker[r] # None /\ worker[r].action \in Actions
         /\ operation'[o].state \in {"failed", "staged", Pending[worker[r].action],
                                     Unknown[worker[r].action]}
            \/ /\ worker[r].pc = "saving"
               /\ operation'[o] = [operation[o] EXCEPT !.state = Done[worker[r].action]]
<1>1. worker[r] # None
  BY DEF WorkerStep, ListFails, ListForStage, ListForDisable, RejectStage, CaptureOld, Add,
         RecordStaged, Disable, SaveDone, Fail, At
<1>2. /\ worker[r].action \in Actions /\ reserved[r] \in Ops
      /\ Work(r) \in Operation /\ Work(r) = operation[reserved[r]]
      /\ operation \in [Ops -> Operation \cup {None}]
  BY <1>1, WorkerFacts DEF Work, ProxyInv, ProxyTypeOK
<1>3. ASSUME NEW record, Update(reserved[r], record, Pending[worker[r].action])
      PROVE  /\ o = reserved[r] /\ operation[o].state = Pending[worker[r].action]
             /\ operation'[o] = record
  BY <1>2, <1>3 DEF Update
<1>4. ASSUME NEW record, NEW next, WorkerUpdate(r, record, next)
      PROVE  /\ o = reserved[r] /\ operation[o].state = Pending[worker[r].action]
             /\ operation'[o] = record
  BY <1>3, <1>4 DEF WorkerUpdate
<1>5. CASE RejectStage(r)
  <2> DEFINE record == [Work(r) EXCEPT !.state = "failed"]
  <2>1. WorkerUpdate(r, record, "done")
    BY <1>5 DEF RejectStage
  <2>2. record.state = "failed"
    BY <1>2 DEF Operation
  <2> HIDE DEF record
  <2> QED BY <1>1, <1>2, <1>4, <2>1, <2>2
<1>6. CASE CaptureOld(r)
  <2> DEFINE record == [Work(r) EXCEPT !.old = worker[r].old]
  <2>1. WorkerUpdate(r, record, "adding")
    BY <1>6 DEF CaptureOld
  <2>2. record.state = Work(r).state
    BY <1>2 DEF Operation
  <2> HIDE DEF record
  <2> QED BY <1>1, <1>2, <1>4, <2>1, <2>2
<1>7. CASE RecordStaged(r)
  <2> DEFINE record == [Work(r) EXCEPT !.state = "staged", !.old = worker[r].old,
                                       !.new = worker[r].new]
  <2>1. WorkerUpdate(r, record, "done")
    BY <1>7 DEF RecordStaged
  <2>2. record.state = "staged"
    BY <1>2 DEF Operation
  <2> HIDE DEF record
  <2> QED BY <1>1, <1>2, <1>4, <2>1, <2>2
<1>8. CASE SaveDone(r)
  BY <1>1, <1>2, <1>4, <1>8 DEF SaveDone, At
<1>9. CASE Fail(r)
  <2> DEFINE record == [Work(r) EXCEPT !.state = Unknown[worker[r].action],
                                       !.old = IF worker[r].action = "stage"
                                               THEN worker[r].old ELSE @]
  <2>1. Update(reserved[r], record, Pending[worker[r].action]) \/ UNCHANGED operation
    BY <1>9 DEF Fail
  <2>2. record.state = Unknown[worker[r].action]
    BY <1>2 DEF Operation
  <2> HIDE DEF record
  <2> QED BY <1>1, <1>2, <1>3, <2>1, <2>2
<1> QED BY <1>5, <1>6, <1>7, <1>8, <1>9
        DEF WorkerStep, ListFails, ListForStage, ListForDisable, Add, Disable

LEMMA EndingStep ==
  ASSUME ProxyInv, [ProxyNext]_proxyVars, NEW o \in Ops,
         operation'[o] # None, operation'[o].state \in {"finalized", "canceled"},
         operation[o].state \notin Terminal
  PROVE  /\ version[GivenUp(operation'[o])] = "disabled"
         /\ version[Kept(operation'[o])] = "enabled"
<1>1. operation'[o] # operation[o]
  BY DEF Terminal
<1>2. ASSUME NEW r \in Requests, NEW a \in Actions, NEW p \in Ops, Reserve(r, a, p)
      PROVE  FALSE
  BY <1>1, <1>2, StateFacts DEF Reserve, ProxyInv, ProxyTypeOK, Actions, Pending
<1>3. ASSUME NEW r \in Requests, WorkerStep(r)
      PROVE  /\ version[GivenUp(operation'[o])] = "disabled"
             /\ version[Kept(operation'[o])] = "enabled"
  <2>1. /\ o = reserved[r] /\ operation[o].state = Pending[worker[r].action]
        /\ worker[r] # None /\ worker[r].pc = "saving"
        /\ operation'[o] = [operation[o] EXCEPT !.state = Done[worker[r].action]]
    BY <1>1, <1>3, WorkerWrites DEF Actions, Pending, Unknown
  <2>2. WorkerOK(r) /\ Work(r) = operation[o] /\ Work(r) \in Operation
    BY <2>1, WorkerFacts DEF ProxyInv, WorkerInv, Work
  <2> QED BY <2>1, <2>2 DEF WorkerOK, GivenUp, Kept, Operation
<1>4. ASSUME NEW x \in Readers, ReaderStep(x) \/ Forget(x)
      PROVE  /\ version[GivenUp(operation'[o])] = "disabled"
             /\ version[Kept(operation'[o])] = "enabled"
  <2> DEFINE seen == reader[x].seen
             confirmed == [seen EXCEPT !.state = Done[seen.action]]
  <2>1. Confirm(x)
    BY <1>1, <1>4 DEF ReaderStep, GetFirst, GetSecond, Forget
  <2>2. reader[x] # None /\ reader[x].pc = "confirming"
    BY <2>1 DEF Confirm, Reads
  <2>3. ReaderOK(x) /\ seen \in Operation /\ reader[x].op \in Ops
    BY <2>2, ReaderFacts
  <2>4. Update(reader[x].op, confirmed, seen.state)
    BY <1>1, <2>1 DEF Confirm
  <2>5. o = reader[x].op /\ operation'[o] = confirmed /\ operation[o].state = seen.state
    BY <1>1, <2>3, <2>4 DEF Update, ProxyInv, ProxyTypeOK
  <2>6. GivenUp(confirmed) = GivenUp(seen) /\ Kept(confirmed) = Kept(seen)
    BY <2>3 DEF GivenUp, Kept, Operation
  <2> QED BY <2>2, <2>3, <2>5, <2>6 DEF ReaderOK, Open
<1> QED BY <1>1, <1>2, <1>3, <1>4 DEF ProxyNext, proxyVars, Read, AddByHand

LEMMA EndedStep ==
  ASSUME ProxyInv, [ProxyNext]_proxyVars, NEW o \in Ops,
         operation[o] # None, operation[o].state \in Terminal
  PROVE  operation'[o] = operation[o]
<1> SUFFICES ASSUME operation'[o] # operation[o] PROVE FALSE
  OBVIOUS
<1>1. ASSUME NEW r \in Requests, NEW a \in Actions, NEW p \in Ops, Reserve(r, a, p)
      PROVE  FALSE
  BY <1>1 DEF Reserve, ProxyInv, ProxyTypeOK, Terminal
<1>2. ASSUME NEW r \in Requests, WorkerStep(r) PROVE FALSE
  <2>1. \E a \in Actions : operation[o].state = Pending[a]
    BY <1>2, WorkerWrites
  <2> QED BY <2>1, StateFacts
<1>3. ASSUME NEW x \in Readers, ReaderStep(x) \/ Forget(x) PROVE FALSE
  <2> DEFINE confirmed == [reader[x].seen EXCEPT !.state = Done[reader[x].seen.action]]
  <2>1. Confirm(x) /\ Update(reader[x].op, confirmed, reader[x].seen.state)
    BY <1>3 DEF ReaderStep, GetFirst, GetSecond, Forget, Confirm
  <2>2. ReaderOK(x) /\ reader[x].op \in Ops
    BY <2>1, ReaderFacts DEF Confirm, Reads
  <2>3. o = reader[x].op /\ operation[o].state = reader[x].seen.state
    BY <2>1, <2>2 DEF Update, ProxyInv, ProxyTypeOK
  <2> QED BY <2>2, <2>3 DEF ReaderOK
<1> QED BY <1>1, <1>2, <1>3 DEF ProxyNext, proxyVars, Read, AddByHand

\* A step of server.js or of reconcile that records an operation as finalized or
\* canceled finds the pair in exactly the state that the record claims.
THEOREM EndsTruthfully == ProxySpec => EndsAsRecorded
<1>1. ProxyInv /\ [ProxyNext]_proxyVars
        => [\A o \in Ops :
              /\ operation'[o] # None /\ operation'[o].state \in {"finalized", "canceled"}
              /\ operation[o].state \notin Terminal
              => /\ version[GivenUp(operation'[o])] = "disabled"
                 /\ version[Kept(operation'[o])] = "enabled"]_proxyVars
  BY EndingStep
<1> QED BY <1>1, ProxyInvariant, PTL DEF ProxySpec, EndsAsRecorded

\* No late handler, replay or reconciling read of server.js changes an operation
\* that replayStore.js holds as ended.
THEOREM EndedStays == ProxySpec => EndedIsFinal
<1>1. ProxyInv /\ [ProxyNext]_proxyVars
        => [\A o \in Ops :
              operation[o] # None /\ operation[o].state \in Terminal
                => operation'[o] = operation[o]]_proxyVars
  BY EndedStep
<1> QED BY <1>1, ProxyInvariant, PTL DEF ProxySpec, EndedIsFinal

----------------------------------------------------------------------------
(* The console and the proxy *)

ConsoleTypeOK ==
  /\ ops \in Seq(ConsoleOp) /\ Len(ops) <= MaxOps
  /\ requests \in [Requests -> [op : 1..MaxOps, action : Actions] \cup {None}]
  /\ revision \in Nat /\ saves \in Nat
  /\ rotated \in 1..MaxOps \cup {None}
  /\ handler \in [Requests -> {"idle", "begun", "waiting", "completing", "done"}]
  /\ result \in [Requests -> States \cup {"lost"}]
  /\ get \in [Readers -> 1..MaxOps \cup {None}]

\* A request and its handler at the proxy are about the same operation and action,
\* and so is a read: requests are never named anew.
RequestInv ==
  /\ \A r \in Requests : requests[r] # None => requests[r].op \in 1..Len(ops)
  /\ \A r \in Requests : handler[r] # "idle" => requests[r] # None
  /\ \A r \in Requests : worker[r] # None =>
       /\ requests[r] # None
       /\ reserved[r] = requests[r].op /\ worker[r].action = requests[r].action

GetInv ==
  \A x \in Readers : get[x] # None =>
    /\ get[x] \in 1..Len(ops)
    /\ reader[x] # None => reader[x].op = get[x]

\* o has ended at the proxy in the given state.
EndedAs(o, state) == operation[o] # None /\ operation[o].state = state

\* What the proxy has answered, however old the answer is, is still so if it says
\* that the operation has ended.
AnswersAreTrue ==
  /\ \A r \in Requests : worker[r] # None /\ worker[r].answer \in Terminal
       => EndedAs(reserved[r], worker[r].answer)
  /\ \A x \in Readers : reader[x] # None /\ reader[x].answer \in Terminal
       => EndedAs(reader[x].op, reader[x].answer)

ResultsAreTrue ==
  \A r \in Requests : requests[r] # None /\ result[r] \in Terminal
    => EndedAs(requests[r].op, result[r])

\* A handler has a result only after its request was begun.
ResultInv == \A r \in Requests : requests[r] = None => result[r] = "lost"

RotationInv ==
  /\ ProxyInv /\ ConsoleTypeOK /\ RequestInv /\ GetInv
  /\ AnswersAreTrue /\ ResultsAreTrue /\ ResultInv /\ ConsoleIsTrue

----------------------------------------------------------------------------
(* The proxy's steps *)

\* What the console lets the proxy do, the proxy may do by itself.
LEMMA ProxyIsProxyNext ==
  ASSUME ConsoleTypeOK, RequestInv, Proxy
  PROVE  ProxyNext
<1>1. ASSUME NEW r \in Requests, handler[r] # "idle", Reserve(r, requests[r].action, requests[r].op)
      PROVE  ProxyNext
  <2>1. requests[r].op \in Ops /\ requests[r].action \in Actions
    BY <1>1, RotationOps DEF ConsoleTypeOK, RequestInv
  <2> QED BY <1>1, <2>1 DEF ProxyNext
<1>2. ASSUME NEW x \in Readers, get[x] # None, Read(x, get[x]) PROVE ProxyNext
  <2>1. get[x] \in Ops
    BY <1>2, RotationOps DEF ConsoleTypeOK
  <2> QED BY <1>2, <2>1 DEF ProxyNext
<1> QED BY <1>1, <1>2 DEF Proxy, ProxyNext

LEMMA NextIsProxyNext ==
  ASSUME ConsoleTypeOK, RequestInv, [RotationNext]_rotationVars
  PROVE  [ProxyNext]_proxyVars
<1>1. CASE Proxy
  BY <1>1, ProxyIsProxyNext
<1>2. CASE RotationNext /\ ~Proxy
  BY <1>2 DEF RotationNext, Stage, Invoke, Answer, AnswerIsLost, Complete, Decide, Get, Reconcile,
              SaveExpiry, Begun, proxyVars
<1>3. CASE UNCHANGED rotationVars
  BY <1>3 DEF rotationVars, proxyVars
<1> QED BY <1>1, <1>2, <1>3

\* An operation that has ended stays so.
LEMMA EndedAsStays ==
  ASSUME ProxyInv, [ProxyNext]_proxyVars, NEW o \in Ops, NEW state \in Terminal, EndedAs(o, state)
  PROVE  EndedAs(o, state)'
BY EndedStep DEF EndedAs

\* A handler's answer is what it was, what it has just read, or says nothing of an end.
WorkerAnswered(r) ==
  /\ \A q \in Requests \ {r} : worker'[q] = worker[q]
  /\ worker'[r].action = worker[r].action
  /\ worker'[r].answer \in Terminal =>
       \/ worker'[r].answer = worker[r].answer
       \/ worker'[r].answer = operation'[reserved[r]].state

LEMMA WorkerAnswers ==
  ASSUME ProxyInv, NEW r \in Requests, WorkerStep(r)
  PROVE  worker[r] # None /\ UNCHANGED <<reserved, reader>> /\ WorkerAnswered(r)
<1>1. worker[r] # None /\ worker[r] \in Worker /\ worker \in [Requests -> Worker \cup {None}]
      /\ UNCHANGED <<reserved, reader>>
  <2>1. worker[r] # None /\ UNCHANGED <<reserved, reader>>
    BY DEF WorkerStep, ListFails, ListForStage, ListForDisable, RejectStage, CaptureOld, Add,
           RecordStaged, Disable, SaveDone, Fail, At
  <2> QED BY <2>1, WorkerFacts DEF ProxyInv, ProxyTypeOK
<1>2. worker[r].action \in Actions /\ Unknown[worker[r].action] \notin Terminal
  BY <1>1, WorkerFacts, StateFacts
<1>3. ASSUME NEW record, NEW next, WorkerUpdate(r, record, next) PROVE WorkerAnswered(r)
  BY <1>1, <1>3 DEF WorkerUpdate, WorkerAnswered, Worker
<1>4. CASE ListFails(r)
  BY <1>1, <1>4 DEF ListFails, WorkerAnswered, Worker
<1>5. CASE ListForStage(r)
  BY <1>1, <1>5 DEF ListForStage, WorkerAnswered, Worker
<1>6. CASE ListForDisable(r)
  BY <1>1, <1>6 DEF ListForDisable, WorkerAnswered, Worker
<1>7. CASE Add(r)
  BY <1>1, <1>7 DEF Add, WorkerAnswered, Worker
<1>8. CASE Disable(r)
  BY <1>1, <1>8 DEF Disable, WorkerAnswered, Worker
<1>9. CASE Fail(r)
  BY <1>1, <1>2, <1>9 DEF Fail, WorkerAnswered, Worker
<1>10. CASE RejectStage(r)
  BY <1>1, <1>3, <1>10 DEF RejectStage
<1>11. CASE CaptureOld(r)
  BY <1>1, <1>3, <1>11 DEF CaptureOld
<1>12. CASE RecordStaged(r)
  BY <1>1, <1>3, <1>12 DEF RecordStaged
<1>13. CASE SaveDone(r)
  BY <1>1, <1>3, <1>13 DEF SaveDone
<1> QED BY <1>1, <1>4, <1>5, <1>6, <1>7, <1>8, <1>9, <1>10, <1>11, <1>12, <1>13 DEF WorkerStep

\* And so is a reader's.
ReaderAnswered(x) ==
  /\ \A z \in Readers \ {x} : reader'[z] = reader[z]
  /\ reader'[x].op = reader[x].op
  /\ \/ reader'[x].answer = reader[x].answer
     \/ reader'[x].answer = operation'[reader[x].op].state

LEMMA ReaderAnswers ==
  ASSUME ProxyInv, NEW x \in Readers, ReaderStep(x)
  PROVE  /\ reader[x] # None /\ reader[x].pc # "done"
         /\ UNCHANGED <<reserved, worker>> /\ ReaderAnswered(x)
<1>1. /\ reader[x] # None /\ reader[x].pc # "done" /\ UNCHANGED <<reserved, worker>>
      /\ reader[x] \in Reader /\ reader \in [Readers -> Reader \cup {None}]
  <2>1. reader[x] # None /\ reader[x].pc # "done" /\ UNCHANGED <<reserved, worker>>
    BY DEF ReaderStep, GetFirst, GetSecond, Confirm, Reads
  <2> QED BY <2>1, ReaderFacts DEF ProxyInv, ProxyTypeOK
<1>2. CASE GetFirst(x)
  BY <1>1, <1>2 DEF GetFirst, ReaderAnswered, Reader
<1>3. CASE GetSecond(x)
  BY <1>1, <1>3 DEF GetSecond, ReaderAnswered, Reader
<1>4. CASE Confirm(x)
  BY <1>1, <1>4 DEF Confirm, ReaderAnswered, Reader
<1> QED BY <1>1, <1>2, <1>3, <1>4 DEF ReaderStep

LEMMA AnswersStayTrue ==
  ASSUME ProxyInv, AnswersAreTrue, ProxyInv', [ProxyNext]_proxyVars
  PROVE  AnswersAreTrue'
<1> USE DEF EndedAs
<1>1. \A r \in Requests : worker[r] # None => reserved[r] \in Ops
  BY WorkerFacts
<1>2. \A x \in Readers : reader[x] # None => reader[x].op \in Ops
  BY ReaderFacts
<1>3. \A r \in Requests : worker[r] # None /\ worker[r].answer \in Terminal
        => EndedAs(reserved[r], worker[r].answer) /\ operation'[reserved[r]] = operation[reserved[r]]
  BY <1>1, EndedStep DEF AnswersAreTrue
<1>4. \A x \in Readers : reader[x] # None /\ reader[x].answer \in Terminal
        => EndedAs(reader[x].op, reader[x].answer) /\ operation'[reader[x].op] = operation[reader[x].op]
  BY <1>2, EndedStep DEF AnswersAreTrue
<1>5. \A r \in Requests : worker'[r] # None => operation'[reserved'[r]] # None
  BY DEF ProxyInv, StoreInv, WorkerInv, WorkerOK
<1>6. ASSUME NEW r \in Requests, WorkerStep(r) PROVE AnswersAreTrue'
  <2>1. worker[r] # None /\ UNCHANGED <<reserved, reader>> /\ WorkerAnswered(r)
    BY <1>6, WorkerAnswers
  <2> QED BY <1>3, <1>4, <1>5, <2>1 DEF AnswersAreTrue, WorkerAnswered
<1>7. ASSUME NEW x \in Readers, ReaderStep(x) PROVE AnswersAreTrue'
  <2>1. /\ reader[x] # None /\ reader[x].pc # "done"
        /\ UNCHANGED <<reserved, worker>> /\ ReaderAnswered(x)
    BY <1>7, ReaderAnswers
  <2>2. operation'[reader[x].op] # None
    <3> DEFINE seen == reader[x].seen
               confirmed == [seen EXCEPT !.state = Done[seen.action]]
    <3>1. reader[x].op \in Ops /\ ReaderOK(x) /\ seen \in Operation /\ seen.action \in Actions
      BY <2>1, ReaderFacts
    <3>2. confirmed \in Operation /\ confirmed # None
      BY <3>1, StateFacts, ProxyRecords DEF Operation
    <3>3. UNCHANGED operation \/ Update(reader[x].op, confirmed, seen.state)
      BY <1>7 DEF ReaderStep, GetFirst, GetSecond, Confirm
    <3> HIDE DEF confirmed
    <3> QED BY <3>1, <3>2, <3>3 DEF ReaderOK, Update, ProxyInv, ProxyTypeOK
  <2> QED BY <1>3, <1>4, <2>1, <2>2 DEF AnswersAreTrue, ReaderAnswered
<1>8. ASSUME NEW r \in Requests, NEW a \in Actions, NEW o \in Ops, Reserve(r, a, o)
      PROVE  AnswersAreTrue'
  <2>1. /\ worker'[r].answer = "lost" /\ UNCHANGED reader
        /\ \A q \in Requests \ {r} : worker'[q] = worker[q] /\ reserved'[q] = reserved[q]
    BY <1>8 DEF Reserve, Accepted, ProxyInv, ProxyTypeOK
  <2> QED BY <1>3, <1>4, <2>1 DEF AnswersAreTrue, Terminal
<1>9. ASSUME NEW x \in Readers, NEW o \in Ops, Read(x, o) PROVE AnswersAreTrue'
  <2>1. /\ UNCHANGED <<operation, reserved, worker>> /\ operation[o] # None
        /\ reader'[x].op = o /\ reader'[x].answer = Unconfirmed(operation[o])
        /\ \A z \in Readers \ {x} : reader'[z] = reader[z]
    BY <1>9 DEF Read, ProxyInv, ProxyTypeOK
  <2>2. Unconfirmed(operation[o]) \in Terminal => Unconfirmed(operation[o]) = operation[o].state
    <3>1. operation[o].action \in Actions
      BY <2>1 DEF ProxyInv, ProxyTypeOK, Operation
    <3> QED BY <3>1, StateFacts DEF Unconfirmed
  <2> QED BY <2>1, <2>2 DEF AnswersAreTrue
<1>10. ASSUME NEW x \in Readers, Forget(x) PROVE AnswersAreTrue'
  BY <1>10 DEF Forget, AnswersAreTrue, ProxyInv, ProxyTypeOK
<1>11. CASE UNCHANGED <<operation, reserved, worker, reader>>
  BY <1>11 DEF AnswersAreTrue
<1> QED BY <1>6, <1>7, <1>8, <1>9, <1>10, <1>11 DEF ProxyNext, AddByHand, proxyVars

----------------------------------------------------------------------------
(* What the console keeps *)

LEMMA ResultsStayTrue ==
  ASSUME RotationInv, [ProxyNext]_proxyVars, UNCHANGED <<requests, result>>
  PROVE  ResultsAreTrue'
<1> SUFFICES ASSUME NEW r \in Requests, requests[r] # None, result[r] \in Terminal
             PROVE  EndedAs(requests[r].op, result[r])'
  BY DEF ResultsAreTrue, EndedAs
<1>1. requests[r].op \in Ops /\ EndedAs(requests[r].op, result[r])
  BY RotationOps DEF RotationInv, ConsoleTypeOK, ResultsAreTrue
<1>2. operation'[requests[r].op] = operation[requests[r].op]
  BY <1>1, EndedStep DEF RotationInv, EndedAs
<1> QED BY <1>1, <1>2 DEF EndedAs

\* What the console knows stays true while the proxy moves.
LEMMA KnownEndsStay ==
  ASSUME RotationInv, [ProxyNext]_proxyVars
  PROVE  \A o \in 1..Len(ops) : ops[o].state \in Terminal =>
           operation'[o] # None /\ operation'[o].state = ops[o].state
<1> SUFFICES ASSUME NEW o \in 1..Len(ops), ops[o].state \in Terminal
             PROVE  operation'[o] # None /\ operation'[o].state = ops[o].state
  OBVIOUS
<1>1. o \in Ops
  <2>1. Len(ops) \in Nat /\ Len(ops) <= MaxOps
    BY DEF RotationInv, ConsoleTypeOK
  <2> QED BY <2>1, RotationOps
<1>2. operation[o] # None /\ operation[o].state = ops[o].state
  BY DEF RotationInv, ConsoleIsTrue, ConsoleKnowsTheEnd
<1> QED BY <1>1, <1>2, EndedStep DEF RotationInv

\* Steps of the proxy leave the console as it is.
LEMMA ProxyKeepsRotation ==
  ASSUME RotationInv, Proxy
  PROVE  RotationInv'
<1>1. [ProxyNext]_proxyVars /\ ProxyInv'
  BY ProxyIsProxyNext, NextProxyInv DEF RotationInv
<1>2. UNCHANGED <<ops, requests, revision, rotated, saves, handler, result, get>>
  BY DEF Proxy, consoleVars
<1>3. ConsoleTypeOK' /\ ResultInv'
  BY <1>2 DEF RotationInv, ConsoleTypeOK, ResultInv
<1>4. AnswersAreTrue' /\ ResultsAreTrue'
  BY <1>1, <1>2, AnswersStayTrue, ResultsStayTrue DEF RotationInv
<1>5. ConsoleIsTrue'
  <2>1. ConsoleKnowsTheEnd'
    BY <1>1, <1>2, KnownEndsStay DEF ConsoleKnowsTheEnd
  <2>2. EveryRevisionIsEarned'
    BY <1>2 DEF RotationInv, ConsoleIsTrue, EveryRevisionIsEarned
  <2> QED BY <2>1, <2>2 DEF ConsoleIsTrue
<1>6. RequestInv'
  <2>1. ASSUME NEW r \in Requests, worker'[r] # None
        PROVE  /\ requests[r] # None /\ reserved'[r] = requests[r].op
               /\ worker'[r].action = requests[r].action
    <3>1. ASSUME NEW q \in Requests, handler[q] # "idle", Reserve(q, requests[q].action, requests[q].op)
          PROVE  /\ requests[q] # None /\ reserved'[q] = requests[q].op
                 /\ worker'[q].action = requests[q].action
                 /\ \A z \in Requests \ {q} : worker'[z] = worker[z] /\ reserved'[z] = reserved[z]
      BY <3>1 DEF Reserve, Accepted, RotationInv, ProxyInv, ProxyTypeOK, RequestInv
    <3>2. ASSUME NEW q \in Requests, WorkerStep(q)
          PROVE  /\ worker[q] # None /\ reserved' = reserved
                 /\ \A z \in Requests \ {q} : worker'[z] = worker[z]
                 /\ worker'[q].action = worker[q].action
      BY <3>2, WorkerAnswers DEF RotationInv, WorkerAnswered
    <3>3. ASSUME NEW x \in Readers, ReaderStep(x) PROVE UNCHANGED <<reserved, worker>>
      BY <3>3, ReaderAnswers DEF RotationInv
    <3>4. \/ \E q \in Requests : handler[q] # "idle" /\ Reserve(q, requests[q].action, requests[q].op)
          \/ \E q \in Requests : WorkerStep(q)
          \/ UNCHANGED <<reserved, worker>>
      BY <3>3 DEF Proxy, Read, Forget, AddByHand
    <3> QED BY <2>1, <3>1, <3>2, <3>4 DEF RotationInv, RequestInv
  <2> QED BY <1>2, <2>1 DEF RotationInv, RequestInv
<1>7. GetInv'
  <2>1. ASSUME NEW x \in Readers, get[x] # None, reader'[x] # None
        PROVE  reader'[x].op = get[x]
    <3>1. ASSUME NEW z \in Readers, get[z] # None, Read(z, get[z])
          PROVE  reader'[z].op = get[z] /\ \A y \in Readers \ {z} : reader'[y] = reader[y]
      BY <3>1 DEF Read, RotationInv, ProxyInv, ProxyTypeOK
    <3>2. ASSUME NEW z \in Readers, ReaderStep(z)
          PROVE  /\ reader[z] # None /\ reader'[z].op = reader[z].op
                 /\ \A y \in Readers \ {z} : reader'[y] = reader[y]
      BY <3>2, ReaderAnswers DEF RotationInv, ReaderAnswered
    <3>3. ASSUME NEW z \in Readers, get[z] = None, Forget(z)
          PROVE  \A y \in Readers \ {z} : reader'[y] = reader[y]
      BY <3>3 DEF Forget, RotationInv, ProxyInv, ProxyTypeOK
    <3>4. ASSUME NEW r \in Requests, WorkerStep(r) PROVE UNCHANGED reader
      BY <3>4, WorkerAnswers DEF RotationInv
    <3>5. \/ \E z \in Readers : get[z] # None /\ Read(z, get[z])
          \/ \E z \in Readers : ReaderStep(z)
          \/ \E z \in Readers : get[z] = None /\ Forget(z)
          \/ UNCHANGED reader
      BY <3>4 DEF Proxy, Reserve, AddByHand
    <3> QED BY <2>1, <3>1, <3>2, <3>3, <3>5 DEF RotationInv, GetInv
  <2> QED BY <1>2, <2>1 DEF RotationInv, GetInv
<1> QED BY <1>1, <1>3, <1>4, <1>5, <1>6, <1>7 DEF RotationInv

\* Steps of the console leave the proxy as it is.
LEMMA ConsoleKeepsProxy ==
  ASSUME RotationInv, UNCHANGED proxyVars
  PROVE  ProxyInv' /\ AnswersAreTrue'
<1>1. [ProxyNext]_proxyVars
  OBVIOUS
<1>2. ProxyInv'
  BY <1>1, NextProxyInv DEF RotationInv
<1> QED BY <1>1, <1>2, AnswersStayTrue DEF RotationInv

\* rotation_begin: a new request for an operation that is not decided yet, and that
\* is the last one or is staged.
LEMMA BeginKeepsRotation ==
  ASSUME RotationInv, NEW r \in Requests, requests[r] = None,
         NEW o \in Nat, NEW a \in Actions,
         ops' \in Seq(ConsoleOp), Len(ops') <= MaxOps, Len(ops') >= Len(ops), o \in 1..Len(ops'),
         Begun(r, o, a), UNCHANGED saves,
         \A p \in 1..Len(ops') : ops'[p].state \in Terminal => p \in 1..Len(ops) /\ ops'[p] = ops[p],
         \A p \in 1..Len(ops) : ops[p].state \in Terminal => ops'[p] = ops[p]
  PROVE  RotationInv'
<1>1. /\ requests' = [requests EXCEPT ![r] = [op |-> o, action |-> a]]
      /\ handler' = [handler EXCEPT ![r] = "begun"]
      /\ UNCHANGED <<revision, rotated, saves, result, get>> /\ UNCHANGED proxyVars
      /\ UNCHANGED <<operation, active, reserved, version, worker, reader>>
  BY DEF Begun, proxyVars
<1>2. ProxyInv' /\ AnswersAreTrue'
  BY <1>1, ConsoleKeepsProxy
<1>3. /\ requests'[r] = [op |-> o, action |-> a]
      /\ \A q \in Requests \ {r} : requests'[q] = requests[q] /\ handler'[q] = handler[q]
  BY <1>1 DEF RotationInv, ConsoleTypeOK
<1>4. Len(ops) \in Nat /\ Len(ops') \in Nat
  BY DEF RotationInv, ConsoleTypeOK
<1>5. ConsoleTypeOK'
  <2>1. [op |-> o, action |-> a] \in [op : 1..MaxOps, action : Actions]
    BY <1>4, RotationOps
  <2> QED BY <1>1, <2>1 DEF RotationInv, ConsoleTypeOK
<1>6. worker[r] = None
  BY DEF RotationInv, RequestInv
<1>7. [op |-> o, action |-> a] # None
  BY <1>4, RotationOps, RotationRequests
<1>8. RequestInv'
  BY <1>1, <1>3, <1>4, <1>6, <1>7 DEF RotationInv, RequestInv
<1>9. GetInv'
  BY <1>1, <1>4 DEF RotationInv, GetInv
<1>10. ResultInv' /\ ResultsAreTrue'
  BY <1>1, <1>3, <1>7 DEF RotationInv, ResultInv, ResultsAreTrue, EndedAs, Terminal
<1>11. ConsoleKnowsTheEnd'
  BY <1>1 DEF RotationInv, ConsoleIsTrue, ConsoleKnowsTheEnd
<1>12. EveryRevisionIsEarned'
  <2>1. {p \in 1..Len(ops) : ops[p].state = "finalized"}' = {p \in 1..Len(ops) : ops[p].state = "finalized"}
    BY <1>4 DEF Terminal
  <2> QED BY <1>1, <2>1 DEF RotationInv, ConsoleIsTrue, EveryRevisionIsEarned
<1> QED BY <1>2, <1>5, <1>8, <1>9, <1>10, <1>11, <1>12 DEF RotationInv, ConsoleIsTrue

LEMMA StageKeepsRotation ==
  ASSUME RotationInv, NEW r \in Requests, Stage(r)
  PROVE  RotationInv'
<1> DEFINE new == [state |-> Pending["stage"], action |-> "stage", request |-> r, revision |-> revision]
<1>1. new \in ConsoleOp /\ new.state \notin Terminal
  BY DEF ConsoleOp, States, Pending, Actions, Terminal, RotationInv, ConsoleTypeOK
<1>2. ops \in Seq(ConsoleOp) /\ Len(ops) \in Nat /\ Len(ops) < MaxOps /\ MaxOps \in Nat
  BY RotationOps DEF Stage, RotationInv, ConsoleTypeOK
<1> HIDE DEF new
<1>3. /\ ops' = Append(ops, new) /\ requests[r] = None
      /\ Begun(r, Len(ops) + 1, "stage") /\ saves' = saves
  BY DEF Stage, Begun, new
<1>4. /\ ops' \in Seq(ConsoleOp) /\ Len(ops') = Len(ops) + 1
      /\ \A p \in 1..Len(ops) : ops'[p] = ops[p]
      /\ ops'[Len(ops) + 1] = new
  BY <1>1, <1>2, <1>3, AppendProperties
<1>5. "stage" \in Actions
  BY DEF Actions
<1> QED BY <1>1, <1>2, <1>3, <1>4, <1>5, BeginKeepsRotation

LEMMA DecideKeepsRotation ==
  ASSUME RotationInv, NEW r \in Requests, NEW a \in {"finalize", "cancel"}, NEW o \in 1..Len(ops),
         Decide(r, a, o)
  PROVE  RotationInv'
<1> DEFINE new == [ops[o] EXCEPT !.state = Pending[a], !.action = a, !.request = r]
<1>1. ops \in Seq(ConsoleOp) /\ Len(ops) \in Nat /\ Len(ops) <= MaxOps /\ ops[o] \in ConsoleOp
      /\ a \in Actions
  BY DEF RotationInv, ConsoleTypeOK, Actions
<1>2. new \in ConsoleOp /\ new.state \notin Terminal
  BY <1>1, StateFacts DEF ConsoleOp, States
<1>3. ops' = [ops EXCEPT ![o] = new]
  BY <1>1 DEF Decide
<1> HIDE DEF new
<1>4. requests[r] = None /\ Begun(r, o, a) /\ saves' = saves /\ ops[o].state = "staged" /\ o \in Nat
  BY DEF Decide, Begun
<1>5. /\ ops' \in Seq(ConsoleOp) /\ Len(ops') = Len(ops)
      /\ \A p \in 1..Len(ops) : ops'[p] = IF p = o THEN new ELSE ops[p]
  BY <1>1, <1>2, <1>3, ExceptSeq
<1>6. ops[o].state \notin Terminal
  BY <1>4 DEF Terminal
<1> QED BY <1>1, <1>2, <1>4, <1>5, <1>6, BeginKeepsRotation

\* rotation_complete: what it writes, given what the proxy has answered.
LEMMA CompleteWrites ==
  ASSUME RotationInv, NEW o \in 1..Len(ops), NEW state \in States \cup {"lost"},
         CompleteOp(o, state)
  PROVE  \/ UNCHANGED <<ops, revision, rotated>>
         \/ \E s \in States :
              /\ ops' = [ops EXCEPT ![o].state = s]
              /\ ops[o].state \notin Terminal
              /\ s \in Terminal => s = state
              /\ IF s = "finalized"
                 THEN revision = ops[o].revision /\ revision' = revision + 1 /\ rotated' = o
                 ELSE UNCHANGED <<revision, rotated>>
<1>1. ops[o].action \in Actions
  <2>1. ops[o] \in ConsoleOp
    BY DEF RotationInv, ConsoleTypeOK
  <2> QED BY <2>1 DEF ConsoleOp
<1>2. CASE ops[o].state \in Terminal \cup {"staged"}
  BY <1>2 DEF CompleteOp
<1>3. CASE ops[o].state \notin Terminal \cup {"staged"}
  <2> DEFINE outcome == Outcome(ops[o], state)
  <2>1. outcome \in States /\ (outcome \in Terminal => outcome = state)
    BY <1>1, StateFacts DEF Outcome
  <2>2. CASE outcome = "finalized" /\ revision # ops[o].revision
    <3>1. ops' = [ops EXCEPT ![o].state = "finalize_unknown"] /\ UNCHANGED <<revision, rotated>>
      BY <1>3, <2>2 DEF CompleteOp
    <3>2. "finalize_unknown" \in States \ Terminal
      BY DEF States, Unknown, Actions, Terminal
    <3> QED BY <1>3, <3>1, <3>2 DEF Terminal
  <2>3. CASE ~(outcome = "finalized" /\ revision # ops[o].revision)
    <3>1. /\ ops' = [ops EXCEPT ![o].state = outcome]
          /\ IF outcome = "finalized" THEN revision' = revision + 1 /\ rotated' = o
                                      ELSE UNCHANGED <<revision, rotated>>
      BY <1>3, <2>3 DEF CompleteOp
    <3> HIDE DEF outcome
    <3> QED BY <1>3, <2>1, <2>3, <3>1
  <2> QED BY <2>2, <2>3
<1> QED BY <1>2, <1>3

LEMMA CompleteKeepsRotation ==
  ASSUME RotationInv, NEW o \in 1..Len(ops), NEW state \in States \cup {"lost"},
         state \in Terminal => EndedAs(o, state),
         CompleteOp(o, state), UNCHANGED <<requests, saves, result>>, UNCHANGED proxyVars,
         handler' \in [Requests -> {"idle", "begun", "waiting", "completing", "done"}],
         \A r \in Requests : handler'[r] # "idle" => handler[r] # "idle",
         get' \in [Readers -> 1..MaxOps \cup {None}],
         \A x \in Readers : get'[x] \in {get[x], None}
  PROVE  RotationInv'
<1>1. ProxyInv' /\ AnswersAreTrue'
  BY ConsoleKeepsProxy
<1>2. UNCHANGED <<operation, active, reserved, version, worker, reader>>
  BY DEF proxyVars
<1>3. ops \in Seq(ConsoleOp) /\ Len(ops) \in Nat /\ ops[o] \in ConsoleOp /\ o \in 1..MaxOps
  <2>1. ops \in Seq(ConsoleOp) /\ Len(ops) \in Nat /\ ops[o] \in ConsoleOp /\ Len(ops) <= MaxOps
    BY DEF RotationInv, ConsoleTypeOK
  <2> QED BY <2>1, RotationOps
<1>4. ResultsAreTrue' /\ ResultInv'
  BY <1>2 DEF RotationInv, ResultsAreTrue, EndedAs, ResultInv
<1>5. CASE UNCHANGED <<ops, revision, rotated>>
  <2>1. ConsoleTypeOK' /\ RequestInv' /\ GetInv'
    BY <1>2, <1>5 DEF RotationInv, ConsoleTypeOK, RequestInv, GetInv
  <2>2. ConsoleIsTrue'
    BY <1>2, <1>5 DEF RotationInv, ConsoleIsTrue, ConsoleKnowsTheEnd, EveryRevisionIsEarned
  <2> QED BY <1>1, <1>4, <2>1, <2>2 DEF RotationInv
<1>6. ASSUME NEW s \in States,
             ops' = [ops EXCEPT ![o].state = s], ops[o].state \notin Terminal,
             s \in Terminal => s = state,
             IF s = "finalized" THEN revision' = revision + 1 /\ rotated' = o
                                ELSE UNCHANGED <<revision, rotated>>
      PROVE  RotationInv'
  <2> DEFINE new == [ops[o] EXCEPT !.state = s]
  <2>1. new \in ConsoleOp /\ new.state = s
    BY <1>3 DEF ConsoleOp
  <2>2. ops' = [ops EXCEPT ![o] = new]
    BY <1>3, <1>6
  <2> HIDE DEF new
  <2>3. /\ ops' \in Seq(ConsoleOp) /\ Len(ops') = Len(ops)
        /\ \A p \in 1..Len(ops) : ops'[p] = IF p = o THEN new ELSE ops[p]
    BY <1>3, <2>1, <2>2, ExceptSeq
  <2>4. ConsoleTypeOK'
    BY <1>3, <1>6, <2>3 DEF RotationInv, ConsoleTypeOK
  <2>5. RequestInv' /\ GetInv'
    BY <1>2, <2>3 DEF RotationInv, RequestInv, GetInv
  <2>6. ConsoleKnowsTheEnd'
    <3>1. s \in Terminal => EndedAs(o, s)
      BY <1>6
    <3> QED BY <1>2, <2>1, <2>3, <3>1
            DEF RotationInv, ConsoleIsTrue, ConsoleKnowsTheEnd, EndedAs
  <2>7. EveryRevisionIsEarned'
    <3> DEFINE F == {p \in 1..Len(ops) : ops[p].state = "finalized"}
               G == {p \in 1..Len(ops') : ops'[p].state = "finalized"}
    <3>1. o \notin F
      BY <1>6 DEF Terminal
    <3>2. G = IF s = "finalized" THEN F \cup {o} ELSE F
      BY <2>1, <2>3, <3>1
    <3>3. IsFiniteSet(F) /\ Cardinality(F) \in Nat
      <4>1. IsFiniteSet(1..Len(ops))
        BY <1>3, FS_Interval
      <4> QED BY <4>1, FS_Subset, FS_CardinalityType
    <3>4. revision = saves + Cardinality(F)
      BY DEF RotationInv, ConsoleIsTrue, EveryRevisionIsEarned
    <3> HIDE DEF F, G
    <3>5. Cardinality(G) = IF s = "finalized" THEN Cardinality(F) + 1 ELSE Cardinality(F)
      BY <3>1, <3>2, <3>3, FS_AddElement
    <3>6. revision' = saves' + Cardinality(G)
      BY <1>6, <3>3, <3>4, <3>5 DEF RotationInv, ConsoleTypeOK
    <3> QED BY <3>6 DEF G, EveryRevisionIsEarned
  <2> QED BY <1>1, <1>4, <2>4, <2>5, <2>6, <2>7 DEF RotationInv, ConsoleIsTrue
<1> QED BY <1>5, <1>6, CompleteWrites

LEMMA HandlerKeepsRotation ==
  ASSUME RotationInv, NEW r \in Requests, Invoke(r) \/ Answer(r) \/ AnswerIsLost(r) \/ Complete(r)
  PROVE  RotationInv'
<1>1. UNCHANGED proxyVars /\ UNCHANGED <<requests, saves, get>>
  BY DEF Invoke, Answer, AnswerIsLost, Complete
<1>2. ProxyInv' /\ AnswersAreTrue'
  BY <1>1, ConsoleKeepsProxy
<1>3. UNCHANGED <<operation, active, reserved, version, worker, reader>>
  BY <1>1 DEF proxyVars
<1>4. requests[r] # None /\ requests[r].op \in 1..Len(ops)
  <2>1. handler[r] # "idle"
    BY DEF Invoke, Answer, AnswerIsLost, Complete
  <2> QED BY <2>1 DEF RotationInv, RequestInv
<1>5. /\ handler' \in [Requests -> {"idle", "begun", "waiting", "completing", "done"}]
      /\ \A q \in Requests : handler'[q] # "idle" => handler[q] # "idle"
  BY DEF Invoke, Answer, AnswerIsLost, Complete, RotationInv, ConsoleTypeOK
<1>6. CASE Complete(r)
  <2>1. CompleteOp(requests[r].op, result[r]) /\ result' = result
    BY <1>6 DEF Complete
  <2>2. result[r] \in States \cup {"lost"} /\ (result[r] \in Terminal => EndedAs(requests[r].op, result[r]))
    BY <1>4 DEF RotationInv, ConsoleTypeOK, ResultsAreTrue
  <2>3. get' \in [Readers -> 1..MaxOps \cup {None}] /\ \A x \in Readers : get'[x] \in {get[x], None}
    BY <1>1 DEF RotationInv, ConsoleTypeOK
  <2> QED BY <1>1, <1>4, <1>5, <2>1, <2>2, <2>3, CompleteKeepsRotation
<1>7. CASE Invoke(r) \/ Answer(r) \/ AnswerIsLost(r)
  <2>1. UNCHANGED <<ops, revision, rotated>>
    BY <1>7 DEF Invoke, Answer, AnswerIsLost
  <2>2. /\ result' \in [Requests -> States \cup {"lost"}]
        /\ \A q \in Requests \ {r} : result'[q] = result[q]
        /\ \/ result'[r] = result[r]
           \/ worker[r] # None /\ result'[r] = worker[r].answer
    <3>1. worker[r] # None => worker[r].answer \in States \cup {"lost"}
      BY DEF RotationInv, ProxyInv, ProxyTypeOK, Worker
    <3> QED BY <1>7, <3>1 DEF Invoke, Answer, AnswerIsLost, At, RotationInv, ConsoleTypeOK
  <2>3. worker[r] # None /\ worker[r].answer \in Terminal => EndedAs(requests[r].op, worker[r].answer)
    BY DEF RotationInv, AnswersAreTrue, RequestInv
  <2>4. ResultsAreTrue' /\ ResultInv'
    BY <1>1, <1>3, <1>4, <2>2, <2>3 DEF RotationInv, ResultsAreTrue, ResultInv, EndedAs
  <2>5. ConsoleTypeOK' /\ RequestInv' /\ GetInv'
    BY <1>1, <1>3, <1>5, <2>1, <2>2 DEF RotationInv, ConsoleTypeOK, RequestInv, GetInv
  <2>6. ConsoleIsTrue'
    BY <1>1, <1>3, <2>1 DEF RotationInv, ConsoleIsTrue, ConsoleKnowsTheEnd, EveryRevisionIsEarned
  <2> QED BY <1>2, <2>4, <2>5, <2>6 DEF RotationInv
<1> QED BY <1>6, <1>7

LEMMA ReadKeepsRotation ==
  ASSUME RotationInv, NEW x \in Readers,
         Reconcile(x) \/ \E o \in 1..Len(ops) : Get(x, o)
  PROVE  RotationInv'
<1>1. UNCHANGED proxyVars /\ UNCHANGED <<requests, saves, handler, result>>
  BY DEF Get, Reconcile
<1>2. UNCHANGED <<operation, active, reserved, version, worker, reader>>
  BY <1>1 DEF proxyVars
<1>3. CASE Reconcile(x)
  <2> DEFINE state == IF Reads(x, "done") THEN reader[x].answer ELSE "lost"
  <2>1. get[x] \in 1..Len(ops) /\ CompleteOp(get[x], state)
    BY <1>3 DEF Reconcile, RotationInv, GetInv
  <2>2. state \in States \cup {"lost"} /\ (state \in Terminal => EndedAs(get[x], state))
    <3>1. reader[x] # None => reader[x].answer \in States \cup {"lost"} /\ reader[x].op = get[x]
      BY <1>3 DEF Reconcile, RotationInv, ProxyInv, ProxyTypeOK, Reader, GetInv
    <3>2. "lost" \notin Terminal
      BY DEF Terminal
    <3> QED BY <3>1, <3>2 DEF Reads, RotationInv, AnswersAreTrue
  <2>3. get' \in [Readers -> 1..MaxOps \cup {None}] /\ \A z \in Readers : get'[z] \in {get[z], None}
    BY <1>3 DEF Reconcile, RotationInv, ConsoleTypeOK
  <2>4. /\ handler' \in [Requests -> {"idle", "begun", "waiting", "completing", "done"}]
        /\ \A r \in Requests : handler'[r] # "idle" => handler[r] # "idle"
    BY <1>1 DEF RotationInv, ConsoleTypeOK
  <2> HIDE DEF state
  <2> QED BY <1>1, <2>1, <2>2, <2>3, <2>4, CompleteKeepsRotation
<1>4. ASSUME NEW o \in 1..Len(ops), Get(x, o) PROVE RotationInv'
  <2>1. UNCHANGED <<ops, revision, rotated>> /\ reader[x] = None /\ get' = [get EXCEPT ![x] = o]
    BY <1>4 DEF Get
  <2>2. o \in 1..MaxOps
    <3>1. Len(ops) \in Nat /\ Len(ops) <= MaxOps
      BY DEF RotationInv, ConsoleTypeOK
    <3> QED BY <3>1, RotationOps
  <2>3. ConsoleTypeOK' /\ RequestInv' /\ GetInv'
    BY <1>1, <1>2, <2>1, <2>2 DEF RotationInv, ConsoleTypeOK, RequestInv, GetInv
  <2>4. ConsoleIsTrue' /\ ResultInv' /\ ResultsAreTrue'
    BY <1>1, <1>2, <2>1
    DEF RotationInv, ConsoleIsTrue, ConsoleKnowsTheEnd, EveryRevisionIsEarned, ResultInv,
        ResultsAreTrue, EndedAs
  <2> QED BY <1>1, <2>3, <2>4, ConsoleKeepsProxy DEF RotationInv
<1> QED BY <1>3, <1>4

LEMMA SaveKeepsRotation == ASSUME RotationInv, SaveExpiry PROVE RotationInv'
<1>1. UNCHANGED proxyVars /\ UNCHANGED <<ops, requests, rotated, handler, result, get>>
      /\ saves' = saves + 1 /\ revision' = revision + 1
  BY DEF SaveExpiry
<1>2. UNCHANGED <<operation, active, reserved, version, worker, reader>>
  BY <1>1 DEF proxyVars
<1>3. ConsoleTypeOK' /\ RequestInv' /\ GetInv'
  BY <1>1, <1>2 DEF RotationInv, ConsoleTypeOK, RequestInv, GetInv
<1>4. ConsoleKnowsTheEnd' /\ ResultInv' /\ ResultsAreTrue'
  BY <1>1, <1>2 DEF RotationInv, ConsoleIsTrue, ConsoleKnowsTheEnd, ResultInv, ResultsAreTrue, EndedAs
<1>5. EveryRevisionIsEarned'
  <2> DEFINE F == {p \in 1..Len(ops) : ops[p].state = "finalized"}
  <2>1. Cardinality(F) \in Nat
    <3>1. IsFiniteSet(1..Len(ops)) /\ F \in SUBSET (1..Len(ops))
      BY FS_Interval DEF RotationInv, ConsoleTypeOK
    <3> QED BY <3>1, FS_Subset, FS_CardinalityType
  <2>2. revision = saves + Cardinality(F) /\ F' = F
    BY <1>1 DEF RotationInv, ConsoleIsTrue, EveryRevisionIsEarned
  <2> HIDE DEF F
  <2>3. revision' = saves' + Cardinality(F)
    BY <1>1, <2>1, <2>2 DEF RotationInv, ConsoleTypeOK
  <2> QED BY <1>1, <2>3 DEF F, EveryRevisionIsEarned
<1> QED BY <1>1, <1>3, <1>4, <1>5, ConsoleKeepsProxy DEF RotationInv, ConsoleIsTrue

LEMMA InitRotationInv == RotationInit => RotationInv
<1> SUFFICES ASSUME RotationInit PROVE RotationInv
  OBVIOUS
<1>1. ProxyInv
  BY InitProxyInv DEF RotationInit
<1>2. ConsoleTypeOK
  BY RotationOps DEF RotationInit, ConsoleTypeOK
<1>3. RequestInv /\ GetInv /\ AnswersAreTrue /\ ResultsAreTrue /\ ResultInv
  BY DEF RotationInit, ProxyInit, RequestInv, GetInv, AnswersAreTrue, ResultsAreTrue, ResultInv
<1>4. ConsoleKnowsTheEnd
  BY DEF RotationInit, ConsoleKnowsTheEnd
<1>5. EveryRevisionIsEarned
  <2>1. {o \in 1..Len(ops) : ops[o].state = "finalized"} = {} /\ revision = 0 /\ saves = 0
    BY DEF RotationInit
  <2> QED BY <2>1, FS_EmptySet DEF EveryRevisionIsEarned
<1> QED BY <1>1, <1>2, <1>3, <1>4, <1>5 DEF RotationInv, ConsoleIsTrue

LEMMA NextRotationInv == ASSUME RotationInv, [RotationNext]_rotationVars PROVE RotationInv'
<1>1. ASSUME NEW r \in Requests, Stage(r) \/ Invoke(r) \/ Answer(r) \/ AnswerIsLost(r) \/ Complete(r)
      PROVE  RotationInv'
  BY <1>1, StageKeepsRotation, HandlerKeepsRotation
<1>2. ASSUME NEW r \in Requests, NEW a \in {"finalize", "cancel"}, NEW o \in 1..Len(ops), Decide(r, a, o)
      PROVE  RotationInv'
  BY <1>2, DecideKeepsRotation
<1>3. ASSUME NEW x \in Readers, Reconcile(x) \/ \E o \in 1..Len(ops) : Get(x, o)
      PROVE  RotationInv'
  BY <1>3, ReadKeepsRotation
<1>4. CASE Proxy
  BY <1>4, ProxyKeepsRotation
<1>5. CASE SaveExpiry
  BY <1>5, SaveKeepsRotation
<1>6. CASE UNCHANGED rotationVars
  <2>1. UNCHANGED <<operation, active, reserved, version, worker, reader>>
        /\ UNCHANGED <<ops, requests, revision, rotated, saves, handler, result, get>>
    BY <1>6 DEF rotationVars
  <2>2. ConsoleTypeOK' /\ RequestInv' /\ GetInv'
    BY <2>1 DEF RotationInv, ConsoleTypeOK, RequestInv, GetInv
  <2>3. ConsoleIsTrue' /\ ResultInv' /\ ResultsAreTrue'
    BY <2>1
    DEF RotationInv, ConsoleIsTrue, ConsoleKnowsTheEnd, EveryRevisionIsEarned, ResultInv,
        ResultsAreTrue, EndedAs
  <2> QED BY <2>1, <2>2, <2>3, ConsoleKeepsProxy DEF RotationInv, proxyVars
<1> QED BY <1>1, <1>2, <1>3, <1>4, <1>5, <1>6 DEF RotationNext

----------------------------------------------------------------------------
(* Theorems *)

\* The console's operations, requests and answers keep their types and stay linked
\* to the proxy's (secretRotation.js and server.js name an operation alike).
THEOREM RotationInvariant == RotationSpec => []RotationInv
<1>1. RotationInit => RotationInv
  BY InitRotationInv
<1>2. RotationInv /\ [RotationNext]_rotationVars => RotationInv'
  BY NextRotationInv
<1> QED BY <1>1, <1>2, PTL DEF RotationSpec

\* What secretRotation.js records as ended has ended at the proxy in the same way,
\* and every maintenance revision is one registration or one finalized operation.
THEOREM ConsoleTruth == RotationSpec => []ConsoleIsTrue
<1>1. RotationInv => ConsoleIsTrue
  BY DEF RotationInv
<1> QED BY <1>1, RotationInvariant, PTL

\* The proxy called by this console behaves as the proxy on its own: what is proved
\* of it for any caller holds for the console, too.
THEOREM ConsoleUsesProxy == RotationSpec => ProxySpec
<1>1. RotationInit => ProxyInit
  BY DEF RotationInit
<1>2. RotationInv /\ [RotationNext]_rotationVars => [ProxyNext]_proxyVars
  BY NextIsProxyNext DEF RotationInv
<1> QED BY <1>1, <1>2, RotationInvariant, PTL DEF RotationSpec, ProxySpec

\* A version is disabled only by the handler of an owner's finalize or cancel.
LEMMA OwnerDecidesStep ==
  ASSUME RotationInv, [RotationNext]_rotationVars
  PROVE  OwnerStep
<1> SUFFICES ASSUME NEW v \in Versions, version[v] = "enabled", version'[v] = "disabled"
             PROVE  \E r \in Requests :
                      /\ requests[r] # None /\ requests[r].action \in {"finalize", "cancel"}
                      /\ v = GivenUp(operation[requests[r].op])
                      /\ operation[requests[r].op].action = requests[r].action
  BY DEF OwnerStep
<1>1. [ProxyNext]_proxyVars
  BY NextIsProxyNext DEF RotationInv
<1>2. version \in [Versions -> {"absent", "enabled", "disabled"}]
  BY DEF RotationInv, ProxyInv, ProxyTypeOK
<1>3. PICK r \in Requests : Disable(r)
  BY <1>1, <1>2 DEF ProxyNext, proxyVars, Reserve, WorkerStep, ListFails, ListForStage, ListForDisable,
     RejectStage, CaptureOld, Add, RecordStaged, SaveDone, Fail, Read, ReaderStep, GetFirst,
     GetSecond, Confirm, Forget, AddByHand
<1>4. worker[r] # None /\ worker[r].pc = "disabling"
  BY <1>3 DEF Disable, At
<1>5. /\ requests[r] # None /\ reserved[r] = requests[r].op /\ worker[r].action = requests[r].action
      /\ requests[r].action \in Actions
  BY <1>4 DEF RotationInv, RequestInv, ConsoleTypeOK
<1>6. worker[r].action # "stage" /\ Work(r).action = worker[r].action
  BY <1>4 DEF RotationInv, ProxyInv, WorkerInv, WorkerOK
<1>7. v = GivenUp(Work(r))
  BY <1>2, <1>3, <1>6 DEF Disable, GivenUp
<1> QED BY <1>5, <1>6, <1>7 DEF Work, Actions

\* A finalize takes effect on the revision its operation was staged with.
LEMMA FinalizesAsStaged ==
  ASSUME RotationInv, [RotationNext]_rotationVars
  PROVE  FinalizeStep
<1> SUFFICES ASSUME NEW o \in 1..Len(ops), ops[o].state # "finalized", ops'[o].state = "finalized"
             PROVE  revision = ops[o].revision /\ rotated' = o
  BY DEF FinalizeStep
<1>1. ops \in Seq(ConsoleOp) /\ ops[o] \in ConsoleOp /\ Len(ops) \in Nat
  BY DEF RotationInv, ConsoleTypeOK
<1>2. ASSUME NEW p \in 1..Len(ops), NEW state \in States \cup {"lost"}, CompleteOp(p, state)
      PROVE  revision = ops[o].revision /\ rotated' = o
  <2>1. PICK s \in States :
          /\ ops' = [ops EXCEPT ![p].state = s]
          /\ IF s = "finalized"
             THEN revision = ops[p].revision /\ rotated' = p
             ELSE UNCHANGED <<revision, rotated>>
    BY <1>2, CompleteWrites
  <2> QED BY <1>1, <2>1
<1>3. ASSUME NEW r \in Requests, Complete(r) PROVE revision = ops[o].revision /\ rotated' = o
  <2>1. requests[r].op \in 1..Len(ops) /\ result[r] \in States \cup {"lost"}
    BY <1>3 DEF Complete, RotationInv, RequestInv, ConsoleTypeOK
  <2> QED BY <1>2, <1>3, <2>1 DEF Complete
<1>4. ASSUME NEW x \in Readers, Reconcile(x) PROVE revision = ops[o].revision /\ rotated' = o
  <2>1. get[x] \in 1..Len(ops) /\ (reader[x] # None => reader[x].answer \in States \cup {"lost"})
    BY <1>4 DEF Reconcile, RotationInv, GetInv, ProxyInv, ProxyTypeOK, Reader
  <2>2. (IF Reads(x, "done") THEN reader[x].answer ELSE "lost") \in States \cup {"lost"}
    BY <2>1 DEF Reads
  <2> QED BY <1>2, <1>4, <2>1, <2>2 DEF Reconcile
<1>5. ASSUME NEW r \in Requests, Stage(r) PROVE FALSE
  <2>1. [state |-> Pending["stage"], action |-> "stage", request |-> r, revision |-> revision] \in ConsoleOp
    BY DEF ConsoleOp, States, Pending, Actions, RotationInv, ConsoleTypeOK
  <2>2. ops'[o] = ops[o]
    BY <1>1, <1>5, <2>1, AppendProperties DEF Stage
  <2> QED BY <2>2
<1>6. ASSUME NEW r \in Requests, NEW a \in {"finalize", "cancel"}, NEW p \in 1..Len(ops), Decide(r, a, p)
      PROVE  FALSE
  <2>1. Pending[a] # "finalized"
    BY DEF Pending
  <2> QED BY <1>1, <1>6, <2>1 DEF Decide, ConsoleOp
<1>7. ops' # ops
  OBVIOUS
<1> QED BY <1>3, <1>4, <1>5, <1>6, <1>7
        DEF RotationNext, rotationVars, Invoke, Answer, AnswerIsLost, Get, Proxy, consoleVars, SaveExpiry

\* Only what the owner has decided disables a version, whatever is lost, late or
\* replayed between secretRotation.js and the proxy, and a finalize counts only on
\* the maintenance revision it was staged with.
THEOREM OwnerAlwaysDecides == RotationSpec => [][OwnerStep /\ FinalizeStep]_rotationVars
<1>1. RotationInv /\ [RotationNext]_rotationVars => OwnerStep /\ FinalizeStep
  BY OwnerDecidesStep, FinalizesAsStaged
<1> QED BY <1>1, RotationInvariant, PTL DEF RotationSpec

\* The same among the parts of a run, one of which is the proxy that anyone calls.
THEOREM OwnerDecidesAmongParts == MCSpec => OwnerDecides
<1> DEFINE PartInv == part = "console" => RotationInv
<1>1. MCInit => PartInv
  BY InitRotationInv DEF MCInit
<1>2. ASSUME PartInv, [MCNext]_<<part, rotationVars>>
      PROVE  PartInv' /\ [part = "console" => OwnerStep /\ FinalizeStep]_rotationVars
  <2>1. CASE part = "console"
    <3>1. part' = part /\ [RotationNext]_rotationVars
      BY <1>2, <2>1 DEF MCNext
    <3> QED BY <1>2, <2>1, <3>1, NextRotationInv, OwnerDecidesStep, FinalizesAsStaged
  <2>2. CASE part # "console"
    BY <1>2, <2>2 DEF MCNext
  <2> QED BY <2>1, <2>2
<1> QED BY <1>1, <1>2, PTL DEF MCSpec, OwnerDecides
=============================================================================
