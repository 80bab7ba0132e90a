--------------------------- MODULE RotationProxy ---------------------------
(***************************************************************************)
(* The secret rotation proxy (web/secret-rotation-proxy): a stateless HTTP *)
(* service over a Firestore store of operations (replayStore.js), the      *)
(* target secret in Secret Manager (secretManager.js) and the handler that *)
(* drives both (server.js).  Every call to either may be lost before or    *)
(* after it took effect.  Nonces and signatures are left out: requests     *)
(* reach the model authenticated, and a request id stands for its          *)
(* fingerprint.                                                            *)
(***************************************************************************)
EXTENDS FiniteSets

CONSTANTS
  Ops,       \* operation ids
  Requests,  \* request ids of mutations
  Readers,   \* handlers of GET requests, and of replayed mutations
  Versions,  \* versions the target secret may come to have
  First,     \* the version that is enabled at first
  None

ASSUME ProxyVersions == First \in Versions /\ None \notin Versions
ASSUME ProxyNames == None \notin Ops /\ None \notin Requests

VARIABLES
  operation,  \* Firestore operations/: state, action, request, old and new version
  active,     \* Firestore credentials/ibkr_flex: the operation that holds the secret
  reserved,   \* Firestore requests/: the operation a request was accepted for
  version,    \* Secret Manager
  worker,     \* the handler of an accepted request
  reader      \* a handler that only reconciles

proxyVars == <<operation, active, reserved, version, worker, reader>>

Actions == {"stage", "finalize", "cancel"}
Pending == [stage |-> "adding_version", finalize |-> "finalizing", cancel |-> "canceling"]
Unknown == [stage |-> "add_unknown", finalize |-> "finalize_unknown", cancel |-> "cancel_unknown"]
Done == [stage |-> "staged", finalize |-> "finalized", cancel |-> "canceled"]
Terminal == {"finalized", "canceled", "failed"}
States == {Pending[a] : a \in Actions} \cup {Unknown[a] : a \in Actions}
          \cup {Done[a] : a \in Actions} \cup {"failed"}

Operation ==
  [state : States, action : Actions, request : Requests,
   old : Versions \cup {None}, new : Versions \cup {None}]
Worker ==
  [pc : {"listing", "capturing", "adding", "recording", "disabling", "saving",
         "rejecting", "failing", "done"},
   action : Actions, old : Versions \cup {None}, new : Versions \cup {None},
   answer : States \cup {"lost"}]
Reader ==
  [op : Ops, seen : Operation, pc : {"old", "new", "confirming", "done"},
   answer : States \cup {"lost"}]

ASSUME ProxyRecords == None \notin Operation /\ None \notin Worker /\ None \notin Reader

ProxyTypeOK ==
  /\ operation \in [Ops -> Operation \cup {None}]
  /\ active \in Ops \cup {None}
  /\ reserved \in [Requests -> Ops \cup {None}]
  /\ version \in [Versions -> {"absent", "enabled", "disabled"}]
  /\ worker \in [Requests -> Worker \cup {None}]
  /\ reader \in [Readers -> Reader \cup {None}]

Enabled == {v \in Versions : version[v] = "enabled"}

----------------------------------------------------------------------------
(* The store *)

\* The handler goes on, or its transaction committed without an answer.
Accepted(r, a) ==
  \E pc \in {"listing", "done"} :
    worker' = [worker EXCEPT ![r] =
      [pc |-> pc, action |-> a, old |-> None, new |-> None, answer |-> "lost"]]

ReserveWhileStaged(r, a, o) ==
  /\ reserved[r] = None
  /\ IF a = "stage" THEN operation[o] = None /\ active = None
                    ELSE operation[o] # None
                         /\ operation[o].state \in {"staged", "finalizing", "canceling"}
  /\ reserved' = [reserved EXCEPT ![r] = o]
  /\ operation' = [operation EXCEPT ![o] =
       [state |-> Pending[a], action |-> a, request |-> r,
        old |-> IF a = "stage" THEN None ELSE @.old,
        new |-> IF a = "stage" THEN None ELSE @.new]]
  /\ active' = o
  /\ Accepted(r, a)
  /\ UNCHANGED <<version, reader>>

ReserveBesideActive(r, a, o) ==
  /\ reserved[r] = None
  /\ IF a = "stage" THEN operation[o] = None
                    ELSE operation[o] # None /\ operation[o].state = "staged"
  /\ reserved' = [reserved EXCEPT ![r] = o]
  /\ operation' = [operation EXCEPT ![o] =
       [state |-> Pending[a], action |-> a, request |-> r,
        old |-> IF a = "stage" THEN None ELSE @.old,
        new |-> IF a = "stage" THEN None ELSE @.new]]
  /\ active' = o
  /\ Accepted(r, a)
  /\ UNCHANGED <<version, reader>>

\* reserve, where it accepts a new mutation.  (A conflict changes nothing; a
\* request that is already reserved is served as a reader.)
Reserve(r, a, o) ==
  /\ reserved[r] = None
  /\ IF a = "stage" THEN operation[o] = None /\ active = None
                    ELSE operation[o] # None /\ operation[o].state = "staged"
  /\ reserved' = [reserved EXCEPT ![r] = o]
  /\ operation' = [operation EXCEPT ![o] =
       [state |-> Pending[a], action |-> a, request |-> r,
        old |-> IF a = "stage" THEN None ELSE @.old,
        new |-> IF a = "stage" THEN None ELSE @.new]]
  /\ active' = o
  /\ Accepted(r, a)
  /\ UNCHANGED <<version, reader>>

UpdateBlindly(o, record, expected) ==
  /\ operation' = [operation EXCEPT ![o] = record]
  /\ active' = IF active = o /\ record.state \in Terminal THEN None ELSE active

\* update: a record is replaced only in the state the handler knows it in, and
\* an operation that ends gives the secret free.
Update(o, record, expected) ==
  IF operation[o].state = expected
  THEN /\ operation' = [operation EXCEPT ![o] = record]
       /\ active' = IF active = o /\ record.state \in Terminal THEN None ELSE active
  ELSE UNCHANGED <<operation, active>>

\* An update of a worker goes through and is answered (it goes on as `next`),
\* or an error sends the handler to its catch block, committed or not.
WorkerUpdate(r, record, next) ==
  LET o == reserved[r] IN
  \/ /\ Update(o, record, Pending[worker[r].action])
     /\ worker' = [worker EXCEPT ![r].pc = next, ![r].answer = operation'[o].state]
  \/ /\ Update(o, record, Pending[worker[r].action])
     /\ worker' = [worker EXCEPT ![r].pc = "failing"]
  \/ /\ UNCHANGED <<operation, active>>
     /\ worker' = [worker EXCEPT ![r].pc = "failing"]

At(r, pc) == worker[r] # None /\ worker[r].pc = pc
Work(r) == operation[reserved[r]]

----------------------------------------------------------------------------
(* The handler of an accepted request *)

\* manager.list fails in the transport, for any request.
ListFails(r) ==
  /\ At(r, "listing")
  /\ worker' = [worker EXCEPT ![r].pc = "failing"]
  /\ UNCHANGED <<operation, active, reserved, version, reader>>

\* A stage needs exactly one enabled version, which it will replace.
ListForStage(r) ==
  /\ At(r, "listing") /\ worker[r].action = "stage"
  /\ IF Cardinality(Enabled) = 1
     THEN \E v \in Enabled :
            worker' = [worker EXCEPT ![r].pc = "capturing", ![r].old = v]
     ELSE worker' = [worker EXCEPT ![r].pc = "rejecting"]
  /\ UNCHANGED <<operation, active, reserved, version, reader>>

\* Finalize and cancel need the captured pair to be all that is enabled; drift
\* leaves the operation unknown, as an error does.
ListForDisable(r) ==
  /\ At(r, "listing") /\ worker[r].action # "stage"
  /\ LET pair == {Work(r).old, Work(r).new} IN
     worker' = [worker EXCEPT ![r].pc =
       IF None \notin pair /\ Cardinality(pair) = 2 /\ Enabled = pair
       THEN "disabling" ELSE "failing"]
  /\ UNCHANGED <<operation, active, reserved, version, reader>>

RejectStage(r) ==
  /\ At(r, "rejecting")
  /\ WorkerUpdate(r, [Work(r) EXCEPT !.state = "failed"], "done")
  /\ UNCHANGED <<reserved, version, reader>>

CaptureOld(r) ==
  /\ At(r, "capturing")
  /\ WorkerUpdate(r, [Work(r) EXCEPT !.old = worker[r].old], "adding")
  /\ UNCHANGED <<reserved, version, reader>>

\* manager.add; the version may exist although the call failed.
Add(r) ==
  /\ At(r, "adding")
  /\ \/ \E v \in Versions :
          /\ version[v] = "absent"
          /\ version' = [version EXCEPT ![v] = "enabled"]
          /\ \/ worker' = [worker EXCEPT ![r].pc = "recording", ![r].new = v]
             \/ worker' = [worker EXCEPT ![r].pc = "failing"]
     \/ worker' = [worker EXCEPT ![r].pc = "failing"] /\ UNCHANGED version
  /\ UNCHANGED <<operation, active, reserved, reader>>

RecordStaged(r) ==
  /\ At(r, "recording")
  /\ WorkerUpdate(r, [Work(r) EXCEPT !.state = "staged", !.old = worker[r].old,
                                     !.new = worker[r].new], "done")
  /\ UNCHANGED <<reserved, version, reader>>

DisableOther(r) ==
  /\ At(r, "disabling")
  /\ LET target == IF worker[r].action = "finalize" THEN Work(r).new ELSE Work(r).old IN
     \E pc \in {"saving", "failing"} :
       /\ version' = [version EXCEPT ![target] = "disabled"]
       /\ worker' = [worker EXCEPT ![r].pc = pc]
  /\ UNCHANGED <<operation, active, reserved, reader>>

\* manager.disable of the version the action gives up.
Disable(r) ==
  /\ At(r, "disabling")
  /\ LET target == IF worker[r].action = "finalize" THEN Work(r).old ELSE Work(r).new IN
     \/ /\ version' = [version EXCEPT ![target] = "disabled"]
        /\ \/ worker' = [worker EXCEPT ![r].pc = "saving"]
           \/ worker' = [worker EXCEPT ![r].pc = "failing"]
     \/ worker' = [worker EXCEPT ![r].pc = "failing"] /\ UNCHANGED version
  /\ UNCHANGED <<operation, active, reserved, reader>>

SaveDone(r) ==
  /\ At(r, "saving")
  /\ WorkerUpdate(r, [Work(r) EXCEPT !.state = Done[worker[r].action]], "done")
  /\ UNCHANGED <<reserved, version, reader>>

\* The catch block writes the handler's own copy of the operation, in which a
\* version it has not stored is missing; if that fails too, the answer is unknown.
Fail(r) ==
  /\ At(r, "failing")
  /\ LET o == reserved[r]
         a == worker[r].action
         copy == [Work(r) EXCEPT !.state = Unknown[a],
                                 !.old = IF a = "stage" THEN worker[r].old ELSE @]
     IN \/ /\ Update(o, copy, Pending[a])
           /\ worker' = [worker EXCEPT ![r].pc = "done", ![r].answer = operation'[o].state]
        \/ /\ \/ Update(o, copy, Pending[a])
              \/ UNCHANGED <<operation, active>>
           /\ worker' = [worker EXCEPT ![r].pc = "done", ![r].answer = Unknown[a]]
  /\ UNCHANGED <<reserved, version, reader>>

----------------------------------------------------------------------------
(* Reading and reconciling *)

\* What reconcile answers when it confirms nothing.
Unconfirmed(op) == IF op.state = Pending[op.action] THEN Unknown[op.action] ELSE op.state

Reconcilable(op) ==
  /\ op.state \in {"finalizing", "finalize_unknown", "canceling", "cancel_unknown"}
  /\ op.old # None /\ op.new # None

\* reserve of a read, and the operation it returns.
Read(x, o) ==
  /\ reader[x] = None
  /\ operation[o] # None
  /\ reader' = [reader EXCEPT ![x] =
       [op |-> o, seen |-> operation[o],
        pc |-> IF Reconcilable(operation[o]) THEN "old" ELSE "done",
        answer |-> Unconfirmed(operation[o])]]
  /\ UNCHANGED <<operation, active, reserved, version, worker>>

Reads(x, pc) == reader[x] # None /\ reader[x].pc = pc

\* The version that action a gives up, and the one it keeps.
GivenUp(op) == IF op.action = "finalize" THEN op.old ELSE op.new
Kept(op) == IF op.action = "finalize" THEN op.new ELSE op.old

\* The two manager.get calls of reconcile, one after the other; either may fail.
GetFirst(x) ==
  /\ Reads(x, "old")
  /\ LET op == reader[x].seen
         first == IF op.action = "finalize" THEN version[op.old] = "disabled"
                                            ELSE version[op.old] = "enabled"
     IN \E pc \in {"done"} \cup (IF first THEN {"new"} ELSE {}) :
          reader' = [reader EXCEPT ![x].pc = pc]
  /\ UNCHANGED <<operation, active, reserved, version, worker>>

ConfirmUnseen(x) ==
  /\ Reads(x, "new")
  /\ \E pc \in {"done", "confirming"} : reader' = [reader EXCEPT ![x].pc = pc]
  /\ UNCHANGED <<operation, active, reserved, version, worker>>

GetSecond(x) ==
  /\ Reads(x, "new")
  /\ LET op == reader[x].seen
         second == IF op.action = "finalize" THEN version[op.new] = "enabled"
                                             ELSE version[op.new] = "disabled"
     IN \E pc \in {"done"} \cup (IF second THEN {"confirming"} ELSE {}) :
          reader' = [reader EXCEPT ![x].pc = pc]
  /\ UNCHANGED <<operation, active, reserved, version, worker>>

\* A confirmed write is saved, unless another handler has moved the operation.
Confirm(x) ==
  /\ Reads(x, "confirming")
  /\ LET o == reader[x].op
         seen == reader[x].seen
         confirmed == [seen EXCEPT !.state = Done[seen.action]]
     IN \/ /\ Update(o, confirmed, seen.state)
           /\ reader' = [reader EXCEPT ![x].pc = "done",
                                       ![x].answer = operation'[o].state]
        \/ /\ \/ Update(o, confirmed, seen.state)
              \/ UNCHANGED <<operation, active>>
           /\ reader' = [reader EXCEPT ![x].pc = "done"]
  /\ UNCHANGED <<reserved, version, worker>>

\* Somebody adds a version by hand.
AddByHand(v) ==
  /\ version[v] = "absent"
  /\ version' = [version EXCEPT ![v] = "enabled"]
  /\ UNCHANGED <<operation, active, reserved, worker, reader>>

Forget(x) ==
  /\ Reads(x, "done")
  /\ reader' = [reader EXCEPT ![x] = None]
  /\ UNCHANGED <<operation, active, reserved, version, worker>>

ProxyInit ==
  /\ operation = [o \in Ops |-> None]
  /\ active = None
  /\ reserved = [r \in Requests |-> None]
  /\ version = [v \in Versions |-> IF v = First THEN "enabled" ELSE "absent"]
  /\ worker = [r \in Requests |-> None]
  /\ reader = [x \in Readers |-> None]

WorkerStep(r) ==
  \/ ListFails(r) \/ ListForStage(r) \/ ListForDisable(r) \/ RejectStage(r)
  \/ CaptureOld(r) \/ Add(r) \/ RecordStaged(r) \/ Disable(r) \/ SaveDone(r) \/ Fail(r)

ReaderStep(x) == GetFirst(x) \/ GetSecond(x) \/ Confirm(x)

ProxyNext ==
  \/ \E r \in Requests, a \in Actions, o \in Ops : Reserve(r, a, o)
  \/ \E r \in Requests : WorkerStep(r)
  \/ \E x \in Readers, o \in Ops : Read(x, o)
  \/ \E x \in Readers : ReaderStep(x) \/ Forget(x)
  \/ \E v \in Versions : AddByHand(v)

ProxySpec == ProxyInit /\ [][ProxyNext]_proxyVars

----------------------------------------------------------------------------
(* Properties *)

\* Whatever is lost, repeated or added by hand, some version of the credential
\* stays enabled.
NeverWithoutCredential == Enabled # {}

\* One operation holds the secret at a time: no other one is undecided.
OneOperation ==
  \A o \in Ops : operation[o] # None /\ operation[o].state \notin Terminal => active = o

\* An operation that is recorded as finalized or canceled by one step has really
\* left exactly one version of its pair enabled, and the right one.
EndsAsRecorded ==
  [][\A o \in Ops :
       /\ operation'[o] # None /\ operation'[o].state \in {"finalized", "canceled"}
       /\ operation[o].state \notin Terminal
       => /\ version[GivenUp(operation'[o])] = "disabled"
          /\ version[Kept(operation'[o])] = "enabled"]_proxyVars

\* Neither a handler that comes late nor a reader changes an ended operation.
EndedIsFinal ==
  [][\A o \in Ops :
       operation[o] # None /\ operation[o].state \in Terminal
         => operation'[o] = operation[o]]_proxyVars
=============================================================================
