--------------------------- MODULE SecretRotation ---------------------------
(***************************************************************************)
(* Rotating the shared credential: the console's durable operations        *)
(* (secretRotation.js), which share a SQLite transaction with the          *)
(* maintenance record (credentialMaintenance.js), its HTTP handlers, and   *)
(* the proxy they call (RotationProxy).  The step-up factor is the         *)
(* environment's: an attempt whose factor is refused only counts against   *)
(* the throttle.                                                           *)
(***************************************************************************)
EXTENDS RotationProxy, Naturals, Sequences

CONSTANTS
  MaxOps,    \* bound: operations the console starts
  MaxSaves   \* bound: registrations of an expiry by an operator

ASSUME RotationOps == MaxOps \in Nat /\ MaxSaves \in Nat /\ 1..MaxOps \subseteq Ops
ASSUME RotationRequests == None \notin [op : 1..MaxOps, action : Actions]

VARIABLES
  ops,       \* credential_rotation_operations, in the order of their rows
  requests,  \* credential_rotation_requests: the operation and action of a request
  revision,  \* credential_maintenance_metadata: its revision
  rotated,   \* and the operation that set its last_rotated_at
  saves,     \* expiries registered by operators
  handler,   \* POST handler of a request
  result,    \* what it knows of the proxy's answer
  get        \* GET handlers: the operation they reconcile

consoleVars == <<ops, requests, revision, rotated, saves, handler, result, get>>
rotationVars == <<operation, active, reserved, version, worker, reader,
                  ops, requests, revision, rotated, saves, handler, result, get>>

ConsoleOp == [state : States, action : Actions, request : Requests, revision : Nat]

\* Unknown outcomes are neither ended nor staged: they block what comes next.
NothingOpen == ops # <<>> => ops[Len(ops)].state \in Terminal

----------------------------------------------------------------------------
(* rotation_begin *)

Begun(r, o, a) ==
  /\ requests' = [requests EXCEPT ![r] = [op |-> o, action |-> a]]
  /\ handler' = [handler EXCEPT ![r] = "begun"]
  /\ UNCHANGED <<revision, rotated, saves, result, get>>
  /\ UNCHANGED proxyVars

\* A new operation, once the latest one has ended.
Stage(r) ==
  /\ requests[r] = None
  /\ NothingOpen
  /\ Len(ops) < MaxOps
  /\ ops' = Append(ops, [state |-> Pending["stage"], action |-> "stage",
                         request |-> r, revision |-> revision])
  /\ Begun(r, Len(ops) + 1, "stage")

\* Finalize or cancel, of a staged operation; finalize also needs the maintenance
\* revision the operation was staged with.
Decide(r, a, o) ==
  /\ requests[r] = None
  /\ ops[o].state = "staged"
  /\ a = "finalize" => revision = ops[o].revision
  /\ ops' = [ops EXCEPT ![o].state = Pending[a], ![o].action = a, ![o].request = r]
  /\ Begun(r, o, a)

----------------------------------------------------------------------------
(* rotation_complete *)

OutcomeFailsOnError(op, state) ==
  CASE state = Done[op.action] -> state
    [] state \in {"failed", "lost"} -> "failed"
    [] OTHER -> Unknown[op.action]

\* The new state of an operation, given what the proxy says of it.
Outcome(op, state) ==
  CASE state = Done[op.action] -> state
    [] state = "failed" -> "failed"
    [] OTHER -> Unknown[op.action]

\* An operation that has ended, or is staged, stays as it is.  A confirmed
\* finalize updates the maintenance record in the same transaction, or stays
\* unknown where that record has moved on.
CompleteOp(o, state) ==
  IF ops[o].state \in Terminal \cup {"staged"}
  THEN UNCHANGED <<ops, revision, rotated>>
  ELSE LET outcome == Outcome(ops[o], state) IN
       IF outcome = "finalized" /\ revision # ops[o].revision
       THEN ops' = [ops EXCEPT ![o].state = "finalize_unknown"] /\ UNCHANGED <<revision, rotated>>
       ELSE /\ ops' = [ops EXCEPT ![o].state = outcome]
            /\ IF outcome = "finalized" THEN revision' = revision + 1 /\ rotated' = o
                                        ELSE UNCHANGED <<revision, rotated>>

----------------------------------------------------------------------------
(* The POST handler after rotation_begin *)

Invoke(r) ==
  /\ handler[r] = "begun"
  /\ handler' = [handler EXCEPT ![r] = "waiting"]
  /\ UNCHANGED <<ops, requests, revision, rotated, saves, result, get>>
  /\ UNCHANGED proxyVars

\* The proxy's answer, or (AnswerIsLost) none within five seconds.
Answer(r) ==
  /\ handler[r] = "waiting"
  /\ handler' = [handler EXCEPT ![r] = "completing"]
  /\ At(r, "done")
  /\ result' = [result EXCEPT ![r] = worker[r].answer]
  /\ UNCHANGED <<ops, requests, revision, rotated, saves, get>>
  /\ UNCHANGED proxyVars

AnswerIsLost(r) ==
  /\ handler[r] = "waiting"
  /\ handler' = [handler EXCEPT ![r] = "completing"]
  /\ UNCHANGED <<ops, requests, revision, rotated, saves, result, get>>
  /\ UNCHANGED proxyVars

Complete(r) ==
  /\ handler[r] = "completing"
  /\ handler' = [handler EXCEPT ![r] = "done"]
  /\ CompleteOp(requests[r].op, result[r])
  /\ UNCHANGED <<requests, saves, result, get>>
  /\ UNCHANGED proxyVars

----------------------------------------------------------------------------
(* The GET handler, the proxy, and the operators *)

\* rotation_read finds an operation to reconcile.
Get(x, o) ==
  /\ get[x] = None /\ reader[x] = None
  /\ ops[o].state \notin Terminal \cup {"staged"}
  /\ get' = [get EXCEPT ![x] = o]
  /\ UNCHANGED <<ops, requests, revision, rotated, saves, handler, result>>
  /\ UNCHANGED proxyVars

\* Its rotation_complete, with the answer of its read, if it has one by then (the
\* proxy works on without it).
Reconcile(x) ==
  /\ get[x] # None
  /\ get' = [get EXCEPT ![x] = None]
  /\ CompleteOp(get[x], IF Reads(x, "done") THEN reader[x].answer ELSE "lost")
  /\ UNCHANGED <<requests, saves, handler, result>>
  /\ UNCHANGED proxyVars

\* The proxy receives what a handler has sent, however late, and serves reads.
Proxy ==
  /\ \/ \E r \in Requests :
          \/ /\ handler[r] \in {"waiting", "completing", "done"}
             /\ Reserve(r, requests[r].action, requests[r].op)
          \/ WorkerStep(r)
     \/ \E x \in Readers :
          \/ get[x] # None /\ Read(x, get[x])
          \/ ReaderStep(x)
          \/ get[x] = None /\ Forget(x)
     \/ \E v \in Versions : AddByHand(v)
  /\ UNCHANGED consoleVars

\* credential_maintenance_save of another expiry.
SaveExpiry ==
  /\ saves < MaxSaves
  /\ saves' = saves + 1
  /\ revision' = revision + 1
  /\ UNCHANGED <<ops, requests, rotated, handler, result, get>>
  /\ UNCHANGED proxyVars

RotationInit ==
  /\ ProxyInit
  /\ ops = <<>>
  /\ requests = [r \in Requests |-> None]
  /\ revision = 0 /\ rotated = None /\ saves = 0
  /\ handler = [r \in Requests |-> "idle"]
  /\ result = [r \in Requests |-> "lost"]
  /\ get = [x \in Readers |-> None]

RotationNext ==
  \/ \E r \in Requests :
       Stage(r) \/ Invoke(r) \/ Answer(r) \/ AnswerIsLost(r) \/ Complete(r)
  \/ \E r \in Requests, a \in {"finalize", "cancel"}, o \in 1..Len(ops) : Decide(r, a, o)
  \/ \E x \in Readers, o \in 1..Len(ops) : Get(x, o)
  \/ \E x \in Readers : Reconcile(x)
  \/ Proxy
  \/ SaveExpiry

RotationSpec == RotationInit /\ [][RotationNext]_rotationVars

----------------------------------------------------------------------------
(* Properties *)

\* What the console reports as ended has ended at the proxy in the same way, so
\* that the next stage finds the secret free.
ConsoleKnowsTheEnd ==
  \A o \in 1..Len(ops) :
    ops[o].state \in Terminal => operation[o] # None /\ operation[o].state = ops[o].state

\* Every revision of the maintenance record is one operator's registration or one
\* finalized operation: no operation is counted twice and none is lost.
EveryRevisionIsEarned ==
  revision = saves + Cardinality({o \in 1..Len(ops) : ops[o].state = "finalized"})
\* The console's record is what really happened.
ConsoleIsTrue == ConsoleKnowsTheEnd /\ EveryRevisionIsEarned

\* Only the owner's finalize retires a version the operation found, and only the
\* owner's cancel the one it added.
OwnerStep ==
  \A v \in Versions :
    version[v] = "enabled" /\ version'[v] = "disabled" =>
      \E r \in Requests :
        /\ requests[r] # None /\ requests[r].action \in {"finalize", "cancel"}
        /\ v = GivenUp(operation[requests[r].op])
        /\ operation[requests[r].op].action = requests[r].action

\* Newer maintenance data is never overwritten: a finalize takes effect on the
\* revision its operation was staged with, or not at all.
FinalizeStep ==
  \A o \in 1..Len(ops) :
    ops[o].state # "finalized" /\ ops'[o].state = "finalized"
      => revision = ops[o].revision /\ rotated' = o
=============================================================================
