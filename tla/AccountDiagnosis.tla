-------------------------- MODULE AccountDiagnosis --------------------------
(***************************************************************************)
(* The diagnosis of an account that needs attention: a task is created in  *)
(* the Durable Object, sent once to a native advisory service, read back,  *)
(* possibly cancelled, and its result asks for one recheck.  Handlers read *)
(* a task, talk to the service and then send a command, so several can be  *)
(* under way on one task.  The tasks of one target are modelled.           *)
(***************************************************************************)
EXTENDS Naturals, FiniteSets

CONSTANTS
  Handler,      \* HTTP requests and scheduled syncs in progress
  MaxTask,      \* bound on the tasks of the target
  WorkerAttempt,        \* worker attempts of the native service
  Output,       \* what its results may say, out of "succeeded", "failed" and "unknown"
  Nil

VARIABLES
  tasks,      \* [Task -> Nil or row]: account_diagnosis_tasks
  expired,    \* [Task -> BOOLEAN]: the deadline of its native operation is past
  native,     \* [Task -> Nil or [status, claim, output]]: the service's record
  sent,       \* [Task -> [post, cancel, recheck : Nat]]: requests that left the worker
  work        \* [Handler -> Nil or what it holds]

diagnosisVars == <<tasks, expired, native, sent, work>>

Task == 1..MaxTask

----------------------------------------------------------------------------
(* The checks of a target, whether they call for a diagnosis, and what a   *)
(* later observation says of the recheck.                                  *)

Checks ==
  [configured : {"enabled", "disabled", "unknown"}, runtime : {"true", "false", "null"},
   scheduler : {"enabled", "paused", "unknown"}, guard : {"pass", "attention", "unavailable"},
   heartbeat : {"pass", "attention", "unavailable", "not_due", "not_applicable"},
   freshness : {"ready", "stale", "unavailable"}]

HasConfirmedAttention(c) ==
  /\ c.freshness \in {"ready", "stale"}
  /\ \/ c.freshness = "stale"
     \/ c.configured # "disabled" /\ c.runtime = "false"
     \/ c.configured = "enabled" /\ c.scheduler = "paused"
     \/ "attention" \in {c.guard, c.heartbeat}

RecheckStatus(c) ==
  LET told == ~(\/ "unavailable" \in {c.guard, c.heartbeat}
                \/ c.runtime = "null" \/ c.scheduler = "unknown")
  IN CASE c.freshness # "ready" -> "sent"
       [] c.freshness = "ready" /\ told /\ c.configured = "enabled" ->
            IF /\ c.runtime = "true" /\ c.scheduler = "enabled"
               /\ c.guard = "pass" /\ c.heartbeat \in {"pass", "not_due"}
            THEN "passed" ELSE "attention"
       [] c.freshness = "ready" /\ told /\ c.configured = "disabled" ->
            IF /\ c.runtime = "false" /\ c.scheduler = "paused"
               /\ c.guard = "pass" /\ c.heartbeat = "not_applicable"
            THEN "passed" ELSE "attention"
       [] OTHER -> "unavailable"

----------------------------------------------------------------------------
(* What a task, the service and a handler may hold.                         *)

Known == {"queued", "running", "unknown", "succeeded", "failed"}
NativeTask ==
  [taskId : BOOLEAN, claim : WorkerAttempt \cup {Nil}, phase : {"intent", "pending", "hold", "terminal"},
   output : Output \cup {Nil}, receipt : ((WorkerAttempt \cup {Nil}) \X Known) \cup {Nil},
   cancelRequested : BOOLEAN, cancelSent : BOOLEAN]
DiagnosisTask ==
  [status : Known, dispatch : {"pending", "sent", "unknown"},
   recheck : {"not_requested", "pending", "sent", "unknown"}, native : NativeTask \cup {Nil}]
ServiceTask ==
  [status : {"queued", "running", "completed", "outcome_unknown", "cancelled"},
   claim : WorkerAttempt \cup {Nil}, output : Output \cup {Nil}]
HeldByHandler ==
  [at : {"intent", "post", "stop", "fetch", "evaluate", "save", "hold", "recheck", "recheck sent",
         "recheck unknown", "mark sent", "mark unknown"},
   task : Task, creator : BOOLEAN, cancel : BOOLEAN, held : NativeTask \cup {Nil},
   record : ServiceTask \cup {Nil}, status : Known \cup {Nil}, late : BOOLEAN]
Counts == [post : Nat, cancel : Nat, recheck : Nat]

\* What a result may say, as the contract with the service lists it.
ASSUME DiagnosisInputs == Output \subseteq {"succeeded", "failed", "unknown"} /\ MaxTask \in Nat

\* Nil is told from whatever is there.
ASSUME DiagnosisNulls ==
  /\ Nil \notin WorkerAttempt /\ Nil \notin Output /\ Nil \notin Known
  /\ Nil \notin ((WorkerAttempt \cup {Nil}) \X Known)
  /\ Nil \notin NativeTask /\ Nil \notin DiagnosisTask /\ Nil \notin ServiceTask
  /\ Nil \notin HeldByHandler

----------------------------------------------------------------------------
DiagnosisInit ==
  /\ tasks = [t \in Task |-> Nil]
  /\ expired = [t \in Task |-> FALSE]
  /\ native = [t \in Task |-> Nil]
  /\ sent = [t \in Task |-> [post |-> 0, cancel |-> 0, recheck |-> 0]]
  /\ work = [h \in Handler |-> Nil]

Open(t) == tasks[t] # Nil /\ tasks[t].status \in {"queued", "running", "unknown"}
MayCreateAfterUnknown == ~\E t \in Task : Open(t) /\ tasks[t].status # "unknown"
MayCreate == ~\E t \in Task : Open(t)

Goto(h, at) ==
  work' = [work EXCEPT ![h] = [@ EXCEPT !.at = at, !.held = Nil, !.record = Nil, !.status = Nil, !.late = FALSE]]
Leave(h) == work' = [work EXCEPT ![h] = Nil]

(* A new task.  An unresolved one of the target is answered instead, and   *)
(* so is a recent one with the same state or source: such a request then   *)
(* changes nothing.                                                        *)
Create(h) ==
  /\ work[h] = Nil
  /\ MayCreate
  /\ \E t \in Task :
       /\ tasks[t] = Nil /\ \A u \in 1..(t - 1) : tasks[u] # Nil
       /\ tasks' = [tasks EXCEPT ![t] =
            [status |-> "queued", dispatch |-> "pending", recheck |-> "not_requested", native |-> Nil]]
       /\ work' = [work EXCEPT ![h] =
            [at |-> "intent", task |-> t, creator |-> TRUE, cancel |-> FALSE,
             held |-> Nil, record |-> Nil, status |-> Nil, late |-> FALSE]]
  /\ UNCHANGED <<expired, native, sent>>

(* diagnosis_native_intent, by the only handler that knows the new task.   *)
Intent(h) ==
  /\ work[h] # Nil /\ work[h].at = "intent"
  /\ LET t == work[h].task
         intent == [taskId |-> FALSE, claim |-> Nil, phase |-> "intent", output |-> Nil,
                    receipt |-> Nil, cancelRequested |-> FALSE, cancelSent |-> FALSE]
     IN /\ tasks[t].native = Nil /\ tasks[t].status = "queued" /\ tasks[t].dispatch = "pending"
        /\ tasks' = [tasks EXCEPT ![t].native = intent]
        /\ work' = [work EXCEPT ![h].at = "post", ![h].held = intent]
  /\ UNCHANGED <<expired, native, sent>>

(* POST /v1/tasks, once; its reply may be lost, or the request itself.     *)
PostTask(h) ==
  /\ work[h] # Nil /\ work[h].at = "post"
  /\ LET t == work[h].task
     IN IF expired[t] THEN Goto(h, "stop") /\ UNCHANGED <<native, sent>>
        ELSE /\ sent' = [sent EXCEPT ![t].post = @ + 1]
             /\ \/ UNCHANGED native /\ Goto(h, "mark unknown")
                \/ /\ native' = [native EXCEPT ![t] = [status |-> "queued", claim |-> Nil, output |-> Nil]]
                   /\ \/ Goto(h, "mark unknown")
                      \/ work' = [work EXCEPT ![h].at = "evaluate", ![h].record = native'[t]]
  /\ UNCHANGED <<tasks, expired>>

(* The internal readback and cancel requests read the task first.          *)
ReadTask(h) ==
  /\ work[h] = Nil
  /\ \E t \in Task, cancel \in BOOLEAN :
       /\ tasks[t] # Nil /\ tasks[t].native # Nil /\ tasks[t].native.phase # "terminal"
       /\ LET n == tasks[t].native
              at == IF cancel \/ (n.taskId /\ (expired[t] \/ (n.cancelRequested /\ ~n.cancelSent)))
                    THEN "stop" ELSE "fetch"
          IN work' = [work EXCEPT ![h] =
               [at |-> at, task |-> t, creator |-> FALSE, cancel |-> cancel,
                held |-> n, record |-> Nil, status |-> Nil, late |-> FALSE]]
  /\ UNCHANGED <<tasks, expired, native, sent>>

(* diagnosis_native_cancel and the cancellation it may send: whichever of  *)
(* the terminal receipt and the cancellation is stored first wins.         *)
Cancelled(row) ==
  LET n == row.native
  IN IF n.receipt # Nil THEN row
     ELSE [row EXCEPT !.status = "unknown", !.recheck = "not_requested",
             !.native = [n EXCEPT !.cancelRequested = TRUE, !.cancelSent = @ \/ n.taskId,
                                  !.phase = "hold"]]

SendsCancel(row) == row.native.receipt = Nil /\ row.native.taskId /\ ~row.native.cancelSent

Stop(h) ==
  /\ work[h] # Nil /\ work[h].at = "stop"
  /\ LET t == work[h].task
         n == Cancelled(tasks[t]).native
     IN /\ tasks' = [tasks EXCEPT ![t] = Cancelled(@)]
        /\ IF SendsCancel(tasks[t])
             THEN sent' = [sent EXCEPT ![t].cancel = @ + 1]
             ELSE UNCHANGED sent
        /\ CASE work[h].creator -> Goto(h, "mark sent")
             [] ~work[h].creator /\ work[h].cancel /\ n.receipt = Nil /\ ~n.taskId ->
                  work' = [work EXCEPT ![h].at = "fetch", ![h].held = n]
             [] OTHER -> Leave(h)
  /\ UNCHANGED <<expired, native>>

(* The lookup by idempotency key, when the task id is not known, and the   *)
(* record itself; without an answer the handler records a hold.            *)
Fetch(h) ==
  /\ work[h] # Nil /\ work[h].at = "fetch"
  /\ \/ work' = [work EXCEPT ![h].at = "hold"]
     \/ /\ native[work[h].task] # Nil
        /\ work' = [work EXCEPT ![h].at = "evaluate", ![h].record = native[work[h].task]]
  /\ UNCHANGED <<tasks, expired, native, sent>>

(* What the record means for the task, against what the handler has read;  *)
(* late says whether the deadline had passed when it looked.               *)
ReadAs(n, record, late, cancel) ==
  LET hold == \/ record.status = "outcome_unknown"
              \/ (cancel \/ late \/ n.cancelRequested \/ n.cancelSent) /\ record.status # "cancelled"
      known == [n EXCEPT !.taskId = TRUE, !.claim = record.claim]
  IN CASE hold -> [status |-> "unknown", native |-> [known EXCEPT !.phase = "hold"]]
       [] ~hold /\ record.status \in {"queued", "running"} ->
            [status |-> record.status, native |-> [known EXCEPT !.phase = "pending"]]
       [] ~hold /\ record.status = "completed" ->
            [status |-> record.output,
             native |-> [known EXCEPT !.phase = "terminal", !.output = record.output,
                                      !.receipt = <<record.claim, record.output>>]]
       [] OTHER ->
            [status |-> "failed",
             native |-> [known EXCEPT !.phase = "terminal", !.receipt = <<record.claim, "failed">>]]

(* A record that contradicts the claim the handler has read is refused:    *)
(* the creator marks its dispatch unknown, a readback just fails, because  *)
(* its call is returned unawaited from the try block.                      *)
Evaluate(h) ==
  /\ work[h] # Nil /\ work[h].at = "evaluate"
  /\ \E late \in {FALSE, expired[work[h].task]} :
       LET w == work[h]
           r == ReadAs(w.held, w.record, late, w.cancel)
       IN IF w.held.claim # Nil /\ w.record.claim # w.held.claim
            THEN IF w.creator THEN Goto(h, "mark unknown") ELSE Leave(h)
          ELSE IF r.status = "succeeded" /\ expired[w.task]
            THEN Goto(h, "stop")
          ELSE work' = [work EXCEPT ![h].at = "save", ![h].held = r.native, ![h].record = Nil,
                          ![h].status = r.status, ![h].late = late]
  /\ UNCHANGED <<tasks, expired, native, sent>>

Contradicts(old, next) ==
  \/ old.taskId /\ ~next.taskId
  \/ old.claim # Nil /\ old.claim # next.claim
  \/ old.cancelSent /\ ~next.cancelSent
  \/ old.cancelRequested /\ ~next.cancelRequested
  \/ old.receipt # Nil /\ old.receipt # next.receipt

(* diagnosis_native_save: what is known is never taken back, and a success *)
(* is not adopted after a cancellation or after the deadline.              *)
Refused(t, next, status) ==
  \/ Contradicts(tasks[t].native, next)
  \/ /\ tasks[t].native.receipt = Nil /\ status = "succeeded"
     /\ tasks[t].native.cancelRequested \/ tasks[t].native.cancelSent \/ expired[t]

Saved(row, next, status) ==
  IF row.native.receipt # Nil THEN row
  ELSE [row EXCEPT !.native = next, !.status = status, !.dispatch = "sent",
          !.recheck = IF status = "succeeded" THEN "pending" ELSE @]

Save(h) ==
  /\ work[h] # Nil /\ work[h].at = "save"
  /\ LET w == work[h]
         t == w.task
     IN IF Refused(t, w.held, w.status)
          THEN /\ UNCHANGED tasks
               /\ IF w.creator THEN Goto(h, "mark unknown") ELSE Leave(h)
          ELSE /\ tasks' = [tasks EXCEPT ![t] = Saved(@, w.held, w.status)]
               /\ LET terminal == w.held.receipt # Nil
                      changed == tasks[t].native.receipt = Nil
                  IN CASE (w.cancel \/ w.late \/ w.held.cancelRequested) /\ ~terminal -> Goto(h, "stop")
                       [] terminal /\ w.status = "succeeded" /\ changed ->
                            Goto(h, IF expired[t] THEN "stop" ELSE "recheck")
                       [] OTHER -> IF w.creator THEN Goto(h, "mark sent") ELSE Leave(h)
  /\ UNCHANGED <<expired, native, sent>>

(* The recheck workflow of the target's platform, and its mark.            *)
Recheck(h) ==
  /\ work[h] # Nil /\ work[h].at = "recheck"
  /\ sent' = [sent EXCEPT ![work[h].task].recheck = @ + 1]
  /\ \/ Goto(h, "recheck sent") \/ Goto(h, "recheck unknown")
  /\ UNCHANGED <<tasks, expired, native>>

MarkRecheck(h) ==
  /\ work[h] # Nil /\ work[h].at \in {"recheck sent", "recheck unknown"}
  /\ LET t == work[h].task
         mark == IF work[h].at = "recheck sent" THEN "sent" ELSE "unknown"
     IN tasks' = [tasks EXCEPT ![t].recheck = IF @ = "pending" THEN mark ELSE @]
  /\ IF work[h].creator THEN Goto(h, "mark sent") ELSE Leave(h)
  /\ UNCHANGED <<expired, native, sent>>

(* A readback that could not be made holds the task, unless something      *)
(* newer than what it has read is there.                                   *)
Hold(h) ==
  /\ work[h] # Nil /\ work[h].at = "hold"
  /\ LET t == work[h].task
         next == [work[h].held EXCEPT !.phase = "hold"]
     IN tasks' = IF Refused(t, next, "unknown") THEN tasks
                 ELSE [tasks EXCEPT ![t] = Saved(@, next, "unknown")]
  /\ Leave(h)
  /\ UNCHANGED <<expired, native, sent>>

(* diagnosis_mark_dispatch.                                                *)
DispatchLost(row) ==
  LET n == row.native
  IN [row EXCEPT !.dispatch = "unknown", !.status = "unknown", !.native = [n EXCEPT !.phase = "hold"]]

MarkDispatch(h) ==
  /\ work[h] # Nil /\ work[h].at \in {"mark sent", "mark unknown"}
  /\ LET t == work[h].task
     IN tasks' = IF tasks[t].dispatch # "pending" THEN tasks
                 ELSE IF work[h].at = "mark sent" THEN [tasks EXCEPT ![t].dispatch = "sent"]
                 ELSE [tasks EXCEPT ![t] = DispatchLost(@)]
  /\ Leave(h)
  /\ UNCHANGED <<expired, native, sent>>

HandlerDies(h) == work[h] # Nil /\ Leave(h) /\ UNCHANGED <<tasks, expired, native, sent>>

Expire(t) ==
  /\ tasks[t] # Nil /\ tasks[t].native # Nil /\ ~expired[t]
  /\ expired' = [expired EXCEPT ![t] = TRUE]
  /\ UNCHANGED <<tasks, native, sent, work>>

(* The native service: it claims a task, ends it, or loses its outcome; a  *)
(* cancellation it has received may end it too.                            *)
Serve(t) ==
  /\ native[t] # Nil /\ native[t].status \in {"queued", "running"}
  /\ \/ /\ native[t].status = "queued"
        /\ \E c \in WorkerAttempt : native' = [native EXCEPT ![t].status = "running", ![t].claim = c]
     \/ /\ native[t].status = "running"
        /\ \E o \in Output : native' = [native EXCEPT ![t].status = "completed", ![t].output = o]
     \/ native' = [native EXCEPT ![t].status = "outcome_unknown"]
     \/ sent[t].cancel > 0 /\ native' = [native EXCEPT ![t].status = "cancelled"]
  /\ UNCHANGED <<tasks, expired, sent, work>>

DiagnosisNext ==
  \/ \E h \in Handler :
       \/ Create(h) \/ Intent(h) \/ PostTask(h) \/ ReadTask(h) \/ Stop(h) \/ Fetch(h) \/ Evaluate(h)
       \/ Save(h) \/ Recheck(h) \/ MarkRecheck(h) \/ Hold(h) \/ MarkDispatch(h) \/ HandlerDies(h)
  \/ \E t \in Task : Expire(t) \/ Serve(t)

DiagnosisSpec == DiagnosisInit /\ [][DiagnosisNext]_diagnosisVars

----------------------------------------------------------------------------
(* The types of the tasks and of what the handlers and the service hold;   *)
(* a completed record of the service has its output.                       *)
DiagnosisTypeOK ==
  /\ tasks \in [Task -> DiagnosisTask \cup {Nil}]
  /\ expired \in [Task -> BOOLEAN]
  /\ native \in [Task -> ServiceTask \cup {Nil}]
  /\ \A t \in Task : native[t] # Nil /\ native[t].status = "completed" => native[t].output # Nil
  /\ sent \in [Task -> Counts]
  /\ work \in [Handler -> HeldByHandler \cup {Nil}]

(* At most one task of a target is unresolved, and each task is posted and *)
(* cancelled at most once whatever is lost or repeated.                    *)
OneOpenTask ==
  /\ \A t, u \in Task : Open(t) /\ Open(u) => t = u
  /\ \A t \in Task : sent[t].post <= 1 /\ sent[t].cancel <= 1

(* A recheck that is reported as passed was made on checks that would not  *)
(* have asked for a diagnosis.                                             *)
PassedNeedsNoAttention ==
  \A c \in Checks : RecheckStatus(c) = "passed" => ~HasConfirmedAttention(c)
(* A recheck is requested at most once, and only for a success that was    *)
(* stored before any cancellation; what it reports is sound as above.      *)
RecheckIsEarned ==
  /\ PassedNeedsNoAttention
  /\ \A t \in Task :
       /\ sent[t].recheck <= 1
       /\ tasks[t] # Nil /\ (sent[t].recheck = 1 \/ tasks[t].recheck # "not_requested") =>
            /\ tasks[t].status = "succeeded" /\ tasks[t].native.receipt # Nil
            /\ ~tasks[t].native.cancelRequested

(* What a task knows of its native operation is never taken back: its id,  *)
(* its claim, its cancellation and its receipt, with the status the        *)
(* receipt was stored for.                                                 *)
KnowledgeGrows ==
  \A t \in Task :
    tasks[t] # Nil /\ tasks[t].native # Nil =>
      LET n == tasks[t].native
          m == tasks'[t].native
      IN /\ n.taskId => m.taskId
         /\ n.claim # Nil => m.claim = n.claim
         /\ n.cancelRequested => m.cancelRequested
         /\ n.cancelSent => m.cancelSent
         /\ n.receipt # Nil => m.receipt = n.receipt /\ tasks'[t].status = tasks[t].status

(* Every step of the handlers and of the service is such a step.           *)
KnowledgeIsKept == [][KnowledgeGrows]_diagnosisVars

=============================================================================
