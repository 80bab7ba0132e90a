--------------------------- MODULE RuntimeControl ---------------------------
(***************************************************************************)
(* Enable/disable requests for one ibkr or schwab runtime: the             *)
(* runtime_control_* commands of RuntimeInstances (worker.js), the handler *)
(* that claims and dispatches a request, the pollers that read what became *)
(* of it, and the read-only checks an operator may ask for.                *)
(*                                                                         *)
(* Every Durable Object command is one action; a handler or poller is a    *)
(* process whose commands and GitHub reads interleave with everybody       *)
(* else's, and which may stop for good after any of them.  A workflow run  *)
(* is named by the request (or check) it was dispatched for, and so is the *)
(* platform run it starts.                                                 *)
(***************************************************************************)
EXTENDS Sequences, Naturals

CONSTANTS
  Requests,    \* request ids
  Operations,  \* "enable", "disable"
  Checks,      \* check ids
  Pollers,     \* GET handlers in flight
  Identities,  \* identities the account may have in the registry
  Moves,       \* pairs: how the registry may change the identity
  Reports,     \* outcomes a run's receipt may report
  NoRow, None

ASSUME ControlNulls == None \notin Requests \cup Checks

Phases == {"reserved", "accepted", "unknown", "rejected", "partial", "applied", "protected"}
OpenPhases == {"reserved", "unknown", "accepted", "partial"}
Resolvable == {"accepted", "unknown", "partial"}
Outcomes == {"applied", "partial", "protected", "rejected"}

ASSUME ControlMoves == Moves \subseteq Identities \X Identities
ASSUME ControlReports == Reports \subseteq Outcomes

RunStates == {"none", "running", "unknown"} \cup Reports

\* result_json of a request.
Details ==
  [platform : Requests \cup {None}, check : Checks \cup {None},
   checkRun : Checks \cup {None}, complete : BOOLEAN]
NoDetails == [platform |-> None, check |-> None, checkRun |-> None, complete |-> FALSE]
Row ==
  [operation : Operations, identity : Identities, phase : Phases,
   run : Requests \cup {None}, details : Details]

ASSUME ControlRows == NoRow \notin Row

VARIABLES
  identity,   \* the account's identity in the instance registry
  rows,       \* hk_stop_request rows of this target
  order,      \* their request ids, oldest first
  handler,    \* POST handler of a request: what it still has to do
  runs,       \* workflow runs of the requests, and what their receipt says
  named,      \* requests whose receipt names a platform run
  checkRuns,  \* readback workflow runs
  checkOf,    \* the request a check was begun for
  checker,    \* handler of a check
  poller      \* GET handlers: where they are and what they have read

vars == <<identity, rows, order, handler, runs, named, checkRuns, checkOf, checker, poller>>

HandlerStates == {"idle", "dispatching", "accepted", "unknown", "rejected", "done"}
Idle == [at |-> "idle"]
PollerStates ==
  {Idle} \cup [at : {"receipt", "check"}, request : Requests, row : Row]
         \cup [at : {"record", "capture"}, request : Requests, row : Row,
               result : RunStates, named : BOOLEAN]
         \cup [at : {"resolve", "recordCheck", "resolveCheck"}, request : Requests,
               row : Row, result : RunStates]

TypeOK ==
  /\ identity \in Identities
  /\ rows \in [Requests -> Row \cup {NoRow}]
  /\ order \in Seq(Requests)
  /\ handler \in [Requests -> HandlerStates]
  /\ runs \in [Requests -> RunStates]
  /\ named \subseteq Requests
  /\ checkRuns \in [Checks -> RunStates]
  /\ checkOf \in [Checks -> Requests \cup {None}]
  /\ checker \in [Checks -> HandlerStates]
  /\ poller \in [Pollers -> PollerStates]

Claimed(r) == rows[r] # NoRow
Open(r) == Claimed(r) /\ rows[r].phase \in OpenPhases
Latest == order[Len(order)]

\* Every command but the claim needs the identity the request was claimed for.
SameIdentity(r) == rows[r].identity = identity

----------------------------------------------------------------------------
(* The commands, as changes of rows *)

\* runtime_control_record.
Recorded(r, phase, run) ==
  IF rows[r].phase = "reserved"
  THEN [rows EXCEPT ![r].phase = phase, ![r].run = run]
  ELSE IF rows[r].phase = "unknown" /\ rows[r].run = None
  THEN [rows EXCEPT ![r].run = run]
  ELSE rows
CanRecord(r, run) == SameIdentity(r) /\ (rows[r].run = None \/ run \in {None, rows[r].run})

CanCaptureAnyPlatform(r, run, platform) ==
  SameIdentity(r) /\ rows[r].run = run /\ run # None

\* runtime_control_capture.  The details are read from the latest request of the
\* target and written to request r.
CanCapture(r, run, platform) ==
  /\ SameIdentity(r) /\ rows[r].run = run /\ run # None
  /\ rows[Latest].details.platform \in {None, platform}
Captured(r, platform) ==
  [rows EXCEPT ![r].details = [rows[Latest].details EXCEPT !.platform = platform]]

\* runtime_control_begin_check, where it reserves; a check that is not complete is
\* replayed, which changes nothing.
CanBeginCheck(r) ==
  /\ SameIdentity(r) /\ rows[r].phase \in Resolvable
  /\ rows[Latest].details.platform # None
  /\ rows[Latest].details.check # None => rows[Latest].details.complete
Begun(r, c) ==
  [rows EXCEPT ![r].details =
     [rows[Latest].details EXCEPT !.check = c, !.checkRun = None, !.complete = FALSE]]

\* runtime_control_record_check.
CanRecordCheck(r, c, run) ==
  /\ SameIdentity(r) /\ rows[Latest].details.check = c
  /\ rows[Latest].details.checkRun = None \/ run \in {None, rows[Latest].details.checkRun}
RecordedCheck(r, run, complete) ==
  [rows EXCEPT ![r].details =
     [rows[Latest].details EXCEPT
        !.checkRun = IF run = None THEN @ ELSE run,
        !.complete = @ \/ complete]]

\* runtime_control_resolve, with or without a check.
CanResolve(r, run) == SameIdentity(r) /\ rows[r].run = run /\ run # None
ResolvedAlways(r, phase) ==
  [rows EXCEPT ![r].phase = phase, ![r].details = rows[Latest].details]
Resolved(r, phase) ==
  IF rows[r].phase \in Resolvable
  THEN [rows EXCEPT ![r].phase = phase, ![r].details = rows[Latest].details]
  ELSE rows

----------------------------------------------------------------------------
(* Requesting: dispatchPlatformRuntimeControl *)

NewRow(operation) ==
  [operation |-> operation, identity |-> identity, phase |-> "reserved",
   run |-> None, details |-> NoDetails]

ClaimReplayDispatches(r, operation) ==
  /\ \A q \in Requests : Open(q) => q = r
  /\ handler[r] \in {"idle", "done"}
  /\ rows' = IF Claimed(r) THEN rows ELSE [rows EXCEPT ![r] = NewRow(operation)]
  /\ order' = IF Claimed(r) THEN order ELSE Append(order, r)
  /\ handler' = [handler EXCEPT ![r] = "dispatching"]
  /\ UNCHANGED <<identity, runs, named, checkRuns, checkOf, checker, poller>>

\* runtime_control_claim, where it answers "reserved".  A claimed id is replayed
\* and an open request blocks; neither changes anything nor is dispatched.
Claim(r, operation) ==
  /\ ~Claimed(r)
  /\ \A q \in Requests : ~Open(q)
  /\ rows' = [rows EXCEPT ![r] = NewRow(operation)]
  /\ order' = Append(order, r)
  /\ handler' = [handler EXCEPT ![r] = "dispatching"]
  /\ UNCHANGED <<identity, runs, named, checkRuns, checkOf, checker, poller>>

\* The workflow dispatch: a run id (accepted), a refusal, or neither, in which
\* case the run may have started.
Dispatch(r) ==
  /\ handler[r] = "dispatching"
  /\ \/ /\ handler' = [handler EXCEPT ![r] = "accepted"]
        /\ runs' = [runs EXCEPT ![r] = "running"]
     \/ /\ handler' = [handler EXCEPT ![r] = "rejected"]
        /\ UNCHANGED runs
     \/ /\ handler' = [handler EXCEPT ![r] = "unknown"]
        /\ runs' \in {runs, [runs EXCEPT ![r] = "running"]}
  /\ UNCHANGED <<identity, rows, order, named, checkRuns, checkOf, checker, poller>>

\* The handler's runtime_control_record (its failure leaves the row as it is).
RecordDispatch(r) ==
  /\ handler[r] \in {"accepted", "unknown", "rejected"}
  /\ handler' = [handler EXCEPT ![r] = "done"]
  /\ LET run == IF handler[r] = "accepted" THEN r ELSE None IN
     rows' = IF CanRecord(r, run) THEN Recorded(r, handler[r], run) ELSE rows
  /\ UNCHANGED <<identity, order, runs, named, checkRuns, checkOf, checker, poller>>

----------------------------------------------------------------------------
(* GitHub, and the registry *)

\* A run completes and leaves its receipt, with or without a platform run id.
CompleteRun(r, status) ==
  /\ runs[r] = "running"
  /\ runs' = [runs EXCEPT ![r] = status]
  /\ named' \in {named, named \cup {r}}
  /\ UNCHANGED <<identity, rows, order, handler, checkRuns, checkOf, checker, poller>>

CompleteCheck(c, status) ==
  /\ checkRuns[c] = "running"
  /\ checkRuns' = [checkRuns EXCEPT ![c] = status]
  /\ UNCHANGED <<identity, rows, order, handler, runs, named, checkOf, checker, poller>>

\* A registry command changes a field of the account's identity.
ChangeIdentity(i) ==
  /\ <<identity, i>> \in Moves
  /\ identity' = i
  /\ UNCHANGED <<rows, order, handler, runs, named, checkRuns, checkOf, checker, poller>>

----------------------------------------------------------------------------
(* Polling: readPlatformRuntimeControl *)

\* A poller is done when no check of its record is outstanding.
Outstanding(row) ==
  row.phase \in Resolvable /\ row.details.check # None /\ ~row.details.complete
AfterResolve(r, row) ==
  IF Outstanding(row) THEN [at |-> "check", request |-> r, row |-> row] ELSE Idle

\* Where a poller that holds record `row` of r goes once it has captured the
\* platform run, once it has recorded the run id, and once it has the receipt.
AfterCapture(r, row, result) ==
  IF result \in Outcomes /\ row.run # None
  THEN [at |-> "resolve", request |-> r, row |-> row, result |-> result]
  ELSE AfterResolve(r, row)
AfterRecord(r, row, result, isNamed) ==
  IF isNamed /\ row.run # None
  THEN [at |-> "capture", request |-> r, row |-> row, result |-> result, named |-> isNamed]
  ELSE AfterCapture(r, row, result)
AfterReceipt(r, row, result, isNamed) ==
  IF result # "none" /\ row.run = None
  THEN [at |-> "record", request |-> r, row |-> row, result |-> result, named |-> isNamed]
  ELSE AfterRecord(r, row, result, isNamed)

\* runtime_control_read.
PollRead(p) ==
  /\ poller[p] = Idle /\ order # <<>>
  /\ rows[Latest].phase \in OpenPhases
  /\ poller' = [poller EXCEPT ![p] =
       [at |-> "receipt", request |-> Latest, row |-> rows[Latest]]]
  /\ UNCHANGED <<identity, rows, order, handler, runs, named, checkRuns, checkOf, checker>>

\* readRuntimeControlReceipt of the request's own run.  The read may fail
\* ("none"), and a run that has not completed counts as unknown.
PollReceipt(p, readable) ==
  /\ poller[p].at = "receipt"
  /\ LET r == poller[p].request
         result == IF ~readable THEN "none"
                   ELSE IF runs[r] = "running" THEN "unknown" ELSE runs[r]
         isNamed == readable /\ r \in named
     IN poller' = [poller EXCEPT ![p] = AfterReceipt(r, @.row, result, isNamed)]
  /\ UNCHANGED <<identity, rows, order, handler, runs, named, checkRuns, checkOf, checker>>

\* runtime_control_record; it answers with the request's own row.
PollRecord(p) ==
  /\ poller[p].at = "record"
  /\ LET r == poller[p].request IN
     IF CanRecord(r, r)
     THEN /\ rows' = Recorded(r, "unknown", r)
          /\ poller' = [poller EXCEPT ![p] =
               AfterRecord(r, [rows'[r] EXCEPT !.details = NoDetails], @.result, @.named)]
     ELSE rows' = rows /\ poller' = [poller EXCEPT ![p] = Idle]
  /\ UNCHANGED <<identity, order, handler, runs, named, checkRuns, checkOf, checker>>

\* runtime_control_capture; it answers with the latest row of the target, and
\* the poller goes on with that record.
PollCapture(p) ==
  /\ poller[p].at = "capture"
  /\ LET r == poller[p].request IN
     IF CanCapture(r, poller[p].row.run, r)
     THEN /\ rows' = Captured(r, r)
          /\ poller' = [poller EXCEPT ![p] = AfterCapture(Latest, rows'[Latest], @.result)]
     ELSE rows' = rows /\ poller' = [poller EXCEPT ![p] = Idle]
  /\ UNCHANGED <<identity, order, handler, runs, named, checkRuns, checkOf, checker>>

\* runtime_control_resolve of the record at hand; the latest row is the answer.
PollResolve(p) ==
  /\ poller[p].at = "resolve"
  /\ LET r == poller[p].request IN
     IF CanResolve(r, poller[p].row.run)
     THEN /\ rows' = Resolved(r, poller[p].result)
          /\ poller' = [poller EXCEPT ![p] = AfterResolve(Latest, rows'[Latest])]
     ELSE rows' = rows /\ poller' = [poller EXCEPT ![p] = Idle]
  /\ UNCHANGED <<identity, order, handler, runs, named, checkRuns, checkOf, checker>>

\* The second half: is a check outstanding, and what does its run say?
PollCheck(p, readable) ==
  /\ poller[p].at = "check"
  /\ LET row == poller[p].row
         c == row.details.check
     IN IF readable /\ checkRuns[c] # "none"
        THEN poller' = [poller EXCEPT ![p] =
               [at |-> "recordCheck", request |-> @.request, row |-> row,
                result |-> checkRuns[c]]]
        ELSE poller' = [poller EXCEPT ![p] = Idle]
  /\ UNCHANGED <<identity, rows, order, handler, runs, named, checkRuns, checkOf, checker>>

\* runtime_control_record_check by the poller.
PollRecordCheck(p) ==
  /\ poller[p].at = "recordCheck"
  /\ LET r == poller[p].request
         c == poller[p].row.details.check
         complete == poller[p].result # "running"
     IN IF CanRecordCheck(r, c, c)
        THEN /\ rows' = RecordedCheck(r, c, complete)
             /\ poller' = [poller EXCEPT ![p] =
                  IF complete /\ poller[p].result \in Outcomes
                     /\ checkOf[c] = poller[p].row.details.platform
                  THEN [@ EXCEPT !.at = "resolveCheck", !.request = Latest,
                                 !.row = [rows'[Latest] EXCEPT !.details.check = c]]
                  ELSE Idle]
        ELSE rows' = rows /\ poller' = [poller EXCEPT ![p] = Idle]
  /\ UNCHANGED <<identity, order, handler, runs, named, checkRuns, checkOf, checker>>

\* runtime_control_resolve with the check's run.
PollResolveCheck(p) ==
  /\ poller[p].at = "resolveCheck"
  /\ LET r == poller[p].request
         c == poller[p].row.details.check
     IN rows' = IF /\ CanResolve(r, poller[p].row.run)
                   /\ rows[Latest].details.check = c /\ rows[Latest].details.checkRun = c
                THEN Resolved(r, poller[p].result) ELSE rows
  /\ poller' = [poller EXCEPT ![p] = Idle]
  /\ UNCHANGED <<identity, order, handler, runs, named, checkRuns, checkOf, checker>>

----------------------------------------------------------------------------
(* Checking: dispatchPlatformControlReadback, after its own poll *)

\* runtime_control_begin_check for the latest request.
BeginCheck(c) ==
  /\ checkOf[c] = None /\ order # <<>>
  /\ CanBeginCheck(Latest)
  /\ rows' = Begun(Latest, c)
  /\ checkOf' = [checkOf EXCEPT ![c] = rows[Latest].details.platform]
  /\ checker' = [checker EXCEPT ![c] = "dispatching"]
  /\ UNCHANGED <<identity, order, handler, runs, named, checkRuns, poller>>

DispatchCheck(c) ==
  /\ checker[c] = "dispatching"
  /\ \/ /\ checker' = [checker EXCEPT ![c] = "accepted"]
        /\ checkRuns' = [checkRuns EXCEPT ![c] = "running"]
     \/ /\ checker' = [checker EXCEPT ![c] = "rejected"]
        /\ UNCHANGED checkRuns
     \/ /\ checker' = [checker EXCEPT ![c] = "done"]
        /\ checkRuns' \in {checkRuns, [checkRuns EXCEPT ![c] = "running"]}
  /\ UNCHANGED <<identity, rows, order, handler, runs, named, checkOf, poller>>

\* Its runtime_control_record_check: the run id, or complete when refused.
RecordCheckDispatch(c, r) ==
  /\ checker[c] \in {"accepted", "rejected"}
  /\ Claimed(r) /\ rows[r].details.check = c
  /\ checker' = [checker EXCEPT ![c] = "done"]
  /\ LET run == IF checker[c] = "accepted" THEN c ELSE None IN
     rows' = IF CanRecordCheck(r, c, run)
             THEN RecordedCheck(r, run, checker[c] = "rejected") ELSE rows
  /\ UNCHANGED <<identity, order, handler, runs, named, checkRuns, checkOf, poller>>

----------------------------------------------------------------------------
Init ==
  /\ identity \in Identities
  /\ rows = [r \in Requests |-> NoRow]
  /\ order = <<>>
  /\ handler = [r \in Requests |-> "idle"]
  /\ runs = [r \in Requests |-> "none"]
  /\ named = {}
  /\ checkRuns = [c \in Checks |-> "none"]
  /\ checkOf = [c \in Checks |-> None]
  /\ checker = [c \in Checks |-> "idle"]
  /\ poller = [p \in Pollers |-> Idle]

Next ==
  \/ \E r \in Requests, o \in Operations : Claim(r, o)
  \/ \E r \in Requests : Dispatch(r) \/ RecordDispatch(r)
  \/ \E r \in Requests, s \in Reports \cup {"unknown"} : CompleteRun(r, s)
  \/ \E c \in Checks, s \in Reports \cup {"unknown"} : CompleteCheck(c, s)
  \/ \E i \in Identities : ChangeIdentity(i)
  \/ \E p \in Pollers : PollRead(p)
  \/ \E p \in Pollers, b \in BOOLEAN : PollReceipt(p, b) \/ PollCheck(p, b)
  \/ \E p \in Pollers : PollRecord(p) \/ PollCapture(p) \/ PollResolve(p)
  \/ \E p \in Pollers : PollRecordCheck(p) \/ PollResolveCheck(p)
  \/ \E c \in Checks : BeginCheck(c) \/ DispatchCheck(c)
  \/ \E c \in Checks, r \in Requests : RecordCheckDispatch(c, r)

Spec == Init /\ [][Next]_vars

----------------------------------------------------------------------------
(* Properties *)

\* However claims, pollers and checks interleave, one target never has two
\* requests whose effect is still undecided.
OneOpenRequest ==
  \A q, r \in Requests : Open(q) /\ Open(r) => q = r

\* A run recorded for a request is the run that was dispatched for it, whoever
\* records it, the handler or a poller that found it by its title.
RunIsItsOwn ==
  \A r \in Requests : Claimed(r) /\ rows[r].run # None => rows[r].run = r /\ runs[r] # "none"

\* Every command reads the details of the latest request and writes them to the
\* request it names; whoever is late, a request never takes over the platform run
\* or the check of another one.
DetailsAreItsOwn ==
  \A r \in Requests : Claimed(r) =>
    /\ rows[r].details.platform \in {None, r}
    /\ rows[r].details.check # None => checkOf[rows[r].details.check] = r

\* Whoever claims, polls or is late: a target has one open request, and a request
\* has the run and the check that are its own.
RequestsAreTheirOwn == TypeOK /\ OneOpenRequest /\ RunIsItsOwn /\ DetailsAreItsOwn

\* "Outcome may already have occurred; never resend": the workflow of a request is
\* dispatched once, also when its client retries.
NeverResent ==
  [][\A r \in Requests :
       handler[r] # "idle" /\ handler'[r] = "dispatching" => handler[r] = "dispatching"]_vars

\* A request that is applied, protected or rejected stays so, whatever late
\* pollers and checks report of it.
ClosedIsFinal ==
  [][\A r \in Requests : Claimed(r) /\ ~Open(r) => rows'[r].phase = rows[r].phase]_vars

\* "Read only the result of the exact QRS request": a request is only reported
\* applied or protected when its own run, or a check of it, said so.
OutcomeIsItsOwn ==
  \A r \in Requests :
    Claimed(r) /\ rows[r].phase \in {"applied", "protected"} =>
      \/ runs[r] = rows[r].phase
      \/ \E c \in Checks : checkOf[c] = r /\ checkRuns[c] = rows[r].phase
=============================================================================
