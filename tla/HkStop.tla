------------------------------- MODULE HkStop -------------------------------
(***************************************************************************)
(* Stopping the LongBridge HK runtime: the hk_stop_* commands of           *)
(* RuntimeInstances (worker.js), the handler that claims and dispatches a  *)
(* stop, and the results the platform's workflow runs send back, in any    *)
(* order, late, repeatedly or never.                                       *)
(***************************************************************************)
EXTENDS Integers, FiniteSets

CONSTANTS
  Requests,    \* request ids
  Identities,  \* identities longbridge/hk may have in the registry
  Runs,        \* platform workflow runs
  Window,      \* the 24 hours a result may take
  Skew,        \* the minute its observation may be ahead
  MaxStopTime, NoStop, NoRun

ASSUME StopWindow == Window \in Nat /\ Skew \in Nat /\ MaxStopTime \in Nat
ASSUME StopRuns == NoRun \notin Runs

VARIABLES
  live,     \* the registry: current identity and revision of the instance
  rows,     \* hk_stop_request rows of longbridge/hk
  handler,  \* POST handler of a request
  seen,     \* the identity and revision it has read
  runOf,    \* the request a platform run works for
  results,  \* results the runs have posted, which may arrive any time
  stopNow

stopVars == <<live, rows, handler, seen, runOf, results, stopNow>>

Live == [identity : Identities, revision : Nat]
Row ==
  [identity : Identities, revision : Nat, requested : Nat,
   phase : {"reserved", "accepted", "rejected", "unknown", "stopped"},
   result : [run : Runs, observed : Int] \cup {NoRun}]
Result ==
  [request : Requests, run : Runs, identity : Identities, revision : Nat, observed : Int]

ASSUME StopRows == NoStop \notin Row

StopTypeOK ==
  /\ live \in Live
  /\ rows \in [Requests -> Row \cup {NoStop}]
  /\ handler \in [Requests ->
       {"idle", "claiming", "dispatching", "accepted", "rejected", "unknown", "done"}]
  /\ seen \in [Requests -> Live \cup {NoStop}]
  /\ runOf \in [Runs -> Requests \cup {NoRun}]
  /\ results \subseteq Result
  /\ stopNow \in Nat

Claimed(r) == rows[r] # NoStop

\* hkStopOpen: a stopped request blocks as an undecided one does.
Blocking(r) == Claimed(r) /\ rows[r].phase \in {"reserved", "unknown", "accepted", "stopped"}

----------------------------------------------------------------------------
\* loadHkStopAccount: the handler reads the identity and revision to stop.
ReadAccount(r) ==
  /\ handler[r] \in {"idle", "done"}
  /\ handler' = [handler EXCEPT ![r] = "claiming"]
  /\ seen' = [seen EXCEPT ![r] = live]
  /\ UNCHANGED <<live, rows, runOf, results, stopNow>>

NewRow(account) ==
  [identity |-> account.identity, revision |-> account.revision, requested |-> stopNow,
   phase |-> "reserved", result |-> NoRun]

ClaimUnlessUndecided(r) ==
  /\ handler[r] = "claiming"
  /\ IF /\ ~Claimed(r)
        /\ \A q \in Requests : ~(Claimed(q) /\ rows[q].phase \in {"reserved", "accepted"})
     THEN /\ rows' = [rows EXCEPT ![r] = NewRow(seen[r])]
          /\ handler' = [handler EXCEPT ![r] = "dispatching"]
     ELSE rows' = rows /\ handler' = [handler EXCEPT ![r] = "done"]
  /\ seen' = [seen EXCEPT ![r] = NoStop]
  /\ UNCHANGED <<live, runOf, results, stopNow>>

\* hk_stop_claim: a replay or a blocked claim changes nothing, and a reservation
\* needs what the handler has read to be still true.
ClaimStop(r) ==
  /\ handler[r] = "claiming"
  /\ IF ~Claimed(r) /\ seen[r] = live /\ \A q \in Requests : ~Blocking(q)
     THEN /\ rows' = [rows EXCEPT ![r] = NewRow(seen[r])]
          /\ handler' = [handler EXCEPT ![r] = "dispatching"]
     ELSE rows' = rows /\ handler' = [handler EXCEPT ![r] = "done"]
  /\ seen' = [seen EXCEPT ![r] = NoStop]
  /\ UNCHANGED <<live, runOf, results, stopNow>>

\* The dispatch, and the platform run it starts (perhaps also where the answer
\* was lost).
Dispatch(r) ==
  /\ handler[r] = "dispatching"
  /\ \E outcome \in {"accepted", "rejected", "unknown"} :
       /\ handler' = [handler EXCEPT ![r] = outcome]
       /\ \/ outcome # "accepted" /\ UNCHANGED runOf
          \/ /\ outcome # "rejected"
             /\ \E u \in Runs : runOf[u] = NoRun /\ runOf' = [runOf EXCEPT ![u] = r]
  /\ UNCHANGED <<live, rows, seen, results, stopNow>>

RecordAlways(r) ==
  /\ handler[r] \in {"accepted", "rejected", "unknown"}
  /\ handler' = [handler EXCEPT ![r] = "done"]
  /\ rows' = [rows EXCEPT ![r].phase = handler[r]]
  /\ UNCHANGED <<live, seen, runOf, results, stopNow>>

\* hk_stop_record: the dispatch outcome, unless the result came first.
StopRecord(r) ==
  /\ handler[r] \in {"accepted", "rejected", "unknown"}
  /\ handler' = [handler EXCEPT ![r] = "done"]
  /\ rows' = IF rows[r].phase = "reserved" THEN [rows EXCEPT ![r].phase = handler[r]] ELSE rows
  /\ UNCHANGED <<live, seen, runOf, results, stopNow>>

----------------------------------------------------------------------------
\* A platform run re-dispatched for the same stop.
Redispatch(u) ==
  /\ runOf[u] = NoRun
  /\ \E v \in Runs : runOf[v] # NoRun /\ runOf' = [runOf EXCEPT ![u] = runOf[v]]
  /\ UNCHANGED <<live, rows, handler, seen, results, stopNow>>

\* A run posts the readback it took, with the correlation it was given; its clock
\* may be ahead of the console's, even by more than is tolerated.
Post(u, observed) ==
  /\ runOf[u] # NoRun
  /\ LET r == runOf[u] IN
     results' = results \cup
       {[request |-> r, run |-> u, identity |-> rows[r].identity,
         revision |-> rows[r].revision, observed |-> observed]}
  /\ UNCHANGED <<live, rows, handler, seen, runOf, stopNow>>

Fresh(row, result) ==
  /\ row.requested <= result.observed /\ result.observed <= stopNow + Skew
  /\ stopNow - row.requested <= Window

AcceptOldReadback(result) ==
  LET r == result.request IN
  /\ Claimed(r)
  /\ result.identity = rows[r].identity /\ result.revision = rows[r].revision
  /\ live.identity = rows[r].identity
  /\ rows[r].phase \in {"reserved", "accepted", "unknown"}
  /\ stopNow - result.observed <= Window
  /\ rows' = [rows EXCEPT ![r].phase = "stopped",
                          ![r].result = [run |-> result.run, observed |-> result.observed]]
  /\ UNCHANGED <<live, handler, seen, runOf, results, stopNow>>

\* hk_stop_accept_result, where it confirms the stop.  (A replay of the stored
\* result, and every refusal, changes nothing.)
AcceptResult(result) ==
  LET r == result.request IN
  /\ Claimed(r)
  /\ result.identity = rows[r].identity /\ result.revision = rows[r].revision
  /\ live.identity = rows[r].identity
  /\ rows[r].phase \in {"reserved", "accepted", "unknown"}
  /\ Fresh(rows[r], result)
  /\ rows' = [rows EXCEPT ![r].phase = "stopped",
                          ![r].result = [run |-> result.run, observed |-> result.observed]]
  /\ UNCHANGED <<live, handler, seen, runOf, results, stopNow>>

\* A registry command; it may change the identity, and always the revision.
ChangeRegistry(identity) ==
  /\ live.revision < MaxStopTime
  /\ live' = [identity |-> identity, revision |-> live.revision + 1]
  /\ UNCHANGED <<rows, handler, seen, runOf, results, stopNow>>

StopTick ==
  /\ stopNow < MaxStopTime
  /\ stopNow' = stopNow + 1
  /\ UNCHANGED <<live, rows, handler, seen, runOf, results>>

StopInit ==
  /\ live \in [identity : Identities, revision : {1}]
  /\ rows = [r \in Requests |-> NoStop]
  /\ handler = [r \in Requests |-> "idle"]
  /\ seen = [r \in Requests |-> NoStop]
  /\ runOf = [u \in Runs |-> NoRun]
  /\ results = {}
  /\ stopNow = 0

StopNext ==
  \/ \E r \in Requests : ReadAccount(r) \/ ClaimStop(r) \/ Dispatch(r) \/ StopRecord(r)
  \/ \E u \in Runs : Redispatch(u)
  \/ \E u \in Runs, observed \in 0..(stopNow + Skew + 1) : Post(u, observed)
  \/ \E result \in results : AcceptResult(result)
  \/ \E i \in Identities : ChangeRegistry(i)
  \/ StopTick

StopSpec == StopInit /\ [][StopNext]_stopVars

----------------------------------------------------------------------------
(* Properties *)

\* Of all stops two operators or a retrying client request, one is dispatched at
\* a time: the next one is reserved only when every earlier one was refused.
OneStopAtATime ==
  \A q, r \in Requests : Blocking(q) /\ Blocking(r) => q = r

\* A confirmed stop, and the result that confirmed it, never change: not by the
\* dispatch outcome recorded late, not by a second run's result.
StoppedIsFinal ==
  [][\A r \in Requests :
       Claimed(r) /\ rows[r].phase = "stopped" => rows'[r] = rows[r]]_stopVars

\* A stop is confirmed only by a readback taken after it was requested, and only
\* while the instance is still the one that was to be stopped.
ConfirmedWhereItWasRequested ==
  [][\A r \in Requests :
       Claimed(r) /\ rows[r].phase # "stopped" /\ rows'[r].phase = "stopped" =>
         /\ live.identity = rows[r].identity
         /\ rows'[r].result.observed >= rows[r].requested]_stopVars
=============================================================================
