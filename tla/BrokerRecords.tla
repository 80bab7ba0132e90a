---------------------------- MODULE BrokerRecords ----------------------------
(* Money moved in and out of an account, and executions its broker reported.  *)
(* A flow report covers windows of time, which later reports may complete; an *)
(* execution may be reported again with what was not known before.  Both are  *)
(* kept for one account, under what it was bound to when they were stored.    *)
EXTENDS Integers, FiniteSets

CONSTANTS FlowBindings,     \* what the account may be bound to: [source, account]
          FlowReports,      \* sets of windows [from, to, dated, complete, records]
          ExecutionReports, \* sets of [ref, terms, fee], fee = 0 when not known
          FlowRetention, MaxFlowReports
ASSUME RecordsAssumption ==
  /\ FlowRetention \in Nat
  /\ \A ws \in FlowReports : IsFiniteSet(ws) /\ \A w \in ws : w.to \in Nat
  /\ \A new \in ExecutionReports : \A e \in new : e = [ref |-> e.ref, terms |-> e.terms, fee |-> e.fee]
VARIABLES bound, formerSources, \* the binding now and the approved former sources
          flow,             \* a set of at most one [binding, windows]
          executions,       \* per source: a set of at most one [account, records]
          flowReports       \* counts the reports of a run
recordVars == <<bound, formerSources, flow, executions, flowReports>>
RecordSources == {b.source : b \in FlowBindings}
-------------------------------------------------------------------------------
Key(w) == <<w.from, w.to, w.dated>>
FlowRecords(ws) == UNION {w.records : w \in ws}
OverlapFree(ws) ==
  \A v, w \in ws : v # w /\ ~v.dated /\ ~w.dated => v.to <= w.from \/ w.to <= v.from
\* A reference names one movement; windows read to the instant do not overlap.
WellFormedFlow(ws) ==
  /\ OverlapFree(ws)
  /\ \A v, w \in ws : Key(v) = Key(w) => v = w
  /\ \A r, s \in FlowRecords(ws) : r.ref = s.ref => r = s

Stored == UNION {f.windows : f \in {g \in flow : g.binding = bound}}
\* A window may be completed; what it already lists must stay in it.
Completes(old, w) == 
  \/ old = w
  \/ (~old.complete \/ old.dated) /\ old.records \subseteq w.records
MergedFlow(old, ws) ==
  LET all == {w \in old : \A v \in ws : Key(v) # Key(w)} \cup ws
  IN  {w \in all : \A v \in all : w.to >= v.to - FlowRetention}
FlowFits(ws) ==
  /\ \A old \in Stored, w \in ws : Key(old) = Key(w) => Completes(old, w)
  /\ WellFormedFlow(MergedFlow(Stored, ws))
  /\ ws \subseteq MergedFlow(Stored, ws)
PutFlow(ws) ==
  /\ flowReports < MaxFlowReports /\ flowReports' = flowReports + 1
  /\ WellFormedFlow(ws)
  /\ flow' = IF FlowFits(ws) THEN {[binding |-> bound, windows |-> MergedFlow(Stored, ws)]} ELSE flow
  /\ UNCHANGED <<bound, formerSources, executions>>
-------------------------------------------------------------------------------
\* What is known of an execution may be added to and never changed.
Agrees(e, f) == e.ref = f.ref => e.terms = f.terms /\ (0 \in {e.fee, f.fee} \/ e.fee = f.fee)
MergeRecord(e, new) ==
  IF \E f \in new : f.ref = e.ref /\ f.fee # 0 THEN CHOOSE f \in new : f.ref = e.ref /\ f.fee # 0 ELSE e
MergedExecutions(old, new) ==
  {MergeRecord(e, new) : e \in old} \cup {f \in new : \A e \in old : e.ref # f.ref}

KeptOf(s) == UNION {x.records : x \in {y \in executions[s] : y.account = bound.account}}
PutExecutions(new) ==
  /\ flowReports < MaxFlowReports /\ flowReports' = flowReports + 1
  /\ executions' =
       IF \A e \in KeptOf(bound.source), f \in new : Agrees(e, f)
       THEN [executions EXCEPT ![bound.source] =
               {[account |-> bound.account, records |-> MergedExecutions(KeptOf(bound.source), new)]}]
       ELSE executions
  /\ UNCHANGED <<bound, formerSources, flow>>

\* The console reads the executions of every approved source as one list, and
\* none at all when two sources contradict each other.
ApprovedRecords == UNION {KeptOf(s) : s \in {bound.source} \cup formerSources}
ReadableExecutions == \A e, f \in ApprovedRecords : Agrees(e, f)
ReadExecutions ==
  IF ReadableExecutions THEN {MergeRecord(e, ApprovedRecords) : e \in ApprovedRecords} ELSE {}
-------------------------------------------------------------------------------
RecordsInit == /\ bound \in FlowBindings /\ formerSources = {} /\ flow = {}
               /\ executions = [s \in RecordSources |-> {}] /\ flowReports = 0
\* The owner binds the account anew, and may approve what it was bound to.
BindRecords == /\ bound' \in FlowBindings \ {bound}
               /\ formerSources' \in SUBSET (RecordSources \ {bound'.source})
               /\ UNCHANGED <<flow, executions, flowReports>>
\* What an account's flow source may report.
ReportedFlows == FlowReports
RecordsNext == \/ BindRecords
               \/ \E ws \in ReportedFlows : PutFlow(ws)
               \/ \E new \in ExecutionReports : PutExecutions(new)
RecordsSpec == RecordsInit /\ [][RecordsNext]_recordVars
-------------------------------------------------------------------------------
\* What the console knows of the flows of an account is well formed whatever was
\* merged: no instant is covered twice and no movement has two meanings.  The
\* executions it lists hold each execution once.
RecordsAreOne ==
  /\ WellFormedFlow(Stored)
  /\ \A e, f \in ReadExecutions : e.ref = f.ref => e = f

\* A movement once accepted stays, in its window and as it was, until its window
\* leaves the retention; an execution once accepted keeps its terms and the fee
\* that was known.
StaysStep ==
  UNCHANGED bound =>
    /\ \A w \in Stored : \/ \E v \in Stored' : Key(v) = Key(w) /\ w.records \subseteq v.records
                         \/ \E v \in Stored' : w.to < v.to - FlowRetention
    /\ \A s \in RecordSources : \A e \in KeptOf(s) : \E f \in KeptOf(s)' :
         f.ref = e.ref /\ f.terms = e.terms /\ e.fee \in {0, f.fee}
AcceptedStays == [][StaysStep]_recordVars
===============================================================================
