----------------------------- MODULE DigestIntake -----------------------------
(***************************************************************************)
(* What the daily report makes of the rows it received, in any order and   *)
(* any number: the partition by business day (daily_digest_aggregator.py), *)
(* one merged row per run with sticky conflicts                            *)
(* (notification_candidate_adapter.py), the approved gates that may calm a *)
(* block (notification_approved_gates.py) and the totals it then shows     *)
(* (unified_daily_digest.py).                                              *)
(*                                                                         *)
(* A count is a number or Unknown; order, fill and cycle counts are alike  *)
(* and one stands for the three.  Rows are folded in the order of their    *)
(* text, here the order of Rows: the order of arrival plays no part.  The  *)
(* sources are ones that could be read.                                    *)
(***************************************************************************)
EXTENDS Integers, FiniteSets, Sequences, SequencesExt, FiniteSetsExt

CONSTANTS
  Rows,      \* a sequence of the rows that may arrive, in the order of their text
  Expected,  \* the targets the report must cover
  MaxCopies, \* bound: times a row arrives
  MaxRows    \* bound: rows that arrive in all

ASSUME IntakeAssumption == MaxCopies \in Nat /\ MaxRows \in Nat

Unknown == -1

VARIABLE received   \* how often each row has arrived
intakeVars == <<received>>

-----------------------------------------------------------------------------
(* The partition by business day                                           *)

Today(row) == row.day = "today"
Arrived == SelectSeq([i \in 1 .. Len(Rows) |-> <<i, Rows[i]>>], LAMBDA p : received[p[1]] > 0)
CurrentTargets == {p[2].target : p \in {q \in ToSet(Arrived) : Today(q[2])}}
\* A legacy row, and an older one of a target that also has today's, is dropped;
\* any other row of another day is a stale note against its target.
Suppressed(row) == row.day = "legacy" \/ (row.day = "older" /\ row.target \in CurrentTargets)
StaleTargets == {p[2].target : p \in {q \in ToSet(Arrived) : ~Today(q[2]) /\ ~Suppressed(q[2])}}
Fresh == FlattenSeq([j \in 1 .. Len(Arrived) |->
           IF Today(Arrived[j][2]) THEN [k \in 1 .. received[Arrived[j][1]] |-> Arrived[j][2]] ELSE <<>>])

-----------------------------------------------------------------------------
(* The rows of one run                                                     *)

\* A raw event is no counter of its run.
Validated(row) ==
  [target |-> row.target, run |-> row.run, raw |-> row.raw, count |-> IF row.raw THEN Unknown ELSE row.count,
   status |-> row.status, execution |-> row.execution, delivery |-> row.delivery,
   events |-> {row.event} \ {"none"}, gate |-> row.gate, block |-> row.block,
   countConflict |-> FALSE, executionConflict |-> FALSE, gateConflict |-> FALSE]

\* merge_reasons: an alert or a block that names no approved gate disqualifies.
Ungated(m) == m.gate = "none" /\ ~m.raw /\ (m.block \/ m.status = "alert")
GateConflictUnlessNamed(p, m) == p.gateConflict \/ m.gateConflict \/ Ungated(p) \/ Ungated(m)
GateConflict(p, m) ==
  \/ p.gateConflict \/ m.gateConflict \/ Ungated(p) \/ Ungated(m)
  \/ p.gate # "none" /\ m.gate # "none" /\ p.gate # m.gate

CountConflict(p, m) ==
  p.countConflict \/ (p.count # Unknown /\ m.count # Unknown /\ p.count # m.count)
Known(old, new) == IF old # Unknown THEN old ELSE new

Axis(old, new, failure) ==
  IF failure \in {old, new} THEN failure
  ELSE IF old = "none" THEN new ELSE IF new \in {"none", old} THEN old ELSE "unknown"

ExecutionConflict(p, m) ==
  p.executionConflict \/ (p.execution # "none" /\ m.execution # "none" /\ p.execution # m.execution)
Alert(p, m) == "alert" \in {p.status, m.status} \/ ExecutionConflict(p, m)

Merge(p, m) ==
  [p EXCEPT !.raw = p.raw /\ m.raw,
            !.count = IF CountConflict(p, m) THEN Unknown ELSE Known(p.count, m.count),
            !.countConflict = CountConflict(p, m),
            !.delivery = Axis(p.delivery, m.delivery, "delivery_failed"),
            !.events = @ \cup m.events,
            !.status = IF Alert(p, m) THEN "alert" ELSE @,
            !.execution = IF ExecutionConflict(p, m) THEN "execution_unknown"
                          ELSE IF @ = "none" THEN m.execution ELSE @,
            !.executionConflict = ExecutionConflict(p, m),
            !.block = @ \/ m.block,
            !.gate = IF m.gate # "none" THEN m.gate ELSE @,
            !.gateConflict = GateConflict(p, m) \/ ExecutionConflict(p, m)]

\* Rows without the identity of a run never meet.
Runs == {row.run : row \in {r \in ToSet(Fresh) : r.ran}} \ {"unknown"}
MergedRun(run) ==
  LET mine == SelectSeq(Fresh, LAMBDA r : r.ran /\ r.run = run) IN
  FoldLeft(LAMBDA p, r : Merge(p, Validated(r)), Validated(mine[1]), Tail(mine))
Strays == {Validated(r) : r \in {x \in ToSet(Fresh) : x.ran /\ x.run = "unknown"}}

\* validated_reasons: archive evidence of a run that ordered nothing, and no
\* event of it but routine ones.
Approved(m) ==
  /\ m.gate # "none" /\ ~m.gateConflict /\ ~m.raw /\ m.run # "unknown"
  /\ m.block /\ m.count = 0
  /\ m.events \subseteq {"routine", "expected_block"}
Urgent(m) == \E e \in m.events : ~(e = "routine" \/ (Approved(m) /\ e = "expected_block"))
Classified(m) == [m EXCEPT !.status = IF Urgent(m) THEN "alert" ELSE @]
Entries == {Classified(MergedRun(run)) : run \in Runs} \cup {Classified(m) : m \in Strays}
\* An immediate item per urgent event, or per alert no gate explains.
Immediate(m) == ~Approved(m) /\ (Urgent(m) \/ m.status = "alert" \/ m.block)

-----------------------------------------------------------------------------
(* What is known of the day                                                *)

\* A row that says a target was not due covers it, as a run does.
Observed == {r.target : r \in {x \in ToSet(Fresh) : x.run # "unknown"}}
ScopeUnknown == \/ Strays # {} \/ (\E m \in Entries : m.countConflict) \/ ~(Expected \subseteq Observed)
CoverageComplete == StaleTargets = {} /\ Expected \subseteq Observed
WindowComplete == CoverageComplete /\ ~ScopeUnknown

\* _render_consolidated: the totals of the whole window, or that they are unknown
Total == IF WindowComplete /\ \A m \in Entries : m.count # Unknown
         THEN FoldSet(LAMBDA run, sum : sum + MergedRun(run).count, 0, Runs) ELSE Unknown

\* _verified_no_trade
Quiet(m) == /\ m.status = "ok" /\ ~m.block /\ m.execution \in {"none", "done"} /\ m.count = 0
            /\ m.delivery \in {"none", "delivered"}

IntakeInit == received = [i \in 1 .. Len(Rows) |-> 0]
Receive(i) == /\ received[i] < MaxCopies
              /\ FoldFunction(+, 0, received) < MaxRows
              /\ received' = [received EXCEPT ![i] = @ + 1]
IntakeNext == \E i \in 1 .. Len(Rows) : Receive(i)

-----------------------------------------------------------------------------
\* The rows of run r that arrived for today
Evidence(run) == {r \in ToSet(Fresh) : r.ran /\ r.run = run}
Stated(run) == {r.count : r \in {x \in Evidence(run) : ~x.raw}} \ {Unknown}

\* A total is shown only of a fully covered day on which the rows of every run
\* agree, and each run is counted once however often its rows arrived.
TotalIsAgreed ==
  Total # Unknown =>
    /\ \A run \in Runs : Cardinality(Stated(run)) = 1
    /\ Total = FoldSet(LAMBDA run, sum : sum + (CHOOSE n \in Stated(run) : TRUE), 0, Runs)
    /\ \A t \in Expected : \E r \in ToSet(Fresh) : r.target = t

\* No healthy row hides what another said of the run: an alert, an urgent event,
\* two ways it ended, or evidence that was not delivered; and a run is calm
\* only if every row that reports its block names the same gate.
NothingIsCalmed ==
  \A run \in Runs :
    LET m == Classified(MergedRun(run)) e == Evidence(run) IN
    /\ (\E r \in e : r.status = "alert" \/ r.event = "urgent") => m.status = "alert"
    /\ Cardinality({r.execution : r \in e} \ {"none"}) > 1 => m.status = "alert" /\ ~Quiet(m)
    /\ (\E r \in e : r.delivery = "delivery_failed") => ~Quiet(m)
    /\ (\E r \in e : r.block) /\ ~Immediate(m) =>
         Cardinality({r.gate : r \in {x \in e : x.block}}) = 1 /\ \A r \in e : r.event # "urgent"
=============================================================================
