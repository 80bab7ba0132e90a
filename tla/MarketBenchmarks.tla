--------------------------- MODULE MarketBenchmarks ---------------------------
(* The history of daily index closes (infrastructure/market_benchmark/, the  *)
(* marketBenchmark* methods of worker.js) and the jobs that write it         *)
(* (scripts/sync_market_benchmark_closes.mjs).  A stored close is frozen: a  *)
(* sync only appends, and a batch that disagrees with the history is refused *)
(* as a whole.  Only an approved revision replaces a close: the job rebuilds *)
(* the proposal, the HTTP handler checks it against the history it reads,    *)
(* and a second command applies it and appends it to a ledger.               *)
(*                                                                           *)
(* One series; its days are 1 .. MaxDay.  A close is a natural number, 0 for *)
(* none; closes one apart are within the approved tolerance.                 *)
EXTENDS Integers, Sequences, FiniteSets, SequencesExt

CONSTANTS Closes, MaxDay, SyncJobs, RevisionJobs, MaxMoves, MaxRuns
ASSUME BenchAssumption == Closes \subseteq Nat /\ MaxDay \in Nat

VARIABLES today,      \* the current day of the exchange
          upstream,   \* the close the upstream reports for each day
          stored,     \* the stored closes
          ledger,     \* the revisions applied: [proposal, day, prior, close, replaced]
          syncJob,    \* the sync jobs
          revJob,     \* the revision jobs and the request each has in flight
          proposed,   \* the proposals dry runs have printed
          approved,   \* the proposals the owner approved
          firstClose, \* history: the close each day was first stored with
          benchBudget      \* the upstream changes and the job runs still to come

benchVars == <<today, upstream, stored, ledger, syncJob, revJob, proposed, approved,
               firstClose, benchBudget>>

Days == 1 .. MaxDay
NoCandidates == [d \in Days |-> 0]
IdleSync == [phase |-> "idle", candidates |-> NoCandidates, post |-> {}]
IdleRevision == [phase |-> "idle", seen |-> NoCandidates, proposal |-> {}]

WithinTolerance(a, b) == a - b <= 1 /\ b - a <= 1

BenchInit ==
  /\ today = 1 /\ upstream = [d \in Days |-> 0]
  /\ stored = [d \in Days |-> 0] /\ firstClose = [d \in Days |-> 0]
  /\ ledger = <<>> /\ proposed = {} /\ approved = {}
  /\ syncJob = [j \in SyncJobs |-> IdleSync]
  /\ revJob = [j \in RevisionJobs |-> IdleRevision]
  /\ benchBudget = [moves |-> MaxMoves, runs |-> MaxRuns]

\* External: a session ends, and the upstream publishes or corrects a close.
SessionEnds == today <= MaxDay /\ today' = today + 1
               /\ UNCHANGED <<upstream, stored, ledger, syncJob, revJob, proposed, approved,
                              firstClose, benchBudget>>
UpstreamMoves(d, c) ==
  /\ benchBudget.moves > 0 /\ d <= today /\ upstream[d] # c
  /\ upstream' = [upstream EXCEPT ![d] = c]
  /\ benchBudget' = [benchBudget EXCEPT !.moves = @ - 1]
  /\ UNCHANGED <<today, stored, ledger, syncJob, revJob, proposed, approved, firstClose>>

-----------------------------------------------------------------------------
(* The sync job *)

\* benchmarkHistoryWindow, closedSessionPoints: the closes of the days asked for
\* whose session is over; today's bar may still move and is left out.
ClosedCandidates(from, through) ==
  [d \in Days |-> IF from <= d /\ d <= through /\ d < today THEN upstream[d] ELSE 0]

FetchCandidates(j, from, through) ==
  /\ syncJob[j].phase = "idle" /\ benchBudget.runs > 0
  /\ ClosedCandidates(from, through) # NoCandidates
  /\ syncJob' = [syncJob EXCEPT ![j] = [@ EXCEPT !.phase = "fetched",
                                         !.candidates = ClosedCandidates(from, through)]]
  /\ benchBudget' = [benchBudget EXCEPT !.runs = @ - 1]
  /\ UNCHANGED <<today, upstream, stored, ledger, revJob, proposed, approved, firstClose>>

\* planBenchmarkRevision: the candidates the history does not have, has exactly,
\* and contradicts; one within the tolerance is neither posted nor a conflict.
Unseen(cand, seen) == {d \in Days : cand[d] # 0 /\ seen[d] = 0}
Identical(cand, seen) == {d \in Days : cand[d] # 0 /\ seen[d] = cand[d]}
Differing(cand, seen) ==
  {d \in Days : cand[d] # 0 /\ seen[d] # 0 /\ ~WithinTolerance(cand[d], seen[d])}
ProposalOf(cand, seen) ==
  {[day |-> d, prior |-> seen[d], close |-> cand[d]] : d \in Differing(cand, seen)}

\* The job reads the history and plans; one conflict blocks the whole batch.
PlanSync(j) ==
  /\ syncJob[j].phase = "fetched"
  /\ LET cand == syncJob[j].candidates
         post == Unseen(cand, stored) \cup Identical(cand, stored)
     IN syncJob' = [syncJob EXCEPT ![j] =
          IF Differing(cand, stored) # {} \/ post = {} THEN IdleSync
          ELSE [@ EXCEPT !.phase = "planned", !.post = post]]
  /\ UNCHANGED <<today, upstream, stored, ledger, revJob, proposed, approved, firstClose, benchBudget>>

\* A dry run posts nothing and prints the proposal for the owner.
DryRun(j) ==
  /\ syncJob[j].phase = "fetched"
  /\ LET p == ProposalOf(syncJob[j].candidates, stored)
     IN proposed' = IF p = {} THEN proposed ELSE proposed \cup {p}
  /\ syncJob' = [syncJob EXCEPT ![j] = IdleSync]
  /\ UNCHANGED <<today, upstream, stored, ledger, revJob, approved, firstClose, benchBudget>>


\* putMarketBenchmarkPoints: one transaction; a point stored with another close
\* refuses them all.
PutPoints(j) ==
  LET cand == syncJob[j].candidates
      post == syncJob[j].post
      conflict == \E d \in post : stored[d] # 0 /\ stored[d] # cand[d]
  IN /\ syncJob[j].phase = "planned"
     /\ stored' = IF conflict THEN stored
                  ELSE [d \in Days |-> IF d \in post THEN cand[d] ELSE stored[d]]
     /\ firstClose' = [d \in Days |-> IF firstClose[d] = 0 THEN stored'[d] ELSE firstClose[d]]
     /\ syncJob' = [syncJob EXCEPT ![j] = IdleSync]
     /\ UNCHANGED <<today, upstream, ledger, revJob, proposed, approved, benchBudget>>

-----------------------------------------------------------------------------
(* Revisions *)

Approve(p) ==
  /\ p \in proposed \ approved
  /\ approved' = approved \cup {p}
  /\ UNCHANGED <<today, upstream, stored, ledger, syncJob, revJob, proposed, firstClose, benchBudget>>

\* applyApprovedRevision: the job reads the history first ...
ReadForRevision(j) ==
  /\ revJob[j].phase = "idle" /\ benchBudget.runs > 0 /\ approved # {}
  /\ revJob' = [revJob EXCEPT ![j] = [@ EXCEPT !.phase = "read", !.seen = stored]]
  /\ benchBudget' = [benchBudget EXCEPT !.runs = @ - 1]
  /\ UNCHANGED <<today, upstream, stored, ledger, syncJob, proposed, approved, firstClose>>

\* planRevisionApply: every replacement's day is stored with the prior close the
\* proposal names, and its close is another one.
RevisionHolds(p, seen) ==
  \A e \in p : seen[e.day] # 0 /\ seen[e.day] = e.prior /\ e.close # seen[e.day]

\* ... and then posts an approved proposal: the one a payload carries, or the one
\* buildUpstreamRevisionPayload rebuilds from the closes fetched now.
PostRevision(j, p, rebuilt) ==
  /\ revJob[j].phase = "read" /\ p \in approved
  /\ rebuilt => p = ProposalOf(ClosedCandidates(1, MaxDay), revJob[j].seen)
  /\ RevisionHolds(p, revJob[j].seen)
  /\ revJob' = [revJob EXCEPT ![j] = [phase |-> "posted", seen |-> NoCandidates, proposal |-> p]]
  /\ UNCHANGED <<today, upstream, stored, ledger, syncJob, proposed, approved, firstClose, benchBudget>>

\* A job whose proposal is not the approved one, or whose read has moved, stops.
GiveUpRevision(j) ==
  /\ revJob[j].phase = "read"
  /\ revJob' = [revJob EXCEPT ![j] = IdleRevision]
  /\ UNCHANGED <<today, upstream, stored, ledger, syncJob, proposed, approved, firstClose, benchBudget>>

\* reviseMarketBenchmarkResponse: the handler reads the history and checks the
\* proposal against what it read.
PlanRevision(j) ==
  /\ revJob[j].phase = "posted"
  /\ revJob' = [revJob EXCEPT ![j] =
       IF RevisionHolds(@.proposal, stored) THEN [@ EXCEPT !.phase = "planned"] ELSE IdleRevision]
  /\ UNCHANGED <<today, upstream, stored, ledger, syncJob, proposed, approved, firstClose, benchBudget>>

Applicable(p) ==
  /\ \A i \in DOMAIN ledger : ledger[i].proposal # p
  /\ \A e \in p : stored[e.day] # 0 /\ stored[e.day] # e.close

\* The order of a proposal's entries is of no consequence.
EntriesOf(p) ==
  LET order == SetToSeq(p)
  IN [i \in DOMAIN order |-> [proposal |-> p, day |-> order[i].day, prior |-> order[i].prior,
                              close |-> order[i].close, replaced |-> stored[order[i].day]]]

\* reviseMarketBenchmarkPoints: a proposal is applied once, to stored days whose
\* close differs from the new one; the prior close is not compared again.
ApplyRevision(j) ==
  LET p == revJob[j].proposal IN
  /\ revJob[j].phase = "planned"
  /\ IF Applicable(p)
     THEN /\ stored' = [d \in Days |-> IF \E e \in p : e.day = d
                                       THEN (CHOOSE e \in p : e.day = d).close ELSE stored[d]]
          /\ ledger' = ledger \o EntriesOf(p)
     ELSE UNCHANGED <<stored, ledger>>
  /\ revJob' = [revJob EXCEPT ![j] = IdleRevision]
  /\ UNCHANGED <<today, upstream, syncJob, proposed, approved, firstClose, benchBudget>>

BenchNext ==
  \/ SessionEnds
  \/ \E d \in Days, c \in Closes : UpstreamMoves(d, c)
  \/ \E j \in SyncJobs : \/ \E f, t \in Days : FetchCandidates(j, f, t)
                         \/ PlanSync(j) \/ DryRun(j) \/ PutPoints(j)
  \/ \E p \in proposed : Approve(p)
  \/ \E j \in RevisionJobs : \/ ReadForRevision(j)
                             \/ \E p \in approved, r \in BOOLEAN : PostRevision(j, p, r)
                             \/ GiveUpRevision(j) \/ PlanRevision(j) \/ ApplyRevision(j)

BenchSpec == BenchInit /\ [][BenchNext]_benchVars

-----------------------------------------------------------------------------
(* Properties *)

\* The first day with a stored close, the inception the read model reports.
Inception == IF \A d \in Days : stored[d] = 0 THEN MaxDay + 1
             ELSE CHOOSE d \in Days : stored[d] # 0 /\ \A e \in Days : stored[e] # 0 => d <= e

\* performanceBenchmarkModel: a window is shown when both its ends are stored.
WindowShown(from, through) == from <= through /\ stored[from] # 0 /\ stored[through] # 0

\* Whatever syncs and revisions interleave, a stored close is the one the day
\* was first stored with or the one the last ledger entry of the day names; a
\* proposal is applied once, with all its entries, and only if it was approved.
EveryCloseIsTraced ==
  /\ \A d \in Days :
       LET told == {i \in DOMAIN ledger : ledger[i].day = d} IN
       stored[d] = IF told = {} THEN firstClose[d]
                   ELSE ledger[CHOOSE i \in told : \A k \in told : k <= i].close
  /\ \A i \in DOMAIN ledger :
       LET p == ledger[i].proposal IN
       p \in approved /\ Cardinality({k \in DOMAIN ledger : ledger[k].proposal = p}) = Cardinality(p)

\* What was once shown stays on show: no close disappears, the inception never
\* moves forward and a window that was complete stays complete.
GrowsStep == Inception' <= Inception /\ \A f, t \in Days : WindowShown(f, t) => WindowShown(f, t)'
HistoryOnlyGrows == [][GrowsStep]_benchVars

\* The job's promise that a changed stored value can never be applied under an
\* old approval: what a ledger entry replaced is the prior close it names.
AppliedAsApproved == \A i \in DOMAIN ledger : ledger[i].replaced = ledger[i].prior

=============================================================================
