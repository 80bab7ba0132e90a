------------------------------ MODULE MCStores ------------------------------
(* What the console stores of other systems, side by side: the state of a    *)
(* run is that of one part, the variables of the others rest.                *)
EXTENDS CycleHealth, MarketBenchmarks, AccountFacts, NativeReturns, BrokerRecords,
        EvidenceSources, ResearchLedger, RuntimeDaily, RecoveryDesk, KvDirectory, TLC
VARIABLE part

Fault(key, cycle, rank, at) == [key |-> key, cycle |-> cycle, rank |-> rank, at |-> at, missing |-> FALSE]
MissingReport == [key |-> "m2", cycle |-> "k2", rank |-> 2, at |-> 2, missing |-> TRUE]
MCReceipts == {Fault("r1", "k1", 1, 1), Fault("r1", "k1", 0, 1), Fault("r2", "k1", 2, 2),
               MissingReport}
Scan(from, through, ok) == [computed |-> through, from |-> from, through |-> through, ok |-> ok]
MCScans == {Scan(1, 2, TRUE), Scan(1, 2, FALSE), Scan(2, 3, TRUE), Scan(3, 3, TRUE)}
MCCycleLists == {<<>>, <<Fault("r1", "k1", 0, 1)>>,
                 <<MissingReport>>, <<Fault("r2", "k1", 2, 2), Fault("r1", "k1", 1, 1)>>}

Snap(from, started, finished, net) == [source |-> from, started |-> started, finished |-> finished, net |-> net]
MCFactSnapshots == {Snap("s1", 1, 2, 1), Snap("s1", 1, 1, 2), Snap("s2", 1, 2, 1), Snap("s2", 2, 2, 2),
                    Snap("s2", 3, 4, 3), Snap("s1", 3, 3, 1), Snap("s1", 4, 4, -1)}
Binding(from, history, physical) == [source |-> from, history |-> history, physical |-> physical, matched |-> TRUE]
MCFactConfigs == {"a1" :> Binding("s1", {}, "p") @@ "a2" :> Binding("s2", {}, "q"),
                  "a1" :> Binding("s1", {}, "p") @@ "a2" :> Binding("s2", {}, "p"),
                  "a1" :> Binding("s2", {"s1"}, "p"),
                  "a1" :> Binding("s1", {}, "p") @@ "a2" :> Binding("s2", {"s1"}, "q")}

StatedReturn(from, first, last, value, nav, at) ==
  [source |-> from, from |-> first, to |-> last, value |-> value, nav |-> nav, observed |-> at]
MCNativeReports == {StatedReturn("s1", 1, 1, 1, 1, 1), StatedReturn("s1", 1, 1, 1, 2, 2), StatedReturn("s2", 1, 1, 1, 1, 2),
                    StatedReturn("s2", 1, 1, 2, 0, 2), StatedReturn("s2", 2, 2, 1, 1, 2), StatedReturn("s1", 1, 2, 1, 0, 2),
                    StatedReturn("s1", 3, 3, 1, 0, 3)}
MCNativeConfigs == {[source |-> "s1", history |-> {}], [source |-> "s2", history |-> {"s1"}],
                    [source |-> "s1", history |-> {"s2"}]}

Span(from, to, dated, complete, records) ==
  [from |-> from, to |-> to, dated |-> dated, complete |-> complete, records |-> records]
Moved(ref, amount) == [ref |-> ref, amount |-> amount]
MCFlowReports ==
  {{Span(1, 2, FALSE, FALSE, {Moved("f1", 1)})}, {Span(1, 2, FALSE, TRUE, {Moved("f1", 1), Moved("f2", 1)})},
   {Span(1, 2, FALSE, TRUE, {Moved("f2", 1)})}, {Span(1, 3, FALSE, TRUE, {Moved("f3", 1)})},
   {Span(1, 3, TRUE, FALSE, {Moved("f2", 2)})},
   {Span(2, 4, FALSE, TRUE, {}), Span(5, 6, FALSE, TRUE, {Moved("f3", 1)})}}
Execution(ref, terms, fee) == [ref |-> ref, terms |-> terms, fee |-> fee]
MCExecutionReports == {{Execution("e1", 1, 0)}, {Execution("e1", 1, 1), Execution("e2", 1, 0)},
                       {Execution("e1", 1, 2)}, {Execution("e2", 2, 0)}}
MCFlowBindings == {[source |-> "s1", account |-> "n1"], [source |-> "s2", account |-> "n1"],
                   [source |-> "s1", account |-> "n2"]}

MCEvItems(feed) ==
  CASE feed = "candidates" -> {[id |-> "i", stage |-> "P6", recommended |-> "owner_live_decision"],
                               [id |-> "j", stage |-> "P3", recommended |-> "park"]}
    [] feed = "tasks" -> {[id |-> "i", researchOnly |-> TRUE], [id |-> "j", researchOnly |-> FALSE]}
    [] feed = "deployments" ->
         {[id |-> "i", recommended |-> "canary", strategy |-> "verified", execution |-> e, receipt |-> r, observed |-> 0] :
            e \in {"verified", "unavailable"}, r \in {{}, {"failed"}, {"filled"}}}
    [] feed = "targets" ->
         {[id |-> "i", configured |-> "enabled", guard |-> "pass", heartbeat |-> h,
           disposition |-> Disposition("enabled", "pass", h),
           deployment |-> {[enabled |-> on, scheduler |-> IF on THEN "enabled" ELSE "paused", at |-> t]}] :
            h \in {"pass", "unavailable"}, on \in BOOLEAN, t \in {1, 2}}
         \cup {[id |-> "i", configured |-> "disabled", guard |-> "pass", heartbeat |-> "not_applicable",
                disposition |-> "disabled", deployment |-> {}]}
    [] feed = "selections" ->
         {[id |-> "i", recommended |-> {"a"}, candidates |-> {[pair |-> "a", accepted |-> ok]}] : ok \in BOOLEAN}
MCEvSnapshots(feed) ==
  {[status |-> st, generated |-> g, computed |-> c, items |-> {i}] :
     st \in {"ready", "unavailable"}, g \in {0, 1, 3}, c \in {2}, i \in MCEvItems(feed)}
  \cup {[status |-> "ready", generated |-> 2, computed |-> 2, items |-> MCEvItems(feed)],
        [status |-> "stale", generated |-> 2, computed |-> 2, items |-> {}]}
Receipt(outcome, at, own) == [outcome |-> outcome, at |-> at, own |-> own]
RuntimeReport(id, at, receipt) == [id |-> id, at |-> at, lane |-> TRUE, attested |-> TRUE, receipt |-> receipt]
MCEvReports ==
  {RuntimeReport("i", 1, {Receipt("failed", 1, TRUE)}), RuntimeReport("i", 2, {}),
   RuntimeReport("j", 1, {Receipt("filled", 1, FALSE)}), RuntimeReport("j", 3, {Receipt("no_signal", 1, TRUE)})}

Hypothesised(subject, text, at) == [subject |-> subject, text |-> text, generated |-> at]
MCM0Snapshots ==
  {[status |-> st, generated |-> 1, computed |-> 2, hypotheses |-> xs] :
     st \in {"ready", "stale"},
     xs \in {{Hypothesised("t", "short", 1)}, {Hypothesised("t", "short", 1), Hypothesised("t", "long", 2)},
             {Hypothesised("t", "short", 2), Hypothesised("u", "long", 2)}}}
  \cup {[status |-> "ready", generated |-> 3, computed |-> 3, hypotheses |-> {Hypothesised("u", "long", 3)}],
        [status |-> "unavailable", generated |-> 0, computed |-> 0, hypotheses |-> {}]}

Fact(t, a, id, from, sel) == [target |-> t, account |-> a, id |-> id, source |-> from, selector |-> sel, matched |-> TRUE]
Entry(t, a, id, from) == [target |-> t, account |-> a, id |-> id, source |-> from]
Plain(a) == {[target |-> "pt", account |-> a]}
\* Registrations of ibkr (a1, a2) and of longbridge (a5, a6), the strict target (a3, a4)
\* and the plain one: at first everything on its own, then accounts bound anew, then two
\* accounts of each platform that are one at the broker, and the plain target registered.
MCDailyConfigs ==
  {[registry |-> {Entry("t1", "a1", "i1", "s1"), Entry("t2", "a2", "i2", "s2")}, plain |-> Plain("a5"),
    facts |-> {Fact("t1", "a1", "i1", "s1", "x"), Fact("t2", "a2", "i2", "s2", "y"), Fact("st", "a3", "i3", "s3", "z")}],
   [registry |-> {Entry("t1", "a2", "i2", "s2"), Entry("pt", "a5", "i4", "s1")}, plain |-> Plain("a6"),
    facts |-> {Fact("t2", "a2", "i2", "s2", "y"), Fact("pt", "a5", "i4", "s1", "v"), Fact("st", "a4", "i3", "s3", "w")}],
   [registry |-> {Entry("t1", "a1", "i1", "s1"), Entry("t2", "a2", "i2", "s2"), Entry("u1", "a5", "i4", "s4"), Entry("u2", "a6", "i5", "s5")},
    plain |-> Plain("a5"),
    facts |-> {Fact("t1", "a1", "i1", "s1", "x"), Fact("t2", "a2", "i2", "s2", "x"),
               Fact("u1", "a5", "i4", "s4", "v"), Fact("u2", "a6", "i5", "s5", "v")}]}
Ran(id, from, to, lane, activity, receipt) ==
  [id |-> id, from |-> from, to |-> to, lane |-> lane, activity |-> activity, receipt |-> receipt,
   pending |-> FALSE, errors |-> FALSE]
Early == Ran("r1", 2, 2, "live", "no_signal", "no_signal")
OnTime == Ran("r2", 3, 3, "live", "no_signal", "no_signal")
Filled == Ran("r2", 3, 3, "live", "filled", "filled")
Shadow == Ran("r3", 3, 3, "shadow", "submitted", "submitted")
Unfinished == [Ran("r4", 2, 3, "live", "filled", "missing") EXCEPT !.pending = TRUE]
Broken == [Ran("r5", 3, 3, "live", "failed", "missing") EXCEPT !.errors = TRUE]
DayReport(at, status, kind, complete, state, due, runs, conflicts) ==
  [observed |-> at, date |-> 1, status |-> status, kind |-> kind, complete |-> complete, state |-> state,
   due |-> due, runs |-> runs, conflicts |-> conflicts, clean |-> complete, unmatched |-> FALSE]
DayStatuses == {<<"no_signal", "run">>, <<"filled", "run">>, <<"within_grace", "schedule">>, <<"read_incomplete", "incomplete">>}
StrictDays ==
  {DayReport(3, k[1], k[2], x = {}, "within_grace", 3, runs, x) : k \in DayStatuses,
     runs \in {{}, {Early}, {OnTime}, {Early, OnTime}, {OnTime, Filled}, {OnTime, Shadow}, {OnTime, Broken}, {Broken}},
     x \in {{}, {"r2"}}}
LaxDays == {DayReport(2, "filled", "run", TRUE, "due", 2, {Filled}, {}), DayReport(3, "filled", "run", TRUE, "due", 2, {Filled, Unfinished}, {}),
            DayReport(3, "failed", "run", TRUE, "due", 2, {Broken}, {})}
MCDailyReports ==
  {[source |-> "s3", target |-> "st", day |-> d] : d \in StrictDays}
  \cup {[source |-> x[1], target |-> x[2], day |-> d] : x \in {<<"s1", "t1">>, <<"s2", "t1">>, <<"s2", "t2">>, <<"s1", "pt">>}, d \in LaxDays}
  \cup {[source |-> "s4", target |-> "u1", day |-> d] : d \in {x \in LaxDays : x.status = "failed"}}

Requested(mode, c, r, first, last, waiting, blocked) ==
  [id |-> "r", mode |-> mode, candidate |-> c, review |-> r, samples |-> 1, first |-> first, last |-> last,
   waiting |-> waiting, blocked |-> blocked, account |-> "a1"]
Asking(at, requests) == [status |-> "ready", at |-> at, requests |-> requests]
MCRecoverySnapshots ==
  {Asking(1, {Requested("recovery", "c1", "c1", 1, 1, TRUE, FALSE)}), Asking(2, {Requested("recovery", "c2", "c2", 1, 2, TRUE, FALSE)}),
   Asking(3, {Requested("recovery", "c1", "c1", 1, 1, TRUE, FALSE)}),
   Asking(2, {Requested("recovery", "c2", "c1", 1, 2, FALSE, FALSE)}),
   Asking(2, {Requested("enrollment", "c3", "f1", 2, 2, FALSE, FALSE)}),
   Asking(2, {Requested("enrollment", "c4", "f2", 2, 2, FALSE, TRUE)}), Asking(2, {})}

\* A bound: the keys there are at the start; the key between them comes later.
StartKeys == {1, 3}

StoresSymmetry ==
  Permutations(CycleBindings) \cup Permutations(CycleConfigs) \cup Permutations(M0Runs) \cup Permutations(Callers)

Rest(x) ==
  /\ x # "cycle" => /\ source = 0 /\ ckpt = 0 /\ faultLog = 0 /\ incidents = 0 /\ walk = 0 /\ scanned = 0
  /\ x # "bench" => /\ today = 0 /\ upstream = 0 /\ stored = 0 /\ ledger = 0 /\ syncJob = 0 /\ revJob = 0
                    /\ proposed = 0 /\ approved = 0 /\ firstClose = 0 /\ benchBudget = 0
  /\ x # "facts" => /\ factNow = 0 /\ factConfig = 0 /\ pending = 0 /\ latest = 0 /\ daily = 0 /\ reports = 0
  /\ x # "native" => /\ nativeNow = 0 /\ nativeConfig = 0 /\ nativePending = 0 /\ interval = 0 /\ rows = 0
                     /\ natives = 0
  /\ x # "records" => /\ bound = 0 /\ formerSources = 0 /\ flow = 0 /\ executions = 0 /\ flowReports = 0
  /\ x # "sources" => /\ evFeed = 0 /\ evNow = 0 /\ published = 0 /\ syncing = 0 /\ registered = 0 /\ retired = 0
                      /\ publications = 0
  /\ x # "ledger" => /\ m0Now = 0 /\ envelopes = 0 /\ m0Current = 0 /\ m0Archive = 0 /\ m0Syncs = 0 /\ m0Acked = 0
                     /\ m0Count = 0
  /\ x # "daily" => /\ dayNow = 0 /\ dayConfig = 0 /\ dayRecords = 0 /\ daySyncs = 0 /\ dayWrites = 0
  /\ x # "recovery" => /\ rcNow = 0 /\ rcAccount = 0 /\ rcStore = 0 /\ rcMaterial = 0 /\ rcSending = 0 /\ rcAnswers = 0
                       /\ rcSeen = 0 /\ rcAsked = 0 /\ rcSteps = 0
  /\ x # "directory" => /\ clock = 0 /\ store = 0 /\ mirror = 0 /\ saved = 0 /\ running = 0 /\ written = 0
                        /\ registeredKeys = 0 /\ listed = 0 /\ scanLate = 0 /\ lateKeys = 0
Init ==
  \/ part = "cycle" /\ CycleInit /\ Rest("cycle")
  \/ part = "bench" /\ BenchInit /\ Rest("bench")
  \/ part = "facts" /\ FactsInit /\ Rest("facts")
  \/ part = "native" /\ NativeInit /\ Rest("native")
  \/ part = "records" /\ RecordsInit /\ Rest("records")
  \/ part = "sources" /\ EvInit /\ Rest("sources")
  \/ part = "ledger" /\ M0Init /\ Rest("ledger")
  \/ part = "daily" /\ DailyInit /\ Rest("daily")
  \/ part = "recovery" /\ RecoveryInit /\ Rest("recovery")
  \/ part = "directory" /\ DirectoryInit /\ store = StartKeys /\ Rest("directory")
Next ==
  /\ UNCHANGED part
  /\ \/ part = "cycle" /\ CycleNext /\ UNCHANGED <<benchVars, factVars, nativeVars, recordVars, evVars, m0Vars, dailyVars, recoveryVars, directoryVars>>
     \/ part = "bench" /\ BenchNext /\ UNCHANGED <<cycleVars, factVars, nativeVars, recordVars, evVars, m0Vars, dailyVars, recoveryVars, directoryVars>>
     \/ part = "facts" /\ FactsNext /\ UNCHANGED <<cycleVars, benchVars, nativeVars, recordVars, evVars, m0Vars, dailyVars, recoveryVars, directoryVars>>
     \/ part = "native" /\ NativeNext /\ UNCHANGED <<cycleVars, benchVars, factVars, recordVars, evVars, m0Vars, dailyVars, recoveryVars, directoryVars>>
     \/ part = "records" /\ RecordsNext /\ UNCHANGED <<cycleVars, benchVars, factVars, nativeVars, evVars, m0Vars, dailyVars, recoveryVars, directoryVars>>
     \/ part = "sources" /\ EvNext /\ UNCHANGED <<cycleVars, benchVars, factVars, nativeVars, recordVars, m0Vars, dailyVars, recoveryVars, directoryVars>>
     \/ part = "ledger" /\ M0Next /\ UNCHANGED <<cycleVars, benchVars, factVars, nativeVars, recordVars, evVars, dailyVars, recoveryVars, directoryVars>>
     \/ part = "daily" /\ DailyNext /\ UNCHANGED <<cycleVars, benchVars, factVars, nativeVars, recordVars, evVars, m0Vars, recoveryVars, directoryVars>>
     \/ part = "recovery" /\ RecoveryNext /\ UNCHANGED <<cycleVars, benchVars, factVars, nativeVars, recordVars, evVars, m0Vars, dailyVars, directoryVars>>
     \/ part = "directory" /\ DirectoryNext /\ UNCHANGED <<cycleVars, benchVars, factVars, nativeVars, recordVars, evVars, m0Vars, dailyVars, recoveryVars>>
vars == <<part, cycleVars, benchVars, factVars, nativeVars, recordVars, evVars, m0Vars, dailyVars, recoveryVars, directoryVars>>
Spec == Init /\ [][Next]_vars
BenchOnly == part = "bench" /\ Spec
DirectoryOnly == part = "directory" /\ Spec

\* What the stores of measured facts promise, each in its part.
FactsAreTrue ==
  /\ part = "cycle" => SummaryIsHistory /\ CompleteIsCovered /\ WalkIsASnapshot
  /\ part = "bench" => EveryCloseIsTraced
  /\ part = "facts" => LatestDayIsKept /\ TotalCountsOnce /\ OneOwnerPerSource
  /\ part = "native" => ReadersAgree
  /\ part = "records" => RecordsAreOne
\* No step of a store of facts takes back what was reported.
NothingGoesBack ==
  [][/\ part = "bench" => GrowsStep
     /\ part = "facts" => ForwardStep
     /\ part = "native" => IntervalStep
     /\ part = "records" => StaysStep]_vars
\* What is published is shown as it is: each of the parts keeps its promise.
PublishedIsTrue ==
  /\ part = "sources" => SourcesAreTrue
  /\ part = "ledger" => LedgerIsSound
  /\ part = "daily" => DailyIsTrue
  /\ part = "recovery" => GivenIsCurrent
\* What was published, read or answered is not taken back by a later step.
PublishedGoesForward ==
  [][/\ part = "ledger" => ForwardLedger
     /\ part = "daily" => DayStep
     /\ part = "recovery" => RecoveryStep]_vars
\* What the discovery directory of KV promises.
DirectoryHolds ==
  part = "directory" => PublishedIsListed /\ CompleteCovers /\ ListsWithinBudget /\ DebtIsMarked
\* A complete directory goes on serving its list while a new scan pages.
DirectoryServes == [][part = "directory" => ServesStep]_directoryVars
\* An approved revision never replaces another close than the one it names.
RevisedAsApproved == part = "bench" => AppliedAsApproved
\* A failed mirror write leaves a marker, for every key of the manifest.
MirrorDebtIsMarked == part = "directory" => EveryDebtIsMarked
=============================================================================
