---------------------------- MODULE RuntimeDaily ----------------------------
(* The daily runs of the strategies: the platforms' projectors post one record *)
(* per target and business day; the worker stores it under the binding of the  *)
(* account it was read for and the console tells from it how the day went.     *)
(* A publisher holds the token of its targets.                                 *)
EXTENDS Integers, FiniteSets, SequencesExt

CONSTANTS DailyReports,      \* [source, target, day]: what the publishers may post
          DailyConfigs,      \* [registry, facts, plain]: what the operators may configure
          DailyAccounts,
          IbkrAccounts,      \* an account is named with its platform: those of ibkr
          StrictTargets,     \* the targets of the built-in strict projector
          DailyLength, DailyGrace, DailyStale, DailySkew, MaxDailyTime, MaxDailyWrites
\* A reading has a time; the bindings of account facts name each account once.
ASSUME DailyAssumption ==
  /\ \A r \in DailyReports : r.day.observed \in Int
  /\ \A c \in DailyConfigs : \A p, q \in c.facts : p.account = q.account => p = q
VARIABLES dayNow, dayConfig,
          dayRecords,        \* [target, date, bound, day]; account, source: history, whose they were
          daySyncs,          \* admitted requests that have read the store: [record, seen]
          dayWrites
dailyVars == <<dayNow, dayConfig, dayRecords, daySyncs, dayWrites>>
-------------------------------------------------------------------------------
\* Whose target it is
DateAt(t) == t \div DailyLength
\* Two registrations that share anything contradict each other.
Collides(config, e) ==
  \E o \in config.registry \ {e} : \/ o.account = e.account \/ o.target = e.target
                                   \/ o.id = e.id \/ o.source = e.source
FactsFor(config, e) ==
  {b \in config.facts : b.id = e.id /\ b.source = e.source /\ b.account = e.account /\ b.matched}
\* Another registered account that is the same account at the broker, which only
\* ibkr's registrations are asked for.
SharesPhysical(config, e) ==
  /\ e.account \in IbkrAccounts
  /\ \E b \in FactsFor(config, e), o \in config.registry, p \in config.facts :
       o.account \in IbkrAccounts \ {e.account} /\ p.account = o.account /\ p.selector = b.selector
BoundEntries(config) ==
  {e \in config.registry : ~Collides(config, e) /\ FactsFor(config, e) # {} /\ ~SharesPhysical(config, e)}
\* The strict target is bound by the one account-facts binding of its service, the
\* built-in one of longbridge by the one account option of its service and scope.
StrictBindings(config) ==
  {b \in config.facts : b.target \in StrictTargets /\ b.matched /\ {p \in config.facts : p.target = b.target} = {b}}
PlainBindings(config) == {p \in config.plain : {q \in config.plain : q.target = p.target} = {p}}
\* Bindings, with what their fingerprint is taken of: nothing, for the plain target.
NoPrint == <<{}, {}>>
RegisteredBindings(config) ==
  {[target |-> e.target, account |-> e.account, source |-> e.source, print |-> <<{e}, FactsFor(config, e)>>] :
     e \in BoundEntries(config)}
BuiltInBindings(config) ==
  {[target |-> b.target, account |-> b.account, source |-> b.source, print |-> <<{}, {b}>>] : b \in StrictBindings(config)}
  \cup {[target |-> p.target, account |-> p.account, source |-> "any", print |-> NoPrint] : p \in PlainBindings(config)}
BindingsOf(config, t) == {b \in RegisteredBindings(config) \cup BuiltInBindings(config) : b.target = t}
-------------------------------------------------------------------------------
\* What a record may say
Quiet == {"no_submission", "no_signal", "no_rebalance"}
ScheduleOnly == {"not_due", "market_closed", "outside_window", "within_grace"}
Completed == Quiet \cup {"filled"}
RunIssue(run, strict) ==
  IF run.errors \/ run.activity \in {"failed", "blocked"} THEN "failure"
  ELSE IF \/ strict /\ run.receipt \in {"missing", "invalid"}
          \/ run.activity \notin Completed \/ run.pending
  THEN "unconfirmed" ELSE "none"
ValidRun(run, day, strict) ==
  /\ run.from <= run.to /\ run.to <= day.observed + DailySkew
  /\ strict =>
     /\ run.to <= day.observed
     /\ run.lane # "paper"
     /\ run.activity \in Completed =>
        run.receipt = run.activity /\ run.lane = "live" /\ RunIssue(run, TRUE) = "none"
ValidSchedule(day) ==
  CASE day.state = "due" -> day.due > 0 /\ day.due + DailyGrace <= day.observed
    [] day.state = "within_grace" -> day.due > 0 /\ day.due <= day.observed /\ day.due + DailyGrace > day.observed
    [] day.state = "market_closed" -> day.due > 0 /\ day.due <= day.observed
    [] day.state \in {"not_due", "unevaluable"} -> day.due = 0
    [] OTHER -> TRUE
\* The runs that prove the due cycle: begun when it was due, ended before the reading.
Covering(day) ==
  {r \in day.runs : day.due > 0 /\ r.from >= day.due /\ r.to <= day.observed /\ DateAt(r.from) = day.date}
\* Two readings of one run that differ are a conflict the record must name.
Contradicted(day) == {r.id : r \in {x \in day.runs : \E y \in day.runs : y.id = x.id /\ y # x}}
ValidSummary(day) ==
  /\ Contradicted(day) \subseteq day.conflicts
  /\ day.complete => /\ day.clean /\ day.conflicts = {} /\ day.state # "unevaluable"
                     /\ \A r \in day.runs : r.receipt \notin {"missing", "invalid"}
  /\ day.status \in Completed \cup ScheduleOnly => day.complete
  /\ day.status \in Completed =>
     /\ day.kind = "run" /\ Covering(day) # {} /\ \A r \in Covering(day) : r.lane = "live"
     /\ day.status \in Quiet => /\ day.state \in {"due", "within_grace"}
                                /\ \A r \in Covering(day) : r.activity = day.status
     /\ day.status = "filled" => \E r \in Covering(day) : r.activity = "filled"
  /\ day.status \in ScheduleOnly =>
     day.kind = "schedule" /\ day.state = day.status /\ Covering(day) = {}
AcceptedDay(day, t) ==
  /\ day.observed <= dayNow + DailySkew /\ day.date <= DateAt(dayNow) /\ day.due <= day.observed + DailySkew
  /\ \A r \in day.runs : ValidRun(r, day, t \in StrictTargets)
  /\ day.status \in Completed \cup ScheduleOnly =>
     day.conflicts = {} /\ \A r \in day.runs : RunIssue(r, t \in StrictTargets) = "none"
  /\ t \in StrictTargets => day.date <= DateAt(day.observed) /\ ValidSchedule(day) /\ ValidSummary(day)
-------------------------------------------------------------------------------
\* The store
StoredFor(t, date) == {r \in dayRecords : r.target = t /\ r.date = date}
\* A record is readable under the fingerprint it was written with; one without a
\* fingerprint under whatever binds its target by then.
ReadableUnder(r, bindings) == \E b \in bindings : r.bound = b.print
\* What the operators may configure, and what the publishers may post.
Configurable == DailyConfigs
Postable == DailyReports
DailyInit == /\ dayNow = 1 /\ dayConfig \in Configurable /\ dayRecords = {} /\ daySyncs = {} /\ dayWrites = 0
\* Only a later reading of the same account replaces a record.
Supersedes(seen, day) == \A r \in seen : day.observed > r.day.observed
BeginDailySync(r) ==
  /\ dayWrites < MaxDailyWrites /\ dayWrites' = dayWrites + 1
  /\ AcceptedDay(r.day, r.target)
  /\ \E b \in BindingsOf(dayConfig, r.target) :
     LET seen == StoredFor(r.target, r.day.date) IN
     /\ b.print # NoPrint => r.source = b.source
     /\ \A s \in seen : ReadableUnder(s, {b})
     /\ Supersedes(seen, r.day)
     /\ daySyncs' = daySyncs \cup {[seen |-> seen, record |->
          [target |-> r.target, date |-> r.day.date, bound |-> b.print, day |-> r.day,
           account |-> b.account, source |-> r.source]]}
  /\ UNCHANGED <<dayNow, dayConfig, dayRecords>>
FinishDailySync(s) ==
  /\ daySyncs' = daySyncs \ {s}
  /\ dayRecords' = (dayRecords \ StoredFor(s.record.target, s.record.date)) \cup {s.record}
  /\ UNCHANGED <<dayNow, dayConfig, dayWrites>>
LoseDailySync(s) == daySyncs' = daySyncs \ {s} /\ UNCHANGED <<dayNow, dayConfig, dayRecords, dayWrites>>
ConfigureDaily(config) == /\ config # dayConfig /\ dayConfig' = config
                          /\ UNCHANGED <<dayNow, dayRecords, daySyncs, dayWrites>>
DailyTick == /\ dayNow < MaxDailyTime /\ dayNow' = dayNow + 1
             /\ UNCHANGED <<dayConfig, dayRecords, daySyncs, dayWrites>>
DailyNext == \/ \E r \in Postable : BeginDailySync(r)
             \/ \E s \in daySyncs : FinishDailySync(s) \/ LoseDailySync(s)
             \/ \E c \in Configurable : ConfigureDaily(c)
             \/ DailyTick
DailySpec == DailyInit /\ [][DailyNext]_dailyVars
-------------------------------------------------------------------------------
\* What the console tells of an account's day
AllBindings(a) == {b \in RegisteredBindings(dayConfig) \cup BuiltInBindings(dayConfig) : b.account = a}
BoundTwice(a) == \E b, c \in AllBindings(a) : b # c
\* The reader of a registered account looks at registrations only.
Registered(a) == \E e \in dayConfig.registry : e.account = a
ReadBindings(a) == IF Registered(a) THEN AllBindings(a) \ BuiltInBindings(dayConfig) ELSE AllBindings(a)
\* The record the reader gets; a record written under another binding is an error.
OfAccount(a, date) == {r \in dayRecords : r.date = date /\ \E b \in ReadBindings(a) : b.target = r.target}
Shown(a, date) ==
  {r \in OfAccount(a, date) : AcceptedDay(r.day, r.target)
                              /\ ReadableUnder(r, {b \in ReadBindings(a) : b.target = r.target})}
Unreadable(a, date) == OfAccount(a, date) \ Shown(a, date)
DataStatus(r) == IF r.date # DateAt(dayNow) THEN "historical"
                 ELSE IF r.day.observed <= dayNow + DailySkew /\ dayNow - r.day.observed <= DailyStale
                 THEN "fresh" ELSE "stale"
Whole(day) == day.complete /\ day.clean /\ ~day.unmatched /\ day.conflicts = {}
\* The run a reader sees: the strict projector's issue is carried along, another
\* run's is told from its activity and its errors alone.
PublicIssue(run, strict) ==
  IF strict THEN RunIssue(run, TRUE) ELSE RunIssue([run EXCEPT !.pending = FALSE], FALSE)
PublicRuns(r) ==
  {[activity |-> x.activity, issue |-> PublicIssue(x, r.target \in StrictTargets)] : x \in r.day.runs}
NoRow(status) == [status |-> status, activity |-> "none", complete |-> FALSE, failing |-> FALSE, runs |-> {}]
Conflicting(a) == \E e \in dayConfig.registry \ BoundEntries(dayConfig) : e.account = a
\* todaySummary: the row of one account
Row(a) ==
  LET date == DateAt(dayNow)
      found == Shown(a, date)
  IN  IF Conflicting(a) \/ BoundTwice(a) THEN NoRow("partial")
      ELSE IF AllBindings(a) = {} THEN NoRow("not_connected")
      ELSE IF Unreadable(a, date) # {} THEN NoRow("read_failed")
      ELSE IF found = {} THEN NoRow("no_data")
      ELSE LET r == CHOOSE x \in found : TRUE
           IN  [status |-> IF DataStatus(r) # "fresh" THEN "stale" ELSE IF Whole(r.day) THEN "ok" ELSE "partial",
                activity |-> r.day.status, complete |-> Whole(r.day),
                failing |-> ~r.day.clean, runs |-> PublicRuns(r)]
RunStatus(row) ==
  IF row.status \in {"not_connected", "no_data", "read_failed"} THEN row.status
  ELSE IF row.activity = "blocked" THEN "blocked"
  ELSE IF \/ row.activity = "failed"
          \/ \E x \in row.runs : x.activity # "blocked" /\ x.issue = "failure" THEN "failed"
  ELSE IF \E x \in row.runs : x.activity = "blocked" THEN "blocked"
  ELSE IF row.activity = "read_incomplete" THEN IF row.failing THEN "incomplete" ELSE "unknown"
  ELSE IF row.activity \in ScheduleOnly /\ row.runs = {} THEN "not_run"
  ELSE IF row.complete /\ row.activity \in Completed /\ row.runs # {} /\ \A x \in row.runs : x.issue = "none"
  THEN "succeeded" ELSE "unknown"
FailureEvidence(row) ==
  \/ row.status \in {"read_failed", "not_connected"}
  \/ row.activity \in {"failed", "blocked", "read_incomplete"} \/ row.failing
  \/ \E x \in row.runs : x.activity = "blocked" \/ x.issue = "failure"
\* The page takes the server's word, except where the row it came with denies it.
PanelState(row) ==
  LET said == RunStatus(row)
      careful == IF said = "succeeded" THEN "unknown" ELSE said
  IN  IF said = "succeeded" THEN IF row.complete /\ ~FailureEvidence(row) THEN said ELSE careful
      ELSE IF said \in {"no_data", "not_run"} /\ FailureEvidence(row) THEN careful
      ELSE IF said = "not_run" /\ row.activity \in ScheduleOnly THEN row.activity ELSE said
\* The grid of days
CellKind(r) ==
  LET runs == PublicRuns(r)
      day == r.day
  IN  IF day.status = "blocked" THEN "blocked"
      ELSE IF day.status = "failed" \/ \E x \in runs : x.activity # "blocked" /\ x.issue = "failure" THEN "failed"
      ELSE IF \E x \in runs : x.activity = "blocked" THEN "blocked"
      ELSE IF day.status = "read_incomplete" THEN "incomplete"
      ELSE IF DataStatus(r) = "stale" THEN "stale"
      ELSE IF ~day.complete \/ day.kind = "incomplete" THEN "incomplete"
      ELSE IF day.kind = "schedule" /\ runs = {} /\ day.status \in ScheduleOnly THEN "not-run"
      ELSE IF day.kind = "run" /\ day.status \in Completed /\ runs # {} /\ \A x \in runs : x.issue = "none"
      THEN "ok" ELSE "unknown"
-------------------------------------------------------------------------------
SelectorsOf(a) == {b.selector : b \in {x \in dayConfig.facts : x.account = a}}
\* However accounts are bound anew while requests are under way, a day with a
\* fingerprint is shown for the account it was written for, and was posted by the source
\* this account has.  Of ibkr, no two registered accounts are one account at the broker.
DayIsOwn ==
  /\ \A a \in DailyAccounts : \A r \in dayRecords :
       r.bound # NoPrint /\ r \in Shown(a, r.date) =>
         r.account = a /\ \E b \in ReadBindings(a) : b.target = r.target /\ b.source = r.source
  /\ \A e, f \in BoundEntries(dayConfig) :
       e.account # f.account /\ {e.account, f.account} \subseteq IbkrAccounts =>
         SelectorsOf(e.account) \cap SelectorsOf(f.account) = {}
\* A day that counts as a success has no failed, open or unproved run, and with
\* the strict projector one that began when the cycle was due.  The summary and the
\* grid agree on failures, unless the account is bound twice.
Proved(r) ==
  /\ \A x \in r.day.runs : ~x.errors /\ ~x.pending /\ x.activity \in Completed
  /\ r.target \in StrictTargets =>
     /\ \E x \in r.day.runs : x.from >= r.day.due /\ x.lane = "live"
     /\ \A x \in r.day.runs : x.receipt = x.activity
SuccessIsProved ==
  /\ \A a \in DailyAccounts : \A r \in Shown(a, DateAt(dayNow)) :
       /\ PanelState(Row(a)) = "succeeded" => Proved(r)
       /\ CellKind(r) = "failed" /\ ~BoundTwice(a) => RunStatus(Row(a)) = "failed"
  /\ \A r \in dayRecords : AcceptedDay(r.day, r.target) /\ CellKind(r) = "ok" => Proved(r)
\* A quiet day never hides a run that traded after the cycle was due.
QuietIsQuiet ==
  \A r \in dayRecords : r.target \in StrictTargets /\ r.day.status \in Quiet =>
    \A x \in r.day.runs : x.from >= r.day.due /\ DateAt(x.from) = r.day.date => x.activity \in Quiet
DailyIsTrue == DayIsOwn /\ SuccessIsProved /\ QuietIsQuiet
\* A day's record gives way to an older reading only where the two requests overlapped.
DayStep ==
  \A old \in dayRecords : \A new \in dayRecords' :
    old # new /\ old.target = new.target /\ old.date = new.date /\ new.day.observed <= old.day.observed =>
      \E s \in daySyncs : s.record = new /\ old \notin s.seen
DaysGoForward == [][DayStep]_dailyVars
=============================================================================
