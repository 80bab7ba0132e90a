----------------------------- MODULE AccountFacts -----------------------------
(* The account snapshots the brokers' programs report: the latest one and one *)
(* per day of each account, kept by the runtime object, shown only under the  *)
(* bindings the owner keeps in KV, and added up into one total.               *)
(* A report is attributed with the bindings read when it arrives and stored   *)
(* later with what was read then.  Times are instants, DayLength to a day.    *)
EXTENDS Integers, FiniteSets, FiniteSetsExt

CONSTANTS FactAccounts, PaperAccounts, NoPhysical,
          FactConfigs,     \* what the owner may write as bindings: [account -> binding]
          FactSnapshots,   \* what the brokers' programs may report
          DayLength, FactWindow, KeptDays, \* the instants of a day, of freshness, the days kept
          FactSkew,                        \* how far a reporter's clock may be ahead
          MaxFactTime, MaxReports          \* bounds of a run
ASSUME FactsAssumption == /\ PaperAccounts \subseteq FactAccounts /\ IsFiniteSet(FactAccounts)
                          /\ {DayLength, KeptDays} \subseteq Nat \ {0} /\ {FactWindow, FactSkew} \subseteq Int
                          /\ \A s \in FactSnapshots : /\ s.started \in Int /\ s.finished \in Int /\ s.net \in Int
                                                      /\ s.started <= s.finished

VARIABLES factNow, factConfig, \* the clock and the bindings in KV
          pending,             \* reports attributed and not yet stored
          latest, daily,       \* of each account: a set of at most one snapshot, and one per day
          reports              \* counts the reports of a run
factVars == <<factNow, factConfig, pending, latest, daily, reports>>

DayOf(t) == t \div DayLength
DateOf(s) == DayOf(s.started)
Retained(date, today) == date + KeptDays > today
Sources(b) == {b.source} \cup b.history

\* One source belongs to one account, as its current or as a former source.
Attributable(c) ==
  /\ \A a \in DOMAIN c : c[a].source \notin c[a].history
  /\ \A a, b \in DOMAIN c : a # b => Sources(c[a]) \cap Sources(c[b]) = {}
Bindings == IF Attributable(factConfig) THEN factConfig ELSE [a \in {} |-> 0]
MatchedAccounts == {a \in DOMAIN Bindings : Bindings[a].matched}
-------------------------------------------------------------------------------
\* What the console shows: a snapshot of an account's current source, and the
\* days of its current and former ones.
ReadableFacts(a) == IF a \in MatchedAccounts THEN {s \in latest[a] : s.source = Bindings[a].source} ELSE {}
ShownDays(a) == IF a \in MatchedAccounts THEN {s \in daily[a] : s.source \in Sources(Bindings[a])} ELSE {}
IsFresh(s) == s.finished <= factNow + FactSkew /\ factNow - s.finished <= FactWindow

Snapshot(a) == CHOOSE s \in ReadableFacts(a) : TRUE
Verified == {a \in FactAccounts : ReadableFacts(a) # {} /\ Bindings[a].physical # NoPhysical}
Group(a) == {b \in Verified : Bindings[b].physical = Bindings[a].physical}
Newest(g) == CHOOSE a \in g : \A b \in g : Snapshot(b).finished <= Snapshot(a).finished
Conflicted(g) ==
  \/ \E a, b \in g : a \in PaperAccounts /\ b \notin PaperAccounts
  \/ \E a \in g : /\ Snapshot(a).finished = Snapshot(Newest(g)).finished
                  /\ Snapshot(a).net # Snapshot(Newest(g)).net
\* The change that would count two accounts with equally new snapshots.
StrictDuplicates == {a \in Verified : /\ ~Conflicted(Group(a))
                                      /\ \E b \in Group(a) : Snapshot(b).finished > Snapshot(a).finished}
Duplicates == {a \in Verified : ~Conflicted(Group(a)) /\ a # Newest(Group(a))}
Included == FactAccounts \ (PaperAccounts \cup Duplicates)
TotalAvailable ==
  /\ Included # {}
  /\ \A a \in Included : /\ a \in Verified /\ ~Conflicted(Group(a))
                         /\ IsFresh(Snapshot(a)) /\ Snapshot(a).net >= 0
Total == MapThenSumSet(LAMBDA a : Snapshot(a).net, Included)
-------------------------------------------------------------------------------
FactsInit ==
  /\ factNow = 0 /\ factConfig \in FactConfigs /\ pending = {} /\ reports = 0
  /\ latest = [a \in FactAccounts |-> {}] /\ daily = [a \in FactAccounts |-> {}]

FactTick == /\ factNow < MaxFactTime /\ factNow' = factNow + 1
            /\ UNCHANGED <<factConfig, pending, latest, daily, reports>>

\* The owner writes other bindings: a source is rotated or moved.
Rebind == /\ factConfig' \in FactConfigs \ {factConfig}
          /\ UNCHANGED <<factNow, pending, latest, daily, reports>>

InRange(s, historical) ==
  /\ s.finished <= factNow + FactSkew
  /\ IF historical THEN DateOf(s) < DayOf(factNow) /\ Retained(DateOf(s), DayOf(factNow))
     ELSE s.started >= factNow - FactWindow
Matches(s, historical) ==
  {a \in DOMAIN Bindings : s.source \in {Bindings[a].source} \cup (IF historical THEN Bindings[a].history ELSE {})}

\* A report is attributed to the one account whose binding names its source.
Report(s, historical) ==
  /\ reports < MaxReports /\ reports' = reports + 1
  /\ InRange(s, historical)
  /\ \E a \in MatchedAccounts : /\ Matches(s, historical) = {a}
                      /\ pending' = pending \cup {[account |-> a, snapshot |-> s, historical |-> historical]}
  /\ UNCHANGED <<factNow, factConfig, latest, daily>>

\* The change that would only look at the day.
AcceptedByDay(a, s) == \A d \in daily[a] : DateOf(d) = DateOf(s) => d.finished # s.finished \/ d = s
\* A newer latest snapshot replaces an older one; a day keeps its newest.
Accepted(a, s) ==
  /\ \A e \in latest[a] : e.finished < s.finished \/ e = s
  /\ \A d \in daily[a] : DateOf(d) = DateOf(s) => d.finished # s.finished \/ d = s
Superseded(d, s) == DateOf(d) = DateOf(s) /\ d.finished < s.finished
Archived(days, s) ==
  LET merged == {d \in days : ~Superseded(d, s)}
                  \cup (IF \E d \in days : DateOf(d) = DateOf(s) /\ ~Superseded(d, s) THEN {} ELSE {s})
  IN  {d \in merged : Retained(DateOf(d), DateOf(s))}
StoreLatest(r) ==
  /\ ~r.historical /\ r \in pending /\ pending' = pending \ {r}
  /\ IF Accepted(r.account, r.snapshot)
     THEN /\ latest' = [latest EXCEPT ![r.account] = {r.snapshot}]
          /\ daily' = [daily EXCEPT ![r.account] = Archived(@, r.snapshot)]
     ELSE UNCHANGED <<latest, daily>>
  /\ UNCHANGED <<factNow, factConfig, reports>>

\* An archive report fills a past day and replaces nothing.
Fillable(a, s) == InRange(s, TRUE) /\ \A d \in daily[a] : DateOf(d) # DateOf(s)
StoreHistorical(r) ==
  /\ r.historical /\ r \in pending /\ pending' = pending \ {r}
  /\ daily' = IF Fillable(r.account, r.snapshot)
              THEN [daily EXCEPT ![r.account] = @ \cup {r.snapshot}] ELSE daily
  /\ UNCHANGED <<factNow, factConfig, latest, reports>>

FactsNext ==
  \/ FactTick \/ Rebind
  \/ \E s \in FactSnapshots, h \in BOOLEAN : Report(s, h)
  \/ \E r \in pending : StoreLatest(r) \/ StoreHistorical(r)
FactsSpec == FactsInit /\ [][FactsNext]_factVars
-------------------------------------------------------------------------------
\* The day of the latest snapshot is in the archive, and no older than it:
\* no order of current, archive and delayed reports loses an accepted day.
LatestDayIsKept ==
  \A a \in FactAccounts : \A s \in latest[a] :
    \E d \in daily[a] : DateOf(d) = DateOf(s) /\ d.finished >= s.finished

\* The physical accounts behind the accounts that are not paper, and what is shown of them.
RealAccounts == FactAccounts \ PaperAccounts
Identities == {Bindings[a].physical : a \in RealAccounts}
SnapshotsOf(p) == {Snapshot(a) : a \in {b \in RealAccounts : Bindings[b].physical = p}}
NewestOf(p) == Max({s.finished : s \in SnapshotsOf(p)})
NetsOf(p) == {s.net : s \in {t \in SnapshotsOf(p) : t.finished = NewestOf(p)}}
\* A total counts each physical account behind the accounts that are not paper
\* exactly once, with the newest value any of them shows, and none is left out.
TotalCountsOnce ==
  TotalAvailable =>
    /\ RealAccounts \subseteq MatchedAccounts /\ NoPhysical \notin Identities
    /\ \A p \in Identities : NewestOf(p) + FactWindow >= factNow /\ Cardinality(NetsOf(p)) = 1
    /\ Total = MapThenSumSet(LAMBDA p : Max(NetsOf(p)), Identities)

\* What one source reported is never shown for two accounts, whichever way the
\* owner moved the source, and also when its reports were stored for both.
OneOwnerPerSource ==
  \A a, b \in FactAccounts : a # b =>
    {s.source : s \in ReadableFacts(a) \cup ShownDays(a)} \cap {s.source : s \in ReadableFacts(b) \cup ShownDays(b)} = {}

\* Reports in any order never make the latest snapshot of an account older.
ForwardStep ==
  \A a \in FactAccounts : \A s \in latest[a] : \E t \in latest'[a] : t = s \/ t.finished > s.finished
LatestMovesForward == [][ForwardStep]_factVars
===============================================================================
