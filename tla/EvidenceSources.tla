-------------------------- MODULE EvidenceSources --------------------------
(* Publishers send snapshots of what they know (research candidates, research *)
(* tasks, execution evidence, runtime targets, shadow selections); each source *)
(* keeps its last snapshot and the console shows the sources as one list.      *)
EXTENDS Integers, FiniteSets, FiniteSetsExt

CONSTANTS EvFeeds,          \* the kinds of snapshots, a run follows one of them
          EvSources, EvSnapshots(_), \* [status, generated, computed, items]; a time 0 is not stated
          ValidationSource, \* the only source the validation publisher may write
          EvReports,        \* reports of runtimes: [id, at, lane, attested, receipt]
          EvReportAge, EvReceiptWindow, \* how old a report, or before its report a receipt, may be
          EvTtl, EvSkew,    \* how old, and how far ahead, a snapshot may be
          EvRuns, EvGrace,  \* when research is scheduled, and how late it may arrive
          MaxEvTime, MaxPublications
\* Times are numbers and 0 is none; research is scheduled again after every snapshot
\* of it; what was not collected from reports observes nothing; a report has at most
\* one receipt.
ASSUME EvAssumption ==
  /\ EvFeeds \subseteq {"candidates", "tasks", "deployments", "targets", "selections"}
  /\ EvTtl \in Nat /\ EvSkew \in Nat /\ EvGrace \in Nat /\ IsFiniteSet(EvRuns) /\ EvRuns \subseteq Nat
  /\ \A feed \in EvFeeds : \A s \in EvSnapshots(feed) :
       /\ s.status \in {"ready", "stale", "unavailable"} /\ s.generated \in Nat /\ s.computed \in Nat
       /\ feed = "candidates" => \E r \in EvRuns : r > s.generated /\ r > s.computed
       /\ feed = "deployments" => \A d \in s.items : d.observed = 0
       /\ feed = "targets" => \A t \in s.items : /\ t.configured \in {"enabled", "disabled"}
                                                 /\ \A d \in t.deployment : d.enabled \in BOOLEAN
  /\ IsFiniteSet(EvReports) /\ \A r \in EvReports : r.at \in Nat \ {0} /\ \A x, y \in r.receipt : x = y
VARIABLES evFeed, evNow,
          published,        \* per source: a set of at most one snapshot
          syncing,          \* control plane requests that wrote to the ledger only
          registered,       \* the candidates a ledger has been told of, per source
          retired,          \* the sources the owner retired, or "invalid"
          publications
evVars == <<evFeed, evNow, published, syncing, registered, retired, publications>>
-------------------------------------------------------------------------------
\* What the collectors of the platforms send
ExpectedExecution(outcome) ==
  CASE outcome \in {"failed", "reconciliation_required"} -> "unavailable"
    [] outcome \in {"no_signal", "no_rebalance"} -> "not_applicable"
    [] OTHER -> "verified"
ReceiptProjects(r) == \A x \in r.receipt : /\ x.own /\ x.at <= r.at + EvSkew
                                            /\ x.at >= r.at - EvReceiptWindow
ReportProjects(r) == r.lane /\ r.attested /\ ReceiptProjects(r)
ReceiptEvidence(r) == IF r.receipt = {} THEN "pending"
                      ELSE CHOOSE e \in {ExpectedExecution(x.outcome) : x \in r.receipt} : TRUE
Deployment(r) == [id |-> r.id, recommended |-> "parked", strategy |-> "verified", execution |-> ReceiptEvidence(r),
                  receipt |-> {x.outcome : x \in r.receipt}, observed |-> r.at]
\* One report of a runtime counts, the latest.
Countable(rs, t) ==
  LET eligible == {r \in rs : ReportProjects(r) /\ r.at <= t + EvSkew /\ r.at >= t - EvReportAge}
      latest(i) == {r \in eligible : r.id = i /\ \A q \in eligible : q.id = i => q.at <= r.at}
  IN  {CHOOSE r \in latest(i) : TRUE : i \in {r.id : r \in eligible}}
\* A collection is as old as the oldest report it includes.
DatedByOldest(rs) == Min({r.at : r \in rs})
Collected(rs, t) ==
  LET included == Countable(rs, t)
  IN  [status |-> IF included = {} THEN "unavailable" ELSE "ready", computed |-> t,
       generated |-> IF included = {} THEN 0 ELSE DatedByOldest(included),
       items |-> {Deployment(r) : r \in included}]
\* A runtime target is parked when a check fails or cannot be read.
Disposition(configured, guard, heartbeat) ==
  IF {guard, heartbeat} \cap {"attention", "unavailable"} # {} THEN "parked" ELSE configured
Describable(configured, guard, heartbeat) ==
  Disposition(configured, guard, heartbeat) # "parked" =>
    IF configured = "disabled" THEN heartbeat = "not_applicable"
    ELSE {guard, heartbeat} \subseteq {"pass", "not_due"}
-------------------------------------------------------------------------------
\* What each feed accepts
OwnerCandidates(items) == {c \in items : c.stage = "P6"}
AcceptedCandidates(items) ==
  \A c \in items : c.stage = "P6" <=> c.recommended = "owner_live_decision"
AcceptedTasks(items) == \A t \in items : t.researchOnly
\* The change that would not hold the claim against the receipt it comes with.
AcceptedWithoutReceipt(items) ==
  \A d \in items : d.recommended = "canary" => d.strategy = "verified" /\ d.execution = "verified"
AcceptedDeployments(items) ==
  \A d \in items :
    /\ d.recommended = "canary" => d.strategy = "verified" /\ d.execution = "verified"
    /\ \A outcome \in d.receipt : d.execution = ExpectedExecution(outcome)
AcceptedTargets(items) ==
  \A t \in items :
    LET attention == "attention" \in {t.guard, t.heartbeat}
        unknown == t.guard = "unavailable" \/ (t.configured = "enabled" /\ t.heartbeat = "unavailable")
    IN  /\ t.configured = "disabled" => t.heartbeat = "not_applicable"
        /\ t.disposition = (IF attention \/ unknown THEN "parked" ELSE t.configured)
AcceptedSelections(items) ==
  \A d \in items : d.recommended # {} => d.recommended \in {{c.pair} : c \in {x \in d.candidates : x.accepted}}
Acceptable(s) ==
  /\ \A i, j \in s.items : i.id = j.id => i = j
  /\ s.status = "unavailable" => s.items = {} \/ evFeed = "candidates"
  /\ evFeed = "selections" /\ s.status # "unavailable" => s.items # {} /\ 0 \notin {s.generated, s.computed}
\* Candidates of a source that calls itself unavailable are dropped.
Kept(s) == [status |-> s.status, generated |-> s.generated, computed |-> s.computed,
            items |-> IF s.status = "unavailable" THEN {} ELSE s.items]
-------------------------------------------------------------------------------
Stated(s) == {t \in {s.generated, s.computed} : t > 0}
\* A snapshot is as old as the earlier of its two times.
OldestTime(s) == Min(Stated(s))
FreshBy(s, deadline) == /\ s.status = "ready" /\ Stated(s) # {}
                        /\ OldestTime(s) <= evNow + EvSkew /\ evNow <= deadline
SnapshotFreshness(s) ==
  IF s.status = "ready" => Stated(s) # {} /\ FreshBy(s, OldestTime(s) + EvTtl) THEN s.status ELSE "stale"
\* Research does not run on every day: its snapshot may wait for the next run.
NextRun(t) == Min({r \in EvRuns : r > t})
ResearchFreshness(s) ==
  IF s.status = "ready" =>
       Stated(s) # {} /\ FreshBy(s, Max({OldestTime(s) + EvTtl, NextRun(OldestTime(s)) + EvGrace}))
  THEN s.status ELSE "stale"
Freshness(s) == IF evFeed = "candidates" THEN ResearchFreshness(s) ELSE SnapshotFreshness(s)

\* Records that cannot be read contribute no items and do not make a view ready.
Readable(unread) == {x \in EvSources : x \notin unread /\ published[x] # {}}
Latest(x) == CHOOSE s \in published[x] : TRUE
Live(unread) == IF evFeed = "candidates" THEN Readable(unread) \ retired ELSE Readable(unread)
View(live) ==
  LET named(x) == {i.id : i \in Latest(x).items}
      unique(x) == {i \in Latest(x).items : evFeed = "selections" \/ \A y \in live \ {x} : i.id \notin named(y)}
      fresh == {Freshness(Latest(x)) : x \in live}
  IN  [status |-> IF "stale" \in fresh THEN "stale" ELSE IF "ready" \in fresh THEN "ready" ELSE "unavailable",
       items |-> UNION {{[source |-> x, item |-> i] : i \in unique(x)} : x \in live}]
EmptyView == [status |-> "unavailable", items |-> {}]
\* The list of candidates is shown only if the list of retirements can be read.
CandidateView(unread) == IF retired = {"invalid"} THEN EmptyView ELSE View(Live(unread))
TaskView(unread) == View(Live(unread))
DeploymentView(unread) == View(Live(unread))
TargetView(unread) == View(Live(unread))
SelectionView(unread) == View(Live(unread))
ShownWithout(unread) ==
  CASE evFeed = "candidates" -> CandidateView(unread) [] evFeed = "tasks" -> TaskView(unread)
    [] evFeed = "deployments" -> DeploymentView(unread) [] evFeed = "targets" -> TargetView(unread)
    [] evFeed = "selections" -> SelectionView(unread)

\* What the console says of one runtime target
ObservedFresh(d) == d.at + EvTtl >= evNow /\ d.at <= evNow + EvSkew
Activation(t) ==
  LET seen == {d \in t.deployment : ObservedFresh(d)}
  IN  IF \E d \in seen : d.enabled /\ d.scheduler = "enabled" THEN "enabled"
      ELSE IF \E d \in seen : ~d.enabled /\ d.scheduler = "paused" THEN "disabled"
      ELSE "unknown"
Health(x, t) ==
  LET opposite == {t.configured, Activation(t)} = {"enabled", "disabled"}
      beat == IF t.configured = "enabled" THEN "pass" ELSE "not_applicable"
  IN  IF "attention" \in {t.guard, t.heartbeat} \/ t.disposition = "parked" \/ opposite THEN "abnormal"
      ELSE IF /\ Freshness(Latest(x)) = "ready" /\ Activation(t) = t.configured
              /\ t.guard = "pass" /\ t.heartbeat = beat THEN "normal"
      ELSE "unknown"
-------------------------------------------------------------------------------
EvInit ==
  /\ evFeed \in EvFeeds /\ evNow = 1 /\ published = [x \in EvSources |-> {}]
  /\ syncing = {} /\ registered = {} /\ retired = {} /\ publications = 0

Admit(x, s, accepted) == /\ publications < MaxPublications /\ Acceptable(s) /\ accepted
                         /\ publications' = publications + 1
Store(x, s) == published' = [published EXCEPT ![x] = {Kept(s)}]
\* The ledger of owner decisions is told first, the snapshot is stored after it.
RegisterCandidates(x, s, validation) ==
  /\ evFeed = "candidates" /\ Admit(x, s, AcceptedCandidates(s.items))
  /\ validation => /\ x = ValidationSource /\ Cardinality(s.items) = 1
                   /\ \A c \in s.items : c.stage = "P3" /\ c.recommended = "park"
  /\ syncing' = syncing \cup {[source |-> x, snapshot |-> s]}
  /\ registered' = registered \cup {[source |-> x, id |-> c.id] : c \in OwnerCandidates(Kept(s).items)}
  /\ UNCHANGED <<evFeed, evNow, published, retired>>
StoreCandidates(h) == /\ h \in syncing /\ syncing' = syncing \ {h} /\ Store(h.source, h.snapshot)
                      /\ UNCHANGED <<evFeed, evNow, registered, retired, publications>>
LoseCandidates(h) == /\ h \in syncing /\ syncing' = syncing \ {h}
                     /\ UNCHANGED <<evFeed, evNow, published, registered, retired, publications>>
Publish(which, x, s, accepted) ==
  /\ evFeed = which /\ Admit(x, s, accepted) /\ Store(x, s)
  /\ UNCHANGED <<evFeed, evNow, syncing, registered, retired>>
PublishTasks(x, s) == Publish("tasks", x, s, AcceptedTasks(s.items))
PublishDeployments(x, s) == Publish("deployments", x, s, AcceptedDeployments(s.items))
PublishCollected(x, rs, t) == t <= evNow /\ PublishDeployments(x, Collected(rs, t))
PublishTargets(x, s) == Publish("targets", x, s, AcceptedTargets(s.items))
PublishSelection(x, s) == Publish("selections", x, s, AcceptedSelections(s.items))
\* The owner writes the list of retired sources into KV.
Retire == /\ evFeed = "candidates" /\ retired = {}
          /\ retired' \in {{x} : x \in EvSources} \cup {{"invalid"}}
          /\ UNCHANGED <<evFeed, evNow, published, syncing, registered, publications>>
EvTick == /\ evNow < MaxEvTime /\ evNow' = evNow + 1
          /\ UNCHANGED <<evFeed, published, syncing, registered, retired, publications>>
\* What the runtimes may have reported.
Reportable == EvReports
EvNext ==
  \/ \E x \in EvSources, s \in EvSnapshots(evFeed) :
       \/ \E validation \in BOOLEAN : RegisterCandidates(x, s, validation)
       \/ PublishTasks(x, s) \/ PublishDeployments(x, s) \/ PublishTargets(x, s) \/ PublishSelection(x, s)
  \/ \E x \in EvSources, rs \in SUBSET Reportable, t \in 1..MaxEvTime : PublishCollected(x, rs, t)
  \/ \E h \in syncing : StoreCandidates(h) \/ LoseCandidates(h)
  \/ Retire \/ EvTick
EvSpec == EvInit /\ [][EvNext]_evVars
-------------------------------------------------------------------------------
\* An item two live sources claim is shown for neither of them, and what a
\* retired source said is not shown, whichever records can be read (every shadow
\* selection is shown under its source).
ShownOnce ==
  evFeed # "selections" => \A unread \in SUBSET EvSources : \A e \in ShownWithout(unread).items :
    /\ e.source \notin retired
    /\ \A y \in Readable(unread) \ (retired \cup {e.source}) : \A i \in Latest(y).items : i.id # e.item.id
\* A view is ready only if none of its items is older than the time its feed
\* allows, by either of the times its snapshot states.
ReadyIsEarned ==
  \A unread \in SUBSET EvSources : ShownWithout(unread).status = "ready" =>
    \A e \in ShownWithout(unread).items : \A t \in Stated(Latest(e.source)) :
      /\ Latest(e.source).status = "ready"
      /\ \/ evNow <= t + EvTtl
         \/ evFeed = "candidates" /\ \E r \in EvRuns : t < r /\ evNow <= r + EvGrace
\* The worker accepts whatever the collectors make.
CollectorsAgree ==
  /\ \A rs \in SUBSET EvReports : AcceptedDeployments(Collected(rs, evNow).items) /\ Acceptable(Collected(rs, evNow))
  /\ \A configured \in {"enabled", "disabled"}, guard, heartbeat \in {"pass", "attention", "not_due", "unavailable"} :
       LET beat == IF configured = "disabled" THEN "not_applicable" ELSE heartbeat
       IN  Describable(configured, guard, beat) =>
             AcceptedTargets({[configured |-> configured, guard |-> guard, heartbeat |-> beat,
                               disposition |-> Disposition(configured, guard, beat)]})
\* What the owner is asked to decide is in the ledger of decisions before the
\* console shows it, whatever became of the request that brought it.
AskedIsRegistered ==
  evFeed = "candidates" =>
    \A e \in ShownWithout({}).items : e.item.stage = "P6" => [source |-> e.source, id |-> e.item.id] \in registered
\* No deployment is recommended for live money on the evidence of a run that failed
\* or did nothing, and none is shown in a ready view on an old report, however recently
\* it was collected; a target is healthy only if what runs was seen to be what is configured.
ClaimsAreEvidenced ==
  /\ evFeed = "deployments" => \A e \in ShownWithout({}).items :
       /\ e.item.recommended = "canary" => e.item.receipt \cap {"failed", "no_signal"} = {}
       /\ ShownWithout({}).status = "ready" /\ e.item.observed > 0 => evNow <= e.item.observed + EvTtl
  /\ evFeed = "targets" => \A e \in ShownWithout({}).items :
       Health(e.source, e.item) = "normal" =>
         \E d \in e.item.deployment : evNow <= d.at + EvTtl /\ d.enabled = (e.item.configured = "enabled")
SourcesAreTrue == ShownOnce /\ ReadyIsEarned /\ CollectorsAgree /\ AskedIsRegistered /\ ClaimsAreEvidenced
===============================================================================
