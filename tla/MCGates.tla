------------------------------ MODULE MCGates ------------------------------
EXTENDS PolicyGate, RiskGate, RiskComposer, SnapshotAudit, DigestDelivery, DigestIntake,
  SettingsWriters, SwitchTarget
VARIABLE part

W(c, e, x) == [created |-> c, effective |-> e, expires |-> x]
MCWindows == {W(0, 0, 2), W(0, 1, 3), W(0, 0, 3), W(1, 1, 2), W(2, 1, 3), W(0, 0, 4)}
MCLimits == [gross |-> 4, symbol |-> 3, strategy |-> 3, leverage |-> 6, loss |-> 2, decisions |-> 2]
Pair(s, b) == [strategy |-> s, benchmark |-> b]
MCPaths == {Pair(<<2, -1, 1>>, <<1, -2, 2>>), Pair(<<-1, 2, 1>>, <<-2, 1, 1>>)}
R(t, q) == [at |-> t, is |-> q]
MCHistory == <<R(1, "good"), R(1, "none")>>
MCStored == {<<{}, {R(0, "good")}>>, <<{R(0, "undated")}, {R(0, "stranger")}>>}
MCWritten == {<<1, R(2, "incomplete")>>}
DayRow(t, r, c) == [day |-> "today", target |-> t, run |-> r, ran |-> TRUE, raw |-> FALSE, count |-> c, status |-> "ok",
  execution |-> "none", delivery |-> "delivered", event |-> "none", gate |-> "none", block |-> FALSE]
MCRows == <<DayRow("t1", "r1", 0), [DayRow("t1", "r1", 1) EXCEPT !.execution = "done"], 
   [DayRow("t1", "r1", 0) EXCEPT !.raw = TRUE, !.event = "expected_block", !.status = "alert"],
   [DayRow("t1", "r1", 0) EXCEPT !.block = TRUE, !.gate = "g1", !.status = "alert"],
   [DayRow("t1", "r1", -1) EXCEPT !.block = TRUE, !.gate = "g2", !.delivery = "delivery_failed"],
   [DayRow("t1", "r1", 0) EXCEPT !.execution = "failed", !.event = "routine"],
   [DayRow("t2", "r2", 0) EXCEPT !.delivery = "delivery_failed"], DayRow("t2", "r2", 0), [DayRow("t2", "r2", 1) EXCEPT !.event = "urgent"],
   [DayRow("t2", "r3", 0) EXCEPT !.ran = FALSE],
   [DayRow("t2", "unknown", 0) EXCEPT !.execution = "done"],
   [DayRow("t2", "r2", 0) EXCEPT !.day = "older"], [DayRow("t1", "r1", 0) EXCEPT !.day = "newer"]>>

BareLevel == [inventory |-> Absent, target |-> Absent, profile |-> Absent, enabled |-> Absent, service |-> Absent]
BookOf(top, env) == [a \in {"own", "other"} |->
   [profile |-> "p1", top |-> top, env |-> env]]
Layout(p, s, r, e) == [site |-> [platform |-> p, scope |-> s], gh |-> [repository |-> r, environment |-> e]]
OwnTarget(c) == [account |-> "own", profile |-> "p1", continuity |-> c]
MCLayouts == {
  Layout("ibkr", "repository", [BareLevel EXCEPT !.inventory = BookOf(Absent, "true")], BareLevel),
  Layout("longbridge", "environment", [BareLevel EXCEPT !.inventory = BookOf("true", Absent)],
         [BareLevel EXCEPT !.target = OwnTarget("none"), !.profile = "p1", !.enabled = "true", !.service = "own"]),
  Layout("longbridge", "environment", BareLevel,
         [BareLevel EXCEPT !.target = OwnTarget("ACTIVE_LKG"), !.profile = "p1", !.enabled = "false", !.service = "own"]),
  Layout("longbridge", "environment", [BareLevel EXCEPT !.inventory = BookOf("true", Absent)],
         [BareLevel EXCEPT !.target = OwnTarget("ACTIVE_LKG"), !.profile = "p1", !.enabled = "false"])}
MCResults == {
  [status |-> "applied", serving |-> TRUE, continuity |-> "ACTIVE_LKG", scheduled |-> TRUE, artifact |-> TRUE, reviewed |-> FALSE],
  [status |-> "applied", serving |-> FALSE, continuity |-> "PAUSED", scheduled |-> FALSE, artifact |-> TRUE, reviewed |-> TRUE]}
PlainProfile == [dca |-> "none", live |-> TRUE, frozen |-> FALSE, modes |-> {"live", "dry_run"}, platforms |-> {"ibkr", "longbridge"},
            continuity |-> {}, scheduler |-> "weekdays", overrides |-> [x \in {} |-> ""], market |-> "US",
            artifact |-> "", snapshot |-> "none", required |-> {}]
MCCatalogue ==
  [ibit |-> [PlainProfile EXCEPT !.dca = "exit", !.overrides = [radar |-> "weekdays, late"]],
   index |-> [PlainProfile EXCEPT !.dca = "plain", !.modes = {"live", "dry_run", "paper"}],
   growth |-> [PlainProfile EXCEPT !.snapshot = "required", !.artifact = "both"],
   old |-> [PlainProfile EXCEPT !.live = FALSE, !.frozen = TRUE, !.modes = {"dry_run"}, !.continuity = {"ibkr"},
                           !.overrides = [radar |-> "weekdays, late"]],
   draft |-> [PlainProfile EXCEPT !.live = FALSE]]
Radar(s) == <<[strategy |-> s, plugin |-> "radar", enabled |-> TRUE, expects |-> "shadow"]>>
Ask(service, profile) ==
  [platform |-> "ibkr", service |-> service, scope |-> "A", profile |-> profile, mode |-> "live", dca |-> Nobody,
   plugins |-> "none", mounts |-> <<>>, option |-> "current", direct |-> {}, cash |-> Nobody, snapshot |-> Nobody,
   continuity |-> "NONE", baseline |-> FALSE, data |-> Nobody, create |-> FALSE, faults |-> {}]
Kept(r, state) == [r EXCEPT !.continuity = state, !.baseline = TRUE]
MCRequests ==
  LET ibit == Ask("s1", "ibit") growth == Ask("s1", "growth") old == Ask("s1", "old") IN
  {ibit, [ibit EXCEPT !.dca = "smart", !.plugins = "current", !.mounts = Radar("ibit")],
   [ibit EXCEPT !.dca = "smart"], [ibit EXCEPT !.mode = "dry_run", !.dca = "fixed"], [ibit EXCEPT !.mode = "paper"],
   [ibit EXCEPT !.plugins = "current", !.mounts = Radar("index")], [ibit EXCEPT !.option = "enabled"],
   Ask("s1", "index"), [Ask("s1", "index") EXCEPT !.mode = "paper", !.cash = "true"], [growth EXCEPT !.dca = "smart"],
   growth, [growth EXCEPT !.snapshot = "path only"], [growth EXCEPT !.cash = "false"],
   old, Kept(old, "ACTIVE_LKG"), Kept(old, "RECONCILE_ONLY"), [old EXCEPT !.mode = "dry_run"],
   [Kept(old, "RECONCILE_ONLY") EXCEPT !.plugins = "current", !.mounts = Radar("old")],
   Ask("s1", "draft"), Ask("s3", "growth"), Ask("s2", "growth"), [Ask("s3", "growth") EXCEPT !.create = TRUE],
   [Ask("s2", "ibit") EXCEPT !.platform = "longbridge", !.scope = "B", !.dca = "smart"]}
PaperTarget(service, scope, profile, platform) == [platform |-> platform, profile |-> profile, service |-> service, scope |-> scope,
   mode |-> "paper", dry |-> TRUE, scheduler |-> "weekdays", market |-> "US", data |-> Nobody, domain |-> Nobody,
   release |-> Nobody, continuity |-> Nobody]
TargetEntry(service, t, top, env) == [service |-> service, label |-> Nobody, group |-> "A", target |-> t, mounts |-> <<>>, top |-> top, env |-> env]
Start == [Blank EXCEPT !.dry = "true", !.cash = "true"]
MCInventories ==
  LET a == TargetEntry("s1", PaperTarget("s1", "A", "growth", "ibkr"), Blank, [Start EXCEPT !.enabled = "true"])
      b == [TargetEntry("s2", PaperTarget("s2", "B", "growth", "longbridge"), Start, Nobody) EXCEPT !.group = Nobody]
      bare == TargetEntry(Nobody, Nobody, Start, Nobody)
  IN {<<bare, b>>, <<a>>, <<[a EXCEPT !.env = Start]>>}
LocalDry == [runtime |-> PaperTarget("s9", "A", "growth", "ibkr"), mounts |-> <<>>, dry |-> Nobody, faults |-> {}]
OwnReal == [platform |-> "ibkr", capital |-> "OWN_REAL", environment |-> "LIVE"]
MCLocals ==
  LET live == [LocalDry.runtime EXCEPT !.mode = "live", !.dry = FALSE] IN
  {LocalDry, [LocalDry EXCEPT !.dry = "false"], [LocalDry EXCEPT !.faults = {"secret name"}], [LocalDry EXCEPT !.runtime = live],
   [LocalDry EXCEPT !.runtime = [live EXCEPT !.domain = OwnReal]], [LocalDry EXCEPT !.runtime = [live EXCEPT !.mode = "paper", !.domain = OwnReal]],
   [LocalDry EXCEPT !.runtime = [live EXCEPT !.scheduler = "every day"]],
   [LocalDry EXCEPT !.runtime = [live EXCEPT !.profile = "old"]],
   [LocalDry EXCEPT !.runtime.data = [mode |-> "artifact_required", artifact |-> TRUE, assurance |-> "DEGRADED"]],
   [LocalDry EXCEPT !.runtime = [live EXCEPT !.profile = "old",
      !.continuity = [state |-> "RECONCILE_ONLY", kind |-> "release_attested", baseline |-> [live EXCEPT !.profile = "old"]]]]}

AuditSymmetry == UNION {Permutations(AuditRuns), Permutations(DigestTargets), Permutations(WriterJobs)}

Rest(x) == /\ x # "gate" => now = 0 /\ papers = 0 /\ check = 0 /\ receipt = 0
           /\ x # "risk" => book = 0 /\ account = 0 /\ health = 0 /\ breaker = 0 /\ decision = 0
           /\ x # "composer" => observed = 0 /\ advice = 0
           /\ x # "audit" => /\ archive = 0 /\ backfilled = 0 /\ audits = 0
                             /\ claims = 0 /\ acks = 0 /\ announced = 0
           /\ x # "digest" => /\ hour = 0 /\ shelf = 0 /\ posts = 0 /\ slip = 0
                              /\ mailed = 0 /\ confirmed = 0 /\ intime = 0
           /\ x # "intake" => received = 0
           /\ x # "writers" => /\ site = 0 /\ gh = 0 /\ jobs = 0 /\ ledger = 0
                               /\ signed = 0 /\ runs = 0 /\ edits = 0
           /\ x # "target" => inventory = 0 /\ published = 0
Init ==
  \/ part = "gate" /\ GateInit /\ Rest("gate")
  \/ part = "risk" /\ RiskInit /\ Rest("risk")
  \/ part = "composer" /\ ComposerInit /\ Rest("composer")
  \/ part = "audit" /\ AuditInit /\ Rest("audit")
  \/ part = "digest" /\ DigestInit /\ Rest("digest")
  \/ part = "intake" /\ IntakeInit /\ Rest("intake")
  \/ part = "writers" /\ WriterInit /\ Rest("writers")
  \/ part = "target" /\ TargetInit /\ Rest("target")
GateParts == <<gateVars, riskVars, composerVars, auditVars, digestVars, intakeVars, writerVars, targetVars>>
Next ==
  /\ UNCHANGED part
  /\ \/ /\ part = "gate" /\ GateNext
        /\ UNCHANGED <<riskVars, composerVars, auditVars, digestVars, intakeVars, writerVars, targetVars>>
     \/ /\ part = "risk" /\ RiskNext
        /\ UNCHANGED <<gateVars, composerVars, auditVars, digestVars, intakeVars, writerVars, targetVars>>
     \/ /\ part = "composer" /\ ComposerNext
        /\ UNCHANGED <<gateVars, riskVars, auditVars, digestVars, intakeVars, writerVars, targetVars>>
     \/ /\ part = "audit" /\ AuditNext
        /\ UNCHANGED <<gateVars, riskVars, composerVars, digestVars, intakeVars, writerVars, targetVars>>
     \/ /\ part = "digest" /\ DigestNext
        /\ UNCHANGED <<gateVars, riskVars, composerVars, auditVars, intakeVars, writerVars, targetVars>>
     \/ /\ part = "intake" /\ IntakeNext
        /\ UNCHANGED <<gateVars, riskVars, composerVars, auditVars, digestVars, writerVars, targetVars>>
     \/ /\ part = "writers" /\ WriterNext
        /\ UNCHANGED <<gateVars, riskVars, composerVars, auditVars, digestVars, intakeVars, targetVars>>
     \/ /\ part = "target" /\ TargetNext
        /\ UNCHANGED <<gateVars, riskVars, composerVars, auditVars, digestVars, intakeVars, writerVars>>
Spec == Init /\ [][Next]_<<part, GateParts>>

\* What the gates decide and the writers write holds, each in its part: an admission
\* is covered by papers in force, what is allowed stays within the limits, a report is
\* announced once and a day's message is one, says when it went and what was read, a
\* manifest is spent once, a target that is accepted as live is earned.
GatesHold ==
  /\ part = "gate" => AdmissionIsCovered
  /\ part = "risk" => TakenWithinLimits
  /\ part = "audit" => AnnouncedOnce
  /\ part = "digest" => OneMessageADate /\ ConfirmedWasInTime /\ CompleteWasRead
  /\ part = "writers" => SpentOnce
  /\ part = "target" => LiveIsEarned /\ EntriesCohere
\* What is computed from many rows is sound: the scale the composer advises, and the
\* totals and alerts of the daily message.
FiguresAreSound ==
  /\ part = "composer" => AdviceIsSound
  /\ part = "intake" => TotalIsAgreed /\ NothingIsCalmed
\* A tripped breaker stays so until an operator resets it, the audit's verdict on a
\* day improves only by a record that earns it, and the writers of settings change
\* what they were asked to, report what is so and leave other accounts alone.
NothingIsForgiven ==
  [][/\ part = "risk" => Latched
     /\ part = "audit" => VerdictEarned
     /\ part = "writers" => ReportedIsSo /\ OthersStand
     /\ part = "target" => StepIsExact]_<<riskVars, auditVars, writerVars, targetVars>>
=============================================================================
