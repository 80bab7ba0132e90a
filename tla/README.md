# QuantRuntimeSettings in TLA+

Models, model checks and proofs about the control plane of QuantRuntimeSettings:
who may decide, change, stop, rotate or read what; what the console stores of
other systems and shows; and what is left of an operation when calls are lost,
repeated, reordered or cut short. The code is the reference; the lines each
definition stands for are in `PROJECT.json` ("map").

    tlc -workers 2 -config SecretRotation.cfg MCSecretRotation   # one run
    tlapm StoreProofs.tla                                        # one proof module

`worker.js` below is `src/web/strategy-switch-console/worker.js`; other paths are
relative to `src/web/strategy-switch-console/` unless they start with `src/`.
Python scripts are under `src/python/scripts`.

## 1. The system

| Component | State | Operations | Interacts with |
|---|---|---|---|
| **RuntimeInstances** (Durable Object, `worker.js` 2262-5327) | SQLite tables; every command is one `transactionSync` | the `*_command` branches of `fetch`, and `alarm` | called by the worker's HTTP handlers; it awaits nothing inside a command, while its callers await everything |
| - decision ledger | `human_decision_source_material`, `_material`, `_record` | sync per publisher, submit, legacy import | publishers (research, snapshots, scanners), owner, recovery |
| - promotion applications | `research_promotion_applications`, instance revision | create, dispatch mark, claim, result | GitHub workflow runs, registry |
| - runtime control, HK stop | control requests, `hk_stop_request` | claim, record, capture, check, resolve, result | GitHub workflow runs, platform |
| - credential rotation | `credential_rotation_*`, `credential_maintenance_metadata` | begin, complete, read, save expiry | secret rotation proxy |
| - registry and account settings | instances, drafts, declarations, risk profile authority, applications | save, replace, approve, claim, import | KV, GitHub workflow runs |
| - account diagnosis | `account_diagnosis_tasks` | create, intent, save, cancel, mark | native advisory service, recheck workflow |
| - UX1 research | one slot per login: draft, preview, intent, job | save, preview, intent, claim, result | research workflow |
| - desk readbacks | `desk:*` storage rows, the alarm | start, single read, alarm | broker reads |
| - cycle health, account facts, returns, flows, executions, benchmarks | one table (group) each | append, compare-and-set, prune | brokers' programs, scripts, the owner's bindings in KV |
| **Evidence** (research candidates and tasks, execution evidence, runtime targets, shadow selections, M0 ledger, daily runs) | one snapshot per source or day in KV and in the object | publish, sync, age when read | publishers, console |
| **Current strategies** | memory of each Worker isolate, KV | resolve, refresh in the background | GitHub variables, resume |
| **KV directory** (`kv_directory.js`) | manifest in object storage, its mirror and the records in KV | put, maintain, cache, read | KV, other writers |
| **Secret rotation proxy** (`src/web/secret-rotation-proxy`) | Firestore operations, requests, holder; Secret Manager versions | stage, finalize, cancel, read | console; Secret Manager |
| **Settings writers** (`runtime_settings.py`, resume scripts, the switch job) | GitHub variables, consumed manifests | stop, enable, resume, switch | promotion ledger, administrators |
| **Gates** (policy, risk, composer), **snapshot audit**, **daily digest** | papers, breaker, Cloud Storage objects, delivery record | admit, decide, compose, audit, send | brokers, Telegram, scheduler |
| **Frontend**, read models, catalogues | browser state, none | user interface | the HTTP API |

What is hard here is nearly always the same: a Durable Object command is atomic,
but the handler in front of it reads, awaits GitHub, KV, a broker or Secret
Manager, and then sends a command built from what it read; clients and workflow
runs retry; answers get lost after the call took effect; a process dies between
two calls; and the object may be evicted between two awaits. `PROJECT.json` lists
every such place ("hazards") with the property that watches it. Two have none and say why: a handler that dies between
its claim and its dispatch leaves a reservation that only an investigation resolves
(`worker.js` 4173), and the record of risk profiles is imported for good by whichever
request comes first (3724).

What makes each component correct:

- **decisions**: one terminal record per reviewed material; only material that
  exactly one publisher vouches for can be decided; unexplained legacy data is inert.
- **promotion**: a strategy changes only on a consent for that ticket, account and
  current revision; one open application per ticket and account; outcomes are final.
- **runtime control / stop**: one undecided request per target; a workflow is
  dispatched once; a result counts only for the request it belongs to.
- **rotation**: the secret always has an enabled version; a record of the end is
  true of the versions; console and proxy agree on the end; the maintenance revision
  counts registrations and finalized operations exactly.
- **settings**: nobody overwrites what he has not seen; one open application per
  account; an approval is for the draft that was read.
- **research**: what a slot shows was computed for its draft and its deployment;
  a job is posted once and ends once.
- **diagnosis**: one open task; sent, cancelled and rechecked at most once; what is
  known of the native operation is never taken back.
- **desk**: no lost wake-up; one job per idempotency key; a turn is kept until given
  back; every job ends.
- **stores**: frozen closes and checkpoints never go back; what is shown was reported
  under the bindings it is shown under; an evidence list has one snapshot per source.
- **directory**: what was published is listed; "complete" covers the namespace; the
  list budget holds; an unmirrored manifest is marked.
- **settings writers, gates, reports**: a switch leaves what it was asked for; an
  admission needs papers in force at one time; a breaker is not forgotten; an
  announcement goes out once and says what is stored.

## 2. Modules

| Module | Models | Proofs in |
|---|---|---|
| `HumanDecision` | ledger tables, sync, the two halves of a submit | `PromotionApplicationProofs` |
| `PromotionPromise` | abstract: what a promotion may do to an account | |
| `PromotionApplication` | applications, workflow runs, registry, over `HumanDecision`; refines `PromotionPromise` | `PromotionApplicationProofs` |
| `RuntimeControl` | enable/disable requests, pollers, checks | `RuntimeControlProofs` |
| `HkStop` | stop of longbridge/hk, posted results | `AccountProofs` |
| `RotationProxy` | proxy store, handler, reconcile, Secret Manager | `SecretRotationProofs` |
| `SecretRotation` | console side and maintenance record, composed with the proxy | `SecretRotationProofs` |
| `DeskReadback` | jobs, single reads, admission, idempotency, alarm, eviction | `DeskReadbackProofs` |
| `AccountSettings`, `Ux1Research`, `AccountDiagnosis` | the accounts' part of the object: settings, research slot, diagnoses | `AccountProofs` |
| `CurrentStrategies` | resolve, memory, KV and refresh of what an account runs; resume | `PromotionApplicationProofs` |
| `KvDirectory` | manifest, scan, budget, mirror | `StoreProofs` |
| `CycleHealth`, `MarketBenchmarks`, `AccountFacts`, `NativeReturns`, `BrokerRecords` | append-only and bound stores | `StoreProofs` |
| `EvidenceSources`, `ResearchLedger`, `RuntimeDaily`, `RecoveryDesk` | what publishers send, and what is shown of it | `StoreProofs` |
| `PolicyGate`, `RiskGate`, `RiskComposer` | admissions, the risk decision and its caller, the composed scale | `GateProofs` (not the composer) |
| `SnapshotAudit`, `DigestDelivery`, `DigestIntake` | reports that must be complete and go out once | `GateProofs` (not the intake) |
| `SettingsWriters`, `SwitchTarget` | who writes a platform's variables, and what a switch becomes | `SettingsProofs` (lemmas), `GateProofs` |
| `MCDecisions`, `MCPromotionApplication`, `MCRuntimeControl`, `MCSecretRotation`, `MCDeskReadback`, `MCAccounts`, `MCGates`, `MCStores` | constants, symmetry and the bounds of each run | |

Conventions. A Durable Object command is one action. A handler is a process: its
reads and its commands are separate actions, what it has read is kept in a variable
(`requests`, `creates`, `claims`, `poller`, `seen`, `job`, `pages`, `work`), and a
handler that dies takes no further step. A lost answer is a disjunct in which the
effect happens and the caller learns nothing. Digests, signatures and texts are model
values; a digest is the content it is taken of. The history variables of `KvDirectory`
record what happened for its properties; no guard reads them. What an action may never do to a row is an action of its own next to the
property that boxes it (`OverwritesAsSeen`, `JobStep`, `KnowledgeGrows`).

Beside many definitions there is a variant that leaves out one guard, reset or order
(`ReserveBesideActive`, `MayCreateAfterUnknown`, `GateConflictUnlessNamed`).
No behaviour uses it: it is what the code would be with a plausible bug, and
`PROJECT.json` ("mutants") says which property notices it.

Components that share no state are checked side by side: `MCDecisions`,
`MCPromotionApplication`, `MCAccounts`, `MCGates` and `MCStores` have a variable `part`
that says whose steps a behaviour takes, and the other parts' variables rest. Each part
is then explored exactly as it would be alone.

### HumanDecision and PromotionApplication

`SyncPromotion` and `SyncSnapshot` are the transaction of
`syncHumanDecisionMaterials`: rows of one source are replaced or updated, the legacy
record is imported or blocks the subject, then the projection of every affected
subject is recomputed from all sources. `SubmitDecision` is what the HTTP handler
reads; `WriteDecision` is the command, which may come late or twice, and re-checks
material, eligibility, expiry, revision and the request key.
`PromotionApplication` adds `QualifyCreate` / `CreateApplication`,
`DispatchAccepted` / `DispatchFailed` / `MarkDispatch`, `QualifyClaim` / `Claim`
and `ReportResult`. The refinement maps consents to the accepted records and
`strategy` to the accounts' profiles: everything but consents, applies and other
registry changes is a stutter.

### RuntimeControl and HkStop

One target's requests. The POST handler claims, dispatches a GitHub workflow and
records; a poller reads the receipt of a run and then sends record, capture, resolve
and check commands, each for the row it got back from the one before. `HkStop` has
the 24-hour window and observation time of a posted result.

### RotationProxy and SecretRotation

`worker` is the handler of an accepted mutation: list, capture, add, record, or list,
disable, save; any call may fail before or after its effect and sends it to the catch
block (`Fail`). `reader` is `reconcile`: two reads of versions, then a guarded update.
`AddByHand` is somebody who adds a version outside the proxy; versions are never
disabled by hand, since nothing in the code could then hold. `SecretRotation`
puts the console's rows beside it: `Invoke` sends the request, which the proxy
receives at any later time or never, and `Complete` writes the outcome and, for a
finalize, the maintenance record in one transaction.

### AccountSettings, Ux1Research, AccountDiagnosis

A page of the settings reads rows and then saves, replaces, approves or claims: the
command compares the revisions it was given, never the contents. The registry changes
between the two. Claims come from a workflow run and are answered once. A page of the
research slot reads the slot and the deployed configuration, projects or posts, and
writes only if the slot is still what it read; the workflow's answers are delivered
late, twice or never, and a deployment may change the configuration at any time. A
diagnosis is created by one handler, sent to the native service, and then read back or
cancelled by any handler of the target; the service works on its own.

### DeskReadback

`Alarm` is the handler from `Fire` to `Close`, one await per action; `Crash` evicts
the object, keeping storage. Fairness: `WF_vars(Alarm)` only, because the platform
delivers a due alarm at least once and a handler's own awaits end (each broker read
has a timeout). Nothing is assumed of clients, of single reads or of the clock.
`EveryJobEnds` is checked under it.

### KvDirectory and CurrentStrategies

A command is split at its awaits; the object's queue admits one at a time
(`MayStart`). KV `list` is taken as consistent with the writes before it. A legacy
manifest is only an initial value of the mirror. A list attempt is charged to the day
of the attempt. `WriteBeside` are the writers that do not go through the directory.
`CurrentStrategies` has the cache command, whose two writes may fail one by one, and
the older path in which the Worker compares and writes itself. A load reads all its
levels in one step. A resume is not one step: `ReadForResume`, `CompareResume` and
`PostResume` are the awaited read of the variables, the comparison of what was read and the
awaited dispatch, and the variables may change between them, so what is sent need not be in
force any more when it is sent. `held`, a history variable, is what the account's variables
held since the operator asked. What the dispatched workflow checks again is a job of kind
"resume" in `SettingsWriters`.

### Stores and evidence

`CycleHealth` is one target and source: admissions, scans, checkpoints and the summary
of faults; a refused command changes nothing. `MarketBenchmarks` has the appending job
and the revision that is rebuilt, checked by the handler against a read, and applied by
a second command. `AccountFacts`, `NativeReturns` and `BrokerRecords` store a report
under the bindings that were read when it arrived, and show it under those read now.
`EvidenceSources` keeps the last snapshot per source in the ledger and in KV and builds
the list; `ResearchLedger`, `RuntimeDaily` and `RecoveryDesk` are the three publishers
with a check of their own between what is published and what is shown or confirmed.

### Gates, reports and settings writers

The gates are functions of what they are given, with the callers that make a protocol
of them: `PolicyGate` reads the clock once per validation, so time passes within one
check; `RiskGate` comes with the caller that stores the breaker; `RiskComposer` is an
algorithm, checked against a reference over all small inputs. `SnapshotAudit` and
`DigestDelivery` are runs that overlap and die over a store whose objects are created
once; `DigestIntake` folds rows in any order and number. `SettingsWriters` has the jobs
of one platform (at most one at a time, by the workflow's concurrency group) and an
administrator who is bound by nothing and may write between any two calls, those that read
the repository and the environment included; `SwitchTarget` builds a target from a request
and the inventory in force, and validates and publishes it.

## 3. Runs

Bounds are the constants of the `.cfg` files, the sizes of the sets, and the few
state bounds that the MC modules name (listed below); they cut behaviours short and
never change a step. No run replaces a definition of a module; an operator that gives
a constant its value is in the MC module. Deadlock is off because in every instance
requests, ids or time run out, which is where the small system legitimately stops.

| Run | Shows | Why these bounds |
|---|---|---|
| `decisions` | one record per material, sole witness, legacy inert; one stop, final, confirmed where it was requested | two materials compete for a subject with an old KV record; two sources agree, differ or withdraw; two requests race and time passes an expiry. Two stops, two identities, two runs; results before, in and after the window |
| `promotion` | refinement of `PromotionPromise`, one applied per revision, one open application, true dispatches, final outcomes, an acceptance is for what its preflight saw; what the console shows was in force and is the account's own, a resume is for what was in force since it was asked for | two tickets for one account, two materials, runs that may be re-run, one revision more than makes both stale. Three parts: decisions in detail, applications of one reviewed material (`OneReviewed`), and current strategies at two sites: two accounts with an inventory and an environment, and a single account with the older receiver; two loads at a time, one edit, one resume, two ticks |
| `control` | a request keeps to its own run and details, one is open; never resent; closed is final | two requests, two pollers that hold stale rows, one check, receipts that close a request or, for a check, leave it partial (`PartialIsChecked`), an identity that moves once while there is a request (`MovesOverARequest`) |
| `rotation` | console and proxy agree on ends; exact maintenance revisions; the credential stays; one holder; the owner decides; true and final ends | two operations in a row, one registration of an expiry, three requests of which two wait at the proxy together (`TwoWaiting`), a reader that reconciles, two versions with the console and three, one of them made by hand, without it (`TwoVersions`); a registration while an operation is under way (`SavesMeetAnOperation`) |
| `desk_readbacks` | turns, armed alarms, one job per key, every job ends | two operators, two jobs, two targets each, one eviction, expiry one tick away |
| `accounts` | no lost update of settings, one open application, approvals mean what was read; research is earned and ends once; one open diagnosis, earned rechecks, knowledge is kept | two requests, two draft revisions, three registry revisions, two profiles and preferences; risk preferences are not changed where a profile is approved (`RiskOrApproval`). Two pages, two jobs, three deployments. Two handlers on one task at a time, then a second task (`OneTaskAtATime`) |
| `gates` | admissions are covered by papers in force; risk within limits and the breaker latched; sound advice; live targets are earned and entries cohere; manifests are spent once; announced once, one message a date, true totals; the writers change what they report and nothing else | three instants for windows that overlap in every order; two symbols and strategies at the limits, three decisions; two paths of three returns; two audit runs over two days; two posts of one slot over one target's shelf; three rows out of thirteen kinds; two jobs, one edit between any two calls, one manifest, four layouts of the two levels, one of which names no service; 23 requests over three inventories |
| `stores` | summaries are the history, closes are traced, totals count once, readers agree, lists are one snapshot per source, days are told as they were; the directory's listing, completeness, budget and mirror; nothing goes back | two bindings and configurations; one fault, two observations; two revisions of one close; seven snapshots of three sources in four instants; two snapshots per feed and source; two overlapping ledger syncs; the configurations of the daily runs named above; three keys, of which the middle one comes later (`StartKeys`), one key per page, one list per day, two days |

Each state bound was chosen where the property's interesting case survives it, which
the mutants confirm: every property of every run is violated under the run's own
configuration by at least one plausible bug in the code it is about.

### Disagreements found

Each is a run that ends in a counterexample, with the sentence it contradicts in
`PROJECT.json` ("findings").

- `awaiting_material_kept`: a late re-sync of an already accepted material replaces the
  newer material under review.
- `control_own_outcome`: a poller applies the receipt of a closed request to the
  request that followed it.
- `benchmark_prior_close`: an approved revision of a close may replace another close
  than the one its proposal names, because the command does not compare it again.
- `kv_mirror_debt`: a mirror write that fails after a scan leaves no dirty marker.

### Observed while modelling

These are what the code does, met while translating it; no run is about them unless
it says so.

- Decisions: owner material without a usable anchor is stored as eligible and never
  expiring, and only the handlers in front refuse it (`worker.js` 7849-7852). Several
  operations that lose their process stay open and block the next one until somebody
  investigates (a control request between claim and dispatch, a claimed application, a
  pending rotation), which the documents accept or do not mention.
- Settings: the run controls, the approval and the claim (`worker.js` 5665, 6097, 6328)
  send `account_settings_read` without the KV record, and the import then stores an
  empty authority (3722-3730), although `README.zh-CN.md:171` says that a corrupt KV
  record makes the interface unavailable.
- Diagnosis: a result that says "unknown" stays unresolved for good; a readback is
  returned unawaited from its try block, so its failures skip the hold.
- Research: a cleared preview whose job of the same binding has succeeded cannot be
  computed again until the draft or the configuration changes.
- Current strategies: after a failed record a refresh may be answered "unchanged" while
  KV keeps other content for up to 15 minutes; a failed background refresh replaces good
  stale rows by failed ones, though a comment says they are kept; a payload of denied
  permissions alone counts as fresh; a degraded payload is served for a minute from
  memory; for longbridge an entry enabled by its environment is read first, so a stop
  written to the inventory does not show.
- Stores: a benchmark proposal that was reverted can never be applied again under its
  hash (409); a delayed report of a rotated source may overwrite the latest snapshot, and
  an equal observation time may replace a return without a conflict; contradicting
  executions of two approved sources make their list unreadable; after a change of
  binding earlier flows are unreadable and the next put replaces them.
- Evidence: two overlapping syncs may leave the ledger and KV with different snapshots,
  and two overlapping M0 syncs may roll the ledger back; the lifecycle builder parks a
  disabled target whatever its heartbeat says, which the worker then rejects; a grid
  cell can be "ok" on a day that is "unknown"; after a rebinding a day's record stays
  unreadable and its posts are refused with 409.
- Daily runs: a record of the built-in longbridge target is stored without a fingerprint
  (`worker.js` 9719, 9805), so after a rebinding it is shown for the account which the target
  is bound to by then, and accepted from any source; registrations that share one account at
  the broker contradict each other on IBKR only (9776-9778); an account that is bound both by
  a registration and by a built-in target has a "partial" row in the summary of the day, also
  when its registered day failed. `DayIsOwn` and `SuccessIsProved` say exactly this much, and
  `MCStores` configures each of the three.
- Settings writers: a stop or an adoption reads the repository and the environment in two
  calls, so a change between the two readings, put back between the next two, may leave a
  report of settings that were never in force together (`half`; `ReportedIsSo` asks that
  nobody is known to have written in between); a resume of longbridge compares only the
  environment, and where that one names no service and the repository keeps an inventory
  (`resume_longbridge_runtime.py` 51-60 refuses an inventory of the environment only) the
  switch it reports as configured is not the one that counts; a control above the environment's would go stale and win (only the
  stop writes there, and every reader begins there); a continuity target with a plugin's
  scheduler override cannot be built; a local target whose profile is not in the catalogue
  is accepted in any mode; `plugin_mode=current` without mounts still turns the exit of
  ibit live with the smart mode; a request without `dca_mode` keeps the smart mode and sets
  the exit false; a switch is not protected against an administrator between its read and
  its write (documented, `concurrency_complete_lock: False`), and one that fails leaves
  what it has written and a burnt id.

## 4. Proofs

All for arbitrary constants, from the named ASSUMEs of the modules, which TLC evaluates
on every run: the types of the constants and that the null values differ from real ones
(`DecisionNulls`, `ApplicationRows`, `ControlRows`, `ProxyRecords`, `DeskNulls`,
`SettingsNulls`, `Ux1Nulls`, `DiagnosisNulls` and their like), that the workflow's and
the service's answers are among those of their contracts (`Ux1Inputs`,
`DiagnosisInputs`, `ControlReports`), that requested changes are of the declared fields
and values (`SettingsInputs`) and no two imported accounts claim one target
(`SettingsTargets`; the import refuses it), that the ids of operations are numbered
(`RotationOps`, `RotationRequests`, `DeskJobs`, `DeskIds`), that the keys of the directory
are finitely many numbers (`DirectoryNumbers`), that the instants, amounts, limits and
windows of the gates and stores are numbers, in the smallest unit, and their symbols,
accounts and scheduled runs finitely many (`LimitsAssumption`, `FactsAssumption`,
`BenchAssumption`, `NativeAssumption`, `RecordsAssumption`, `LedgerAssumption`,
`CycleAssumption`, `EvAssumption` and their like), that an archive holds records of its
kinds (`AuditAssumption`).
A few assumptions say more than a type:

- `TargetAssumption`: the first inventory is such as the builder leaves behind, with one
  service per entry.
- `DailyAssumption`: the bindings of account facts name each account once, which their parser
  checks.
- `StrategyNumbers`: a row's life in memory, in KV and past its refresh are in that order, as
  the Worker's constants are; `StrategySites`: every account reads the repository or one of
  the levels its platform has.
- `FactsAssumption`, `NativeAssumption`: a snapshot starts before it ends, and an interval ends
  before it was observed; both are checked when a report is admitted.
- `EvAssumption`: research is scheduled again after every snapshot of it, and what was not
  collected from reports observes nothing.

Every invariant was checked by TLC on a small instance before it was proved.
`PROJECT.json` ("theorems") names the results.

- **PromotionApplicationProofs**, decisions: type correctness, the three safety invariants, and
  that what an operator accepts is what the operator's preflight saw (`DecidedAsSeen`). The
  invariants are inductive together with one fact each about the tables: a subject with a
  source row is projected, and so is a subject with a record (without them a subject could
  be projected afresh, its legacy record imported a second time).
- **PromotionApplicationProofs**, applications: types, `OneOpenApplication`,
  `OneAppliedPerRevision`, `DispatchIsTrue`, `OutcomeIsFinal`, and that the module
  implements `PromotionPromise`. The invariant adds that every application rests on
  an accepted record of its ticket, account and expected revision, that an applied one
  expected a revision that has passed (so no second one can take effect at it), and
  that handlers, claims and runs refer to applications that exist. The refinement needs
  the first of these in the one step, an applied result, that changes an account.
- **AccountProofs**, stop of longbridge/hk: types, `OneStopAtATime`, `StoppedIsFinal` and
  `ConfirmedWhereItWasRequested`. The invariant adds that a handler which dispatches or
  records, and a run at work, belong to a claimed request; the two action properties
  follow from one lemma about what a step can do to a claimed row (`RowStep`).
- **RuntimeControlProofs**: `RequestsAreTheirOwn`, `NeverResent`, `ClosedIsFinal`.
  `ControlInv` adds that only the latest request of the target may be open, that every
  row, stored or still held by a poller or a handler, names its own run, platform run and
  check, and where each handler and poller stands. A command rewrites one row; two lemmas
  say which rewritings are sound (`Rewrites`) and that whatever anybody else holds stays
  sound under them (`SoundStays`). That a poller may hand the *outcome* of an old request
  to a new one is the finding `control_own_outcome`; what the theorem says is that run and
  details are never mixed.
- **SecretRotationProofs**, proxy: types, `NeverWithoutCredential`, `OneOperation`,
  `EndsAsRecorded`, `EndedIsFinal`. `NeverWithoutCredential` is far from inductive. What
  carries it (`WorkerOK`): while an operation is pending exactly one handler works
  on it; a handler about to disable has a pair of distinct, enabled versions, and
  nobody else can disable while its operation is pending; a handler that still
  has to list either works on its pending operation or the version it would give up is
  already disabled, so it will not find its pair enabled. `ReaderOK` says that what a
  reader has seen is stable: a pair no longer changes, a disabled version stays
  disabled, a kept version stays enabled until the operation ends.
- **SecretRotationProofs**, console: `ConsoleUsesProxy` shows that the console with its proxy
  implements the proxy's own specification, so every theorem above carries over.
  `RotationInv` is the proxy's invariant with the links between the console's requests and
  the proxy's workers (same operation, same action), and that every answer and every
  result under way which reports an end is true for good. From it follow `ConsoleIsTrue`
  (both sides agree, maintenance revisions are exact) and the steps `OwnerStep` and
  `FinalizeStep` (`OwnerDecides`).
- **DeskReadbackProofs**: `TurnsAreHeld`, `AlarmIsArmed`, `OneJobPerKey`. `DeskInv` adds
  what a handler relies on across its awaits, that a claim carries the time it expires,
  and that what is due while the handler is busy is covered by the alarm it was started
  for (`DueWhileBusy`, `ExpiryIsArmed`): with that an eviction loses nothing.
- **AccountProofs**, settings: `SettingsHold`, `SavedAsSeen`, `ApplicationsOnlyAdvance`.
  The commands compare revisions; that this protects contents is the heart of
  `SettingsInv`: whatever a request holds of a row is the row, or an earlier revision of
  it (`Seen`), so equal revisions mean equal contents; and an application names a revision
  its draft has had, with the approved content while the draft still has it.
- **AccountProofs**, research: `ResearchIsEarned`, `JobEndsOnce`. `ResearchInv` adds
  that a job exists only where the workflow is deployed and for a draft that needs one,
  that a page about to store a preview holds one that needed no computation there, that
  an answer under way belongs to the job it names, and that the page that posts a job is
  the only one that can.
- **AccountProofs**, diagnoses: `OneOpenTask`, `RecheckIsEarned`, `KnowledgeIsKept`.
  `DiagnosisInv` adds that a resolved task has the receipt of its result, that a receipt
  is only stored for a task marked as sent (so a dispatch mark that comes late changes
  nothing), that a recheck needs a receipt without a cancellation before it, and that of
  the handlers of one task only one can be about to send it or to ask for its recheck.
  One lemma (`TaskMoves`) says what a step of a handler must leave for all the others to
  stay sound; each action is then a case of it. `PassedNeedsNoAttention`, over all
  combinations of checks, is proved without any state.
- **PromotionApplicationProofs**, current strategies: `ConsoleHolds`, `ResumesHold`.
  `StrategyInv` says of every entry there is, in KV, in an isolate's memory and in a load on
  its way to KV, that it is the fallback or the resolution of readings each of which held at
  some time since the time the entry carries (`ReadSince`). That time is what the age limits
  compare, so what is shown without a reading error was in force within the limit. What an operator acts on may
  be older. `ResumeIsTrue` follows a resume through its handler: what it read is among what
  the account's variables held since it was asked for, so what passes the comparison was in
  force then (`ResumesHold`), though perhaps not any more when it is dispatched.
- **StoreProofs**, directory: `DirectoryHolds`, `DirectoryServes`, for any keys, page
  size, budget, callers and days. None of the four promises is inductive. `DirectoryInvariant`
  says the same of every manifest there is, the stored one, the adopted mirror and the one a
  command holds (`HoldsTrue`): every key up to its cursor is listed (`Frontier`), a complete
  one covers the namespace, and the call it is about to make is on the day's account already
  (`OnAccount`); that what a command holds has grown from what it found (`GoesOn`), since one
  command is at work at a time; and that a debt to the mirror is marked at every moment, not
  only between commands. A page carries the frontier to its last key because a page is an
  initial part of what is left (`PageIsNext`); that a finite set of keys has a last one is
  proved without an induction, from the pigeonhole theorem (`GreatestOf`).
- **StoreProofs**, what is published: `PublishedIsTrue`, `PublishedGoesForward`, with
  `PublishedInv` the conjunction of four. `EvInv`: every stored snapshot was accepted, is as
  old as the oldest report it includes, and its candidates are registered before it is
  stored; that the view shows nothing two sources claim, and the controller gets nothing
  that was not approved for the evidence of now, is then a matter of the operators
  (`ShownItem`, `CollectorsAgree`). `LedgerInv`: an envelope's aggregate is that of its
  artifact at the time it states, and a record is archived before it is current. `DailyInv`:
  one record a target and day, of which a strict one was accepted as the strict projector
  would have it, and a request holds a later reading than those it found; a record with a
  fingerprint was written under a binding of its account and source (`OwnerIsNamed`), which
  reading it under an equal fingerprint then names again. `AnsweredOnce`: evidence has one answer.
- **StoreProofs**, cycles: `SummaryIsHistory`, `CompleteIsCovered`, `WalkIsASnapshot`, the
  longest of these proofs. The code keeps three books of a target's faults, the log of
  attempts, a row per incident and a summary, and each command brings all three up to date
  from what it is given. `CycleInv` says that the rows and the summary tell what the log
  tells (`Told`: how many incidents and attempts, how many open, the worst of them and the
  latest), that a checkpoint's coverage was scanned (`Vouched`), also across a
  migration of the legacy record, which replays its attempts, and that a walk in progress has
  seen an initial part of the log as it was when the walk began (`WalkHolds`). That one report
  keeps the books (`RecordAttempt`), also when it resolves the incident or repeats one
  already entered, is proved once, of any log; a list of reports follows by taking the least
  index at which the books would be wrong, which stands in for the induction.
- **StoreProofs**, benchmarks, facts, returns and records: with the former `FactsAreTrue` and
  the step `NothingGoesBack`. `BenchInv` is `EveryCloseIsTraced` with what the jobs hold: a
  sync posts only days it has a close for, and a revision on its way is an approved one; the
  last row the ledger has of a day then tells its close (`CloseIsTold`). `FactsInv` adds to the
  latest day that there is one snapshot an account; that the total counts every portfolio
  once (`TotalOfInv`) is about the sums: of the accounts counted, exactly one stands for each
  identity, so the two sums range over sets in one-to-one correspondence (`SumsMatch`, by the
  least subset at which the sums would differ). `NativeInv`: one interval, one row a source
  and day, and an interval of a day is among the rows, whence the two readers agree
  (`ReadersOfInv`). `RecordsInv`: the windows stored overlap nowhere and a reference names
  one movement; merging keeps both.
- **SettingsProofs** and **GateProofs**, writers: `SpentOnce`, `ReportedIsSo`, `OthersStand`.
  `WriterInv` says that at most one job of the platform is at work, that a job's plan is
  what the request asks of the settings it read, with nothing in it of another account, and
  that a plan of the switch is the signed one from the verification on. A job that has read
  the repository and nobody interfered with since still holds it (`HalfFits`), so what it
  reports on is what stands at that moment, and settings which its plan would not change are
  those the consumer obeys (`TurnIsObeyed`, `ResumeIsObeyed`), in whichever of its two places
  an entry keeps the switch, at any layout of the two levels.
- **SettingsProofs** and **GateProofs**, switch: `LiveIsEarned`, `EntriesCohere`,
  `StepIsExact`. `TargetInv` is that the inventory is well kept (`WellKept`) and that what
  is published is earned. The lemmas follow an entry through the builder: which one a
  request selects, what patching it makes of its settings on either of its two places, and
  that every other entry stays; validation then earns what the builder does not.
- **GateProofs**, gates: `AdmissionIsCovered`, because a receipt stands for papers whose
  windows lie one in the other, whatever the clock does between two checks; and
  `TakenWithinLimits` with the step `Latched`: the exposures of the book stay what the
  limits allow because the projected sums are of the book that the request found. The sum
  over a finite set is taken apart by its members, which the library's facts on finite sets
  carry without an induction over data.
- **GateProofs**, reports: `AnnouncedOnce` with `VerdictEarned`, since a claim is kept by
  whoever dies after it, so a report goes out at most once for what was found; and
  `OneMessageADate`, `ConfirmedWasInTime`, `CompleteWasRead`, since the record of the date
  is created by one request and what that request relies on (`PostStands`) no other one
  can change.

Where a specification has several records of mixed types, the row sets (`Row`,
`NativeTask`, `HeldByHandler` and so on) are spelled out in the component's module, since
the provers need them; each CASE has disjoint arms, since a CASE with overlapping guards
promises no particular one of them.

Only model-checked, and why:

- liveness (`EveryJobEnds`): the prover has no fairness or ENABLED;
- `FiguresAreSound` (`RiskComposer`, `DigestIntake`): what a fold over a sequence computes
  for every input needs an induction the installed provers cannot instantiate;
- the four findings, whose properties are violated.

Every other property of a passing run is stated by a theorem. Where a fold was needed in a
proof it is written as a recursive function (`RecordAll`), of which a first-order argument
over the least bad index says enough.

No module uses a recursive operator.

## 5. Not modelled, abstracted, and the plan

Not modelled: account defaults and the administrator's configuration, the material of
promotion tickets, Binance account facts, the FX lookup, the React frontend and the
console's read models, catalogues, sessions, forward observation, the retired digest
sender of GitHub Actions (`docs/daily-digest-display-and-resend.md`), and the repository's
automation, schemas and evidence files. Signatures, TOTP and nonces are cryptographic
data; the models take their verdict from the environment.

Abstracted: one account, target, source or login wherever they do not share state
(research, cycle health, returns, flows, diagnoses, digests of one date, an enrolment's
account). A target keeps its scope and its id, so the refusal of facts stored for another one
(`account_facts_identity_mismatch`, `worker.js` 3373-3378) never happens. The chain of earlier activations and the promotion manifest (policy gate), the
plain notice of an audit that fails before its report, the choice of a representative
cycle, history series and gaps, horizon rules, audit entries of the lifecycle, publishers'
tokens and decisions from before the ledger (recovery) are left out; a digest's order, fill
and cycle counts are one; its sources are readable; a switch's two reads, of its inventory and of its plugin mounts, are one step; a
scheduler's syncs may come at any time. A publication of the recovery desk registers its
material before it stores its snapshot, as the code does.

What remains, in this order:

1. `RiskComposer` and `DigestIntake` with their folds as recursive functions over an index,
   as `RecordAll` is, and `FiguresAreSound` by the argument on the least bad index.
2. The material of promotion tickets and the chain of earlier activations, so that the
   eligibility a decision rests on is derived and not given.
3. Credential maintenance reminders and the account defaults, when they get a protocol.
