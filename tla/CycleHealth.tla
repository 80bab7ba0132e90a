----------------------------- MODULE CycleHealth -----------------------------
(* The runtime cycle health of one target, as the Durable Object keeps it    *)
(* (worker.js, the cycleHealth* methods).  An admission says which binding,  *)
(* which configuration and from which instant on the runtime has to be       *)
(* covered; observations report a scan of execution receipts; a checkpoint   *)
(* per binding remembers how far the scans reach without a gap and a summary *)
(* of every fault ever reported.  A command runs in one storage transaction: *)
(* a refused command leaves everything as it was.                            *)
(*                                                                           *)
(* The instants are 1 .. MaxTime; a scan [from, through] covers the segments *)
(* from .. through - 1.  A fault's category is its rank: 1 operational, 2    *)
(* execution uncertainty, 0 a receipt that is no fault.                      *)
EXTENDS Integers, Sequences, FiniteSets, SequencesExt

CONSTANTS CycleBindings,   \* binding fingerprints
          CycleConfigs,    \* configuration digests
          Receipts,        \* the cycle reports: [key, cycle, rank, at, missing]
          Scans,           \* the scans reported: [computed, from, through, ok]
          CycleLists,      \* the lists of reports that come with a scan
          MaxTime, MaxAuthority, MaxObservations, MaxFaults

ASSUME CycleAssumption ==
  /\ CycleLists \subseteq Seq(Receipts)
  /\ \A r \in Receipts : r.rank \in Nat /\ r.at \in Nat
  /\ Scans \subseteq [computed : Nat, from : Nat, through : Nat, ok : BOOLEAN]
  /\ MaxTime \in Nat \ {0, 1}

VARIABLES source,     \* the admitted source, or NoSource
          ckpt,       \* the checkpoint of each binding, or NoCheckpoint
          faultLog,   \* the attempts, in the order of their history_id
          incidents,  \* the incident of each binding and cycle
          walk,       \* one reader's walk over the history pages
          scanned     \* history: the segments completely scanned, by binding and configuration

cycleVars == <<source, ckpt, faultLog, incidents, walk, scanned>>

Cycles == {r.cycle : r \in Receipts}
NoSource == [revision |-> 0]
NoCheckpoint == [version |-> 0]
NoWalk == [binding |-> "none", through |-> 0, after |-> 0, seen |-> <<>>, open |-> FALSE]
NoIncident == [rank |-> 0, active |-> 0, latest |-> 0, count |-> 0]
NoObservation == [computed |-> 0, from |-> 0, through |-> 0, ok |-> FALSE]

EmptyCycleState == [incidents |-> 0, attempts |-> 0, unresolved |-> 0, severity |-> 0,
                    active |-> 0, latest |-> 0]

Larger(a, b) == IF a > b THEN a ELSE b

\* What a scan vouches for when its listing is complete.
Segments(o) == IF o.ok THEN o.from .. (o.through - 1) ELSE {}

-----------------------------------------------------------------------------
(* Observations *)

\* normalizeCycleHealth: the reports lie within the scan, the scan before the
\* instant it was computed at; one receipt has one content; a missing report
\* is only claimed by a complete scan that reaches back to the due instant.
WellFormed(o, cycles) ==
  /\ o.from <= o.through /\ o.through <= o.computed
  /\ \A r \in Range(cycles) : /\ r.at <= o.through
                              /\ r.missing => o.ok /\ o.from <= r.at
  /\ \A r, q \in Range(cycles) : r.key = q.key => r = q

\* One report entered into the log, the incident of its cycle and the summary.
\* A receipt once recorded as a fault may not be told differently.
RecordAttempt(b, acc, r, resolved) ==
  LET told  == {x \in Range(acc.log) : x.binding = b /\ x.receipt.key = r.key}
      prior == acc.incidents[b][r.cycle]
      active == IF resolved THEN prior.active ELSE Larger(r.rank, prior.active)
      s == acc.state
  IN CASE told # {} -> [acc EXCEPT !.conflict = @ \/ \E x \in told : x.receipt # r]
       [] told = {} /\ r.rank = 0 -> acc
       [] OTHER ->
          [conflict |-> acc.conflict,
           log |-> Append(acc.log, [binding |-> b, receipt |-> r, resolved |-> resolved]),
           incidents |-> [acc.incidents EXCEPT ![b][r.cycle] =
              [rank |-> Larger(r.rank, prior.rank), active |-> active,
               latest |-> Larger(r.at, prior.latest), count |-> prior.count + 1]],
           state |-> [incidents |-> s.incidents + (IF prior.rank = 0 THEN 1 ELSE 0),
                      attempts |-> s.attempts + 1,
                      unresolved |-> s.unresolved
                                     + (IF active # 0 /\ prior.active = 0 THEN 1 ELSE 0),
                      severity |-> Larger(r.rank, s.severity),
                      active |-> Larger(active, s.active),
                      latest |-> Larger(r.at, s.latest)]]

\* The reports of a list, entered one after the other.
RecordAll(b, books, reports) ==
  LET upTo[i \in 0 .. Len(reports)] ==
        IF i = 0 THEN books ELSE RecordAttempt(b, upTo[i - 1], reports[i].receipt, reports[i].resolved)
  IN  upTo[Len(reports)]
\* A list of receipts with those that were resolved.
Attempted(receipts, R) == [i \in DOMAIN receipts |-> [receipt |-> receipts[i], resolved |-> i \in R]]

Books(state) == [log |-> faultLog, incidents |-> incidents, state |-> state, conflict |-> FALSE]

-----------------------------------------------------------------------------
(* The migration of a checkpoint of the first version *)

\* The stored observation proves the coverage of a first-version checkpoint only
\* when both still belong to the current admission and the scan covers its start.
LegacyCoverageProven(b) ==
  /\ source.revision > 0 /\ source.binding = b /\ ckpt[b].baseline
  /\ ckpt[b].config = source.config /\ ckpt[b].required = source.required
  /\ source.observation # NoObservation
  /\ source.observation.ok
  /\ source.observation.from <= source.required
  /\ source.observation.through >= source.required

\* migrateCycleHealthCheckpoint: the attempts of a first-version row are entered
\* one by one, the resolved ones with their resolution.
MigratedBooks(b) ==
  IF ckpt[b].version = 1
  THEN RecordAll(b, Books(EmptyCycleState), ckpt[b].attempts)
  ELSE Books(IF ckpt[b].version = 2 THEN ckpt[b].state ELSE EmptyCycleState)

Migrated(b) ==
  IF ckpt[b].version # 1 THEN ckpt[b]
  ELSE [version |-> 2, revision |-> ckpt[b].revision, config |-> ckpt[b].config,
        required |-> ckpt[b].required, baseline |-> ckpt[b].baseline,
        covered |-> IF LegacyCoverageProven(b) THEN source.observation.through ELSE 0,
        complete |-> LegacyCoverageProven(b),
        state |-> MigratedBooks(b).state]

\* At most one row is of the first version (Init), so the books of one
\* migration are all there is to carry over.
Legacy == {b \in CycleBindings : ckpt[b].version = 1}
CarriedBooks(b) == IF Legacy = {} \/ b \in Legacy THEN MigratedBooks(b)
                   ELSE [MigratedBooks(CHOOSE l \in Legacy : TRUE)
                           EXCEPT !.state = MigratedBooks(b).state]

-----------------------------------------------------------------------------
(* Commands *)

SameAdmission(b, cfg, req) ==
  source.revision > 0 /\ source.binding = b /\ source.config = cfg /\ source.required = req

\* cycleHealthProvisionCommand.  The admission is replaced by the caller that
\* knows its revision; the start of the coverage may only move back; a binding
\* that was used before is not taken up again.  A repeated command is answered
\* "unchanged" and writes nothing.
Provision(b, cfg, req, expected) ==
  /\ source.revision < MaxAuthority
  /\ ~SameAdmission(b, cfg, req)
  /\ (source.revision = 0 \/ source.binding # b) => ckpt[b] = NoCheckpoint
  /\ expected = source.revision
  /\ source.revision > 0 => req <= source.required
  /\ source' = [revision |-> source.revision + 1, binding |-> b, config |-> cfg, required |-> req,
                observation |-> IF source.revision > 0 /\ source.binding = b
                                THEN source.observation ELSE NoObservation,
                checkpoint |-> IF source.revision > 0 /\ source.binding = b
                               THEN source.checkpoint ELSE 0]
  /\ UNCHANGED <<ckpt, faultLog, incidents, walk, scanned>>

\* The checkpoint was written under another admission than the current one.
Transition(k) ==
  k.version # 0 /\ (k.config # source.config \/ k.required # source.required)

\* Where the next scan has to take over.
ExpectedFrom(k) ==
  IF k.version # 0 /\ ~Transition(k) /\ k.covered # 0 THEN k.covered ELSE source.required


Continuous(o, k) ==
  o.ok /\ o.from <= ExpectedFrom(k) /\ o.through >= ExpectedFrom(k)

NextCheckpoint(o, k, state) ==
  LET goes == Continuous(o, k)
      kept == k.version # 0 /\ ~Transition(k)
  IN [version |-> 2,
      revision |-> (IF k.version = 0 THEN 0 ELSE k.revision) + 1,
      config |-> source.config, required |-> source.required,
      baseline |-> IF goes THEN ~kept \/ k.baseline \/ k.covered = 0 ELSE kept /\ k.baseline,
      covered |-> IF goes THEN o.through ELSE IF kept THEN k.covered ELSE 0,
      complete |-> goes,
      state |-> state]

\* cycleHealthCommand, cycle_health_put.  The command names the admission it
\* was made under (authority revision and configuration); an observation older
\* than the stored one, or a different one of the same instant, is refused.
Put(b, cfg, revision, o, cycles) ==
  LET k     == Migrated(b)
      books == RecordAll(b, CarriedBooks(b), Attempted(cycles, {}))
  IN /\ WellFormed(o, cycles)
     /\ source.revision > 0 /\ source.binding = b
     /\ revision = source.revision /\ cfg = source.config
     /\ k.version # 0 => k.revision = source.checkpoint
     /\ k.version # 0 => k.revision < MaxObservations
     /\ o.computed > source.observation.computed
     /\ ~books.conflict
     /\ Len(books.log) <= MaxFaults
     /\ source' = [source EXCEPT !.observation = o, !.checkpoint = NextCheckpoint(o, k, books.state).revision]
     /\ ckpt' = [x \in CycleBindings |-> IF x = b THEN NextCheckpoint(o, k, books.state) ELSE Migrated(x)]
     /\ faultLog' = books.log
     /\ incidents' = books.incidents
     /\ scanned' = [scanned EXCEPT ![b][cfg] = @ \cup Segments(o)]
     /\ UNCHANGED walk

\* cycleHealthHistoryPage: the first page fixes how far the walk goes, the
\* cursor carries it on; the cursor of another binding is refused.
HistoryPage(cursor, log) ==
  LET through == IF cursor.open THEN cursor.through ELSE Len(log)
      left == {i \in 1 .. Len(log) : i > cursor.after /\ i <= through}
  IN [binding |-> source.binding, through |-> through,
      after |-> IF left = {} THEN cursor.after ELSE Min(left),
      seen |-> IF left = {} THEN cursor.seen ELSE Append(cursor.seen, Min(left)),
      open |-> Cardinality(left) > 1]

\* cycle_health_read migrates what it finds and returns one page.  A walk that
\* is over starts again; one whose binding was replaced cannot go on.
Read(carryOn) ==
  /\ source.revision > 0
  /\ carryOn => walk.open /\ walk.binding = source.binding
  /\ \A b \in CycleBindings : b = source.binding /\ Migrated(b).version # 0
                              => Migrated(b).revision = source.checkpoint
  /\ ckpt' = [b \in CycleBindings |-> Migrated(b)]
  /\ faultLog' = CarriedBooks(source.binding).log
  /\ incidents' = CarriedBooks(source.binding).incidents
  /\ walk' = HistoryPage(IF carryOn THEN walk ELSE NoWalk, faultLog')
  /\ UNCHANGED <<source, scanned>>

\* The status a reader is given; old says that the stored observation is too
\* old, or from the future.
ReadStatus(old) ==
  LET k == ckpt[source.binding] IN
  CASE (\E b \in CycleBindings \ {source.binding} : ckpt[b].version # 0)
         \/ (k.version # 0 /\ k.state.unresolved > 0) -> "blocked"
    [] OTHER -> IF k.version # 0 /\ Transition(k) THEN "incomplete"
                ELSE IF old /\ source.observation # NoObservation THEN "stale"
                ELSE IF k.version = 0 THEN "uninitialized"
                ELSE IF k.baseline /\ k.complete THEN "complete" ELSE "incomplete"

-----------------------------------------------------------------------------
(* The start: nothing, or one target whose checkpoint is of the first version *)

\* The reports a scan may come with.
Listable == CycleLists
\* The attempts of a first-version row: a list of faults, each resolved or not.
LegacyAttempts ==
  {Attempted(l, R) :
     l \in {x \in Listable : \A i \in DOMAIN x : x[i].rank > 0}, R \in SUBSET (1 .. 2)}
LegacySource(b, c, o) ==
  [revision |-> 1, binding |-> b, config |-> c, required |-> MaxTime - 1,
   observation |-> o, checkpoint |-> 1]

CycleInit ==
  /\ faultLog = <<>>
  /\ incidents = [b \in CycleBindings |-> [c \in Cycles |-> NoIncident]]
  /\ walk = NoWalk
  /\ \/ /\ source = NoSource
        /\ ckpt = [b \in CycleBindings |-> NoCheckpoint]
        /\ scanned = [b \in CycleBindings |-> [c \in CycleConfigs |-> {}]]
     \/ \E b \in CycleBindings, c \in CycleConfigs, base \in BOOLEAN,
           o \in {x \in Scans : x.computed = MaxTime - 1} :
        \E s \in LegacyAttempts :
          /\ source = LegacySource(b, c, o)
          /\ ckpt = [x \in CycleBindings |-> IF x # b THEN NoCheckpoint ELSE
                      [version |-> 1, revision |-> 1, config |-> c, required |-> MaxTime - 1,
                       baseline |-> base, attempts |-> s]]
          /\ scanned = [x \in CycleBindings |-> [y \in CycleConfigs |->
                          IF x = b /\ y = c THEN Segments(o) ELSE {}]]

CycleNext ==
  \/ \E b \in CycleBindings, c \in CycleConfigs, req \in 1 .. (MaxTime - 1), e \in 0 .. MaxAuthority :
       Provision(b, c, req, e)
  \/ \E b \in CycleBindings, c \in CycleConfigs, e \in 1 .. MaxAuthority, o \in Scans, l \in Listable :
       Put(b, c, e, o, l)
  \/ \E carryOn \in BOOLEAN : Read(carryOn)

CycleSpec == CycleInit /\ [][CycleNext]_cycleVars

-----------------------------------------------------------------------------
(* Properties *)

FaultsOf(b) == {i \in DOMAIN faultLog : faultLog[i].binding = b}
OpenFaults(b) == {i \in FaultsOf(b) : ~faultLog[i].resolved}
CyclesIn(S) == {faultLog[i].receipt.cycle : i \in S}
MaxOf(S) == IF S = {} THEN 0 ELSE Max(S)

\* The running summary of a checkpoint, updated report by report and carried
\* through the migration, says what the log of attempts says: its counts of
\* incidents, attempts and unresolved cycles, its worst and its worst open
\* category and its latest fault.
SummaryIsHistory ==
  \A b \in CycleBindings : ckpt[b].version = 2 =>
    LET s == ckpt[b].state IN
    /\ s.incidents = Cardinality(CyclesIn(FaultsOf(b)))
    /\ s.attempts = Cardinality(FaultsOf(b))
    /\ s.unresolved = Cardinality(CyclesIn(OpenFaults(b)))
    /\ s.severity = MaxOf({faultLog[i].receipt.rank : i \in FaultsOf(b)})
    /\ s.active = MaxOf({faultLog[i].receipt.rank : i \in OpenFaults(b)})
    /\ s.latest = MaxOf({faultLog[i].receipt.at : i \in FaultsOf(b)})

\* A runtime reads "complete" only when no fault of any binding is open, no
\* other binding ever had a checkpoint, and every segment from the admitted
\* start to the point the checkpoint names was completely scanned under the
\* admitted binding and configuration.
CompleteIsCovered ==
  (source.revision > 0 /\ Legacy = {} /\ ReadStatus(FALSE) = "complete") =>
    LET k == ckpt[source.binding] IN
    /\ \A i \in DOMAIN faultLog : faultLog[i].resolved
    /\ k.covered >= source.required
    /\ source.required .. (k.covered - 1) \subseteq scanned[source.binding][source.config]

\* A reader that follows the cursors to the end has seen every attempt there
\* was when the walk began, once and in order, whatever was reported meanwhile.
WalkIsASnapshot ==
  ~walk.open => walk.seen = [i \in 1 .. walk.through |-> i]

=============================================================================
