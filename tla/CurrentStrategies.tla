-------------------------- MODULE CurrentStrategies --------------------------
(***************************************************************************)
(* What the console shows as the current strategy of an account (worker.js,*)
(* readCurrentStrategies and resolveCurrentStrategyForAccount): resolved   *)
(* from GitHub variables, kept in the memory of each Worker isolate and in *)
(* KV, refreshed in the background, and the resume that is requested for   *)
(* the configuration an operator saw.                                      *)
(*                                                                         *)
(* The refreshes that reach KV pass the cache command of kv_directory.js,  *)
(* whose two writes may fail one by one; before its release the Worker     *)
(* compared and wrote itself.  A signature is the content it is taken of,  *)
(* and a load reads all its levels in one step; a resume reads its level,  *)
(* compares and dispatches in steps of their own.                          *)
(***************************************************************************)
EXTENDS Integers, FiniteSets

CONSTANTS
  Isolates,   \* Worker isolates
  Loads,      \* loads that may be in flight together
  Failures,   \* how listing a level may fail: read_failed, permission_denied
  Sites,      \* a platform: its account options, what each level of variables may hold,
              \* and the levels whose listing may fail (a bound)
  MemoTtl, Bump, KvFresh, StaleTtl,   \* the ages of the code, in ticks
  MaxClock,   \* bound of the clock
  MaxEdits,   \* bound: changes of GitHub variables
  MaxSent,    \* bound: requests to resume
  Unset       \* absent

ASSUME StrategyNumbers ==
  /\ {MemoTtl, Bump, KvFresh, StaleTtl, MaxClock, MaxEdits, MaxSent} \subseteq Nat
  /\ MemoTtl <= Bump /\ Bump <= KvFresh /\ KvFresh <= StaleTtl
\* Every account reads the repository or one level of its own; a whole load that
\* timed out is a reading error as well.
ASSUME StrategySites ==
  \A s \in Sites : /\ "repository" \in DOMAIN s.levels
                   /\ \A a \in DOMAIN s.options : s.options[a].level \in DOMAIN s.levels
ASSUME StrategyFailures == "read_failed" \in Failures /\ Failures \cap {"ok", "config_missing", "confirmed"} = {}

VARIABLES
  site,      \* the platform
  clock,       \* the time
  github,    \* the variables, by level
  past,      \* what a level held before, and until when
  mem,       \* per isolate: _memCurrentStrategies and its time
  busy,      \* per isolate: _memRefreshing
  loads,     \* loads, and the cache commands they end in
  kv,        \* current_strategies_cache
  last,      \* CACHE_WRITE_KEY: the last recorded write
  resumes    \* requests to resume, from their first read to their dispatch
strategyVars == <<site, clock, github, past, mem, busy, loads, kv, last, resumes>>

Options == site.options
Accounts == DOMAIN Options
Receiver == site.receiver       \* who compares and writes: the object or the Worker
Levels == DOMAIN site.levels    \* the repository, and an environment

-----------------------------------------------------------------------------
(* Resolving an account.                                                   *)

\* runtimeTargetMatchesAccount: where both name a service it decides.
Matches(o, t) ==
  /\ t.platform \in {Unset, o.platform}
  /\ IF o.service # Unset /\ t.services # {} THEN o.service \in t.services
     ELSE \/ o.scope \in t.scopes
          \/ o.deployment \in t.deployments
          \/ o.selectors \cap t.selectors # {}
          \/ o.name \in t.scopes \cup t.deployments

\* runtimeTargetFromServiceTargets: exactly one entry, its own settings before env's
ServiceTarget(o, inventory) ==
  LET found == {e \in inventory : Matches(o, e)} IN
  IF Cardinality(found) = 1 THEN CHOOSE e \in found : TRUE ELSE Unset
SettingOf(e, name) == IF e.top[name] # Unset THEN e.top[name] ELSE e.env[name]

Blank == [source |-> "none", profile |-> Unset, mode |-> Unset, enabled |-> Unset, resume |-> Unset]
NoContent == [inventory |-> {}, target |-> Unset, profile |-> Unset, enabled |-> Unset, other |-> FALSE, recovery |-> FALSE]
\* fetchGithubVariables: a level that could not be read answers as if it held nothing.
LevelAnswers(level) ==
  {[status |-> "ok", content |-> github[level]]}
    \cup {[status |-> f, content |-> NoContent] : f \in IF level \in site.failing THEN Failures ELSE {}}
Held(read, level) == read[level].content

FromInventory(o, read) ==
  LET e == IF o.uses THEN ServiceTarget(o, Held(read, "repository").inventory) ELSE Unset
      own == SettingOf(e, "enabled")
      enabled == IF own # Unset THEN own ELSE Held(read, o.level).enabled
  IN  IF e = Unset THEN Blank
      ELSE IF e.profile = Unset /\ enabled = Unset /\ SettingOf(e, "other") = Unset THEN Blank
      ELSE [Blank EXCEPT !.source = "inventory", !.profile = e.profile, !.mode = e.mode, !.enabled = enabled]

\* binanceResumeTarget: the stopped, live, legacy target of exactly this account;
\* its digest is the target itself.
ResumeTarget(o, c) ==
  IF /\ c.enabled = "false" /\ c.recovery /\ c.inventory = {}
     /\ c.target # Unset /\ c.target.mode = "live" /\ c.target.legacy
     /\ c.target.services = {o.service} /\ c.profile \in {Unset, c.target.profile}
  THEN c.target ELSE Unset

FromVariables(o, c) ==
  LET t == c.target IN
  IF t # Unset /\ Matches(o, t) /\ t.profile # Unset
  THEN [source |-> "target", profile |-> t.profile, mode |-> t.mode, enabled |-> c.enabled,
        resume |-> IF o.platform = "binance" /\ o.level = "repository" THEN ResumeTarget(o, c) ELSE Unset]
  ELSE IF (o.level # "repository" \/ o.only) /\ c.profile # Unset
  THEN [Blank EXCEPT !.source = "profile", !.profile = c.profile, !.enabled = c.enabled,
                     !.mode = IF o.level # "repository" /\ o.name = "paper" THEN "paper" ELSE Unset]
  ELSE IF c.enabled # Unset \/ c.other THEN [Blank EXCEPT !.source = "variables", !.enabled = c.enabled]
  ELSE Blank

Resolve(o, read) ==
  LET row == FromInventory(o, read) IN
  IF row.source = "inventory" THEN row ELSE FromVariables(o, Held(read, o.level))

\* The levels a resolution reads; one that failed marks the row.
Touched(o, read) ==
  LET e == IF o.uses THEN ServiceTarget(o, Held(read, "repository").inventory) ELSE Unset IN
  (IF o.uses THEN {"repository"} ELSE {})
    \cup (IF e # Unset /\ SettingOf(e, "enabled") # Unset THEN {} ELSE {o.level})
StatusOf(o, read) ==
  LET failed == {read[level].status : level \in Touched(o, read)} \cap Failures IN
  IF failed = {} THEN "ok" ELSE CHOOSE f \in failed : TRUE

\* accountExecutionEvidence
Evidence(o, row, status) ==
  LET mode == IF row.source \in {"inventory", "target"} THEN row.mode ELSE Unset
      value == IF status # "ok" \/ o.broker = Unset \/ mode = Unset \/ (mode = "paper" /\ o.broker = "live")
               THEN "unknown"
               ELSE IF mode = "dry_run" THEN "dry_run"
               ELSE IF mode = "paper" \/ o.broker = "paper" THEN "paper" ELSE "live"
  IN  [value |-> value, status |-> IF status # "ok" THEN status
                                   ELSE IF value = "unknown" THEN "config_missing" ELSE "confirmed"]

RowOf(a, read) ==
  LET row == Resolve(Options[a], read)
  IN  [current |-> row, evidence |-> Evidence(Options[a], row, StatusOf(Options[a], read))]
RowsOf(read) == [a \in Accounts |-> RowOf(a, read)]
\* executionEvidenceFallback
Fallback == [a \in Accounts |-> [current |-> Blank, evidence |-> [value |-> "unknown", status |-> "read_failed"]]]
\* isDegradedCurrentStrategies
Degraded(rows) == \A a \in Accounts : rows[a].current = Blank /\ rows[a].evidence.status = "read_failed"

-----------------------------------------------------------------------------
(* Caches.                                                                 *)

Age(entry) == clock - entry.ts
\* What a request finds first: memory, then KV, each within its age.
FoundInMemory(i) == mem[i] # Unset /\ Age(mem[i]) < StaleTtl
FoundInKv(i) == ~FoundInMemory(i) /\ kv # Unset /\ Age(kv) < StaleTtl
Found(i) == IF FoundInMemory(i) THEN {mem[i]} ELSE IF FoundInKv(i) THEN {kv} ELSE {}
IsFresh(i) ==
  \/ FoundInMemory(i) /\ Age(mem[i]) < MemoTtl
  \/ FoundInKv(i) /\ Age(kv) < KvFresh /\ ~Degraded(kv.rows)

NoLoad == [pc |-> "idle", isolate |-> Unset, background |-> FALSE, entry |-> Unset]
Begun(i, background) == [NoLoad EXCEPT !.pc = "read", !.isolate = i, !.background = background]
Idle(l) == loads[l].pc = "idle"

\* What an isolate adopts from KV: the entry with its own time (mutated: the present).
AdoptedNow == [kv EXCEPT !.ts = clock]
Adopted == kv
\* readCurrentStrategies: a request of an isolate.  KV is adopted into an empty
\* memory with its own time; what is stale starts one refresh, and a complete miss
\* has to wait for a load.
Serve(i) ==
  /\ mem' = [mem EXCEPT ![i] = IF FoundInKv(i) /\ mem[i] = Unset THEN Adopted ELSE @]
  /\ \/ /\ Found(i) # {} /\ (IsFresh(i) \/ busy[i])
        /\ UNCHANGED <<loads, busy>>
     \/ /\ Found(i) # {} /\ ~IsFresh(i) /\ ~busy[i]
        /\ \E l \in Loads : Idle(l) /\ loads' = [loads EXCEPT ![l] = Begun(i, TRUE)]
        /\ busy' = [busy EXCEPT ![i] = TRUE]
     \/ /\ Found(i) = {}
        /\ \E l \in Loads : Idle(l) /\ loads' = [loads EXCEPT ![l] = Begun(i, FALSE)]
        /\ UNCHANGED busy
  /\ UNCHANGED <<site, clock, github, past, kv, last, resumes>>

\* loadCurrentStrategies: each level is listed once for all accounts, with its own
\* failure, unless the load times out as a whole.  The isolate takes the rows at its
\* own time and asks for the cache to be written.
Readings == {read \in [Levels -> UNION {LevelAnswers(level) : level \in Levels}] :
               \A level \in Levels : read[level] \in LevelAnswers(level)}
Load(l) ==
  /\ loads[l].pc = "read"
  /\ \E rows \in {RowsOf(read) : read \in Readings} \cup {Fallback} :
       LET entry == [rows |-> rows, ts |-> clock] IN
       /\ mem' = [mem EXCEPT ![loads[l].isolate] = entry]
       /\ loads' = [loads EXCEPT ![l] = [@ EXCEPT !.pc = "queued", !.entry = entry]]
  /\ UNCHANGED <<site, clock, github, past, busy, kv, last, resumes>>

Done(l) ==
  /\ loads' = [loads EXCEPT ![l] = NoLoad]
  /\ busy' = IF loads[l].background THEN [busy EXCEPT ![loads[l].isolate] = FALSE] ELSE busy

\* The object serializes its commands; the Worker's own writes overlap.
Queued(l) == Receiver = "object" => \A k \in Loads : loads[k].pc \notin {"write", "record"}
Previous == IF Receiver = "object" /\ last # Unset THEN last ELSE kv
Unchanged(previous, entry) ==
  /\ previous # Unset /\ previous.rows = entry.rows
  /\ Receiver = "object" => entry.ts >= previous.ts
  /\ entry.ts - previous.ts < Bump
Compare(l) ==
  /\ loads[l].pc = "queued" /\ Queued(l)
  /\ IF Unchanged(Previous, loads[l].entry)
     THEN Done(l) /\ last' = IF Receiver = "object" THEN Previous ELSE last
     ELSE loads' = [loads EXCEPT ![l].pc = "write"] /\ UNCHANGED <<busy, last>>
  /\ UNCHANGED <<site, clock, github, past, mem, kv, resumes>>
\* store.put of the cache, then storage.put of its record; either may fail.
WriteCache(l) ==
  /\ loads[l].pc = "write"
  /\ \/ /\ kv' = loads[l].entry
        /\ IF Receiver = "object" THEN loads' = [loads EXCEPT ![l].pc = "record"] /\ UNCHANGED busy ELSE Done(l)
     \/ Done(l) /\ UNCHANGED kv
  /\ UNCHANGED <<site, clock, github, past, mem, last, resumes>>
RecordWrite(l) ==
  /\ loads[l].pc = "record"
  /\ last' \in {last, loads[l].entry}
  /\ Done(l)
  /\ UNCHANGED <<site, clock, github, past, mem, kv, resumes>>

\* External: the runtime ends background work whose finally is never reached, or
\* drops an isolate.
Cancel(l) ==
  /\ loads[l].pc \in {"read", "queued"} /\ loads[l].background
  /\ loads' = [loads EXCEPT ![l] = NoLoad]
  /\ UNCHANGED <<site, clock, github, past, mem, busy, kv, last, resumes>>
Evict(i) ==
  /\ mem[i] # Unset
  /\ mem' = [mem EXCEPT ![i] = Unset] /\ busy' = [busy EXCEPT ![i] = FALSE]
  /\ loads' = [l \in Loads |-> IF loads[l].isolate # i THEN loads[l]
                             ELSE IF loads[l].pc \in {"read", "queued"} THEN NoLoad
                             ELSE [loads[l] EXCEPT !.background = FALSE]]
  /\ UNCHANGED <<site, clock, github, past, kv, last, resumes>>

-----------------------------------------------------------------------------
(* The resume of a stopped account (dispatchBinanceResume).                *)

\* An operator confirms the digest of a row the console shows.  held is a history
\* variable: what the account's level has held since.
AskResume(i, a) ==
  /\ Cardinality(resumes) < MaxSent
  /\ \E entry \in Found(i) :
       LET digest == entry.rows[a].current.resume IN
       /\ digest # Unset
       /\ resumes' = resumes \cup {[account |-> a, digest |-> digest, pc |-> "asked", read |-> Unset,
                                    held |-> {github[Options[a].level]}]}
  /\ UNCHANGED <<site, clock, github, past, mem, busy, loads, kv, last>>
\* The handler goes on with a request, or ends it with an error.
Becomes(r, next) ==
  /\ resumes' = (resumes \ {r}) \cup next
  /\ UNCHANGED <<site, clock, github, past, mem, busy, loads, kv, last>>
\* It reads the variables again, which may fail, compares what it read with what was
\* confirmed, and asks GitHub to start the workflow; a request that was refused or
\* got lost is not repeated.  The variables may change between any two of the steps.
ReadForResume(r) ==
  /\ r.pc = "asked"
  /\ \/ Becomes(r, {[r EXCEPT !.pc = "read", !.read = github[Options[r.account].level]]})
     \/ Becomes(r, {})
StillStandsUnread(r) == TRUE
StillStands(r) == ResumeTarget(Options[r.account], r.read) = r.digest
CompareResume(r) ==
  /\ r.pc = "read"
  /\ Becomes(r, IF StillStands(r) THEN {[r EXCEPT !.pc = "compared"]} ELSE {})
PostResume(r) ==
  /\ r.pc = "compared"
  /\ Becomes(r, {[r EXCEPT !.pc = "sent"]}) \/ Becomes(r, {})

\* External: GitHub variables change, also under a request that is under way.
Witnessed(r, level, content) ==
  IF Options[r.account].level = level /\ r.pc # "sent" THEN [r EXCEPT !.held = @ \cup {content}] ELSE r
Change(level, content) ==
  /\ github[level] # content /\ Cardinality(past) < MaxEdits
  /\ github' = [github EXCEPT ![level] = content]
  /\ past' = past \cup {<<level, github[level], clock>>}
  /\ resumes' = {Witnessed(r, level, content) : r \in resumes}
  /\ UNCHANGED <<site, clock, mem, busy, loads, kv, last>>
\* A load ends by its timeout, within the shortest age.
Pass ==
  /\ clock < MaxClock /\ \A l \in Loads : loads[l].pc # "read"
  /\ clock' = clock + 1
  /\ UNCHANGED <<site, github, past, mem, busy, loads, kv, last, resumes>>

StrategyInit ==
  /\ clock = 0 /\ site \in Sites
  /\ past = {} /\ github \in {g \in [Levels -> UNION {site.levels[v] : v \in Levels}] : \A v \in Levels : g[v] \in site.levels[v]}
  /\ mem = [i \in Isolates |-> Unset] /\ busy = [i \in Isolates |-> FALSE]
  /\ loads = [l \in Loads |-> NoLoad]
  /\ kv = Unset /\ last = Unset /\ resumes = {}
StrategyNext ==
  \/ \E i \in Isolates : Serve(i) \/ Evict(i) \/ \E a \in Accounts : AskResume(i, a)
  \/ \E l \in Loads : Load(l) \/ Compare(l) \/ WriteCache(l) \/ RecordWrite(l) \/ Cancel(l)
  \/ \E r \in resumes : ReadForResume(r) \/ CompareResume(r) \/ PostResume(r)
  \/ \E level \in Levels : \E content \in site.levels[level] : Change(level, content)
  \/ Pass

-----------------------------------------------------------------------------
(* Properties.                                                             *)

\* What a level held within the last StaleTtl.
Recently(level) ==
  {github[level]} \cup {p[2] : p \in {q \in past : q[1] = level /\ clock - q[3] < StaleTtl}}

\* Whatever memory, KV and refreshes do, and whichever write failed: a row that is
\* shown without a reading error is the resolution of settings that were in force
\* within the last hour, and of all the levels it depends on.
ShownWasTrue ==
  \A i \in Isolates : \A entry \in Found(i) : \A a \in Accounts :
    entry.rows[a].evidence.status \notin Failures =>
      \E repository \in Recently("repository"), own \in Recently(Options[a].level) :
          entry.rows[a].current = Resolve(Options[a], [level \in Levels |->
            [status |-> "ok", content |-> IF level = Options[a].level THEN own ELSE repository]])

\* No account is shown the strategy of a deployment that names another service.
ShownIsOwn ==
  \A i \in Isolates : \A entry \in Found(i) : \A a \in Accounts :
    LET row == entry.rows[a].current IN
    row.source \in {"inventory", "target"} /\ row.profile # Unset /\ Options[a].service # Unset =>
      \E level \in Levels : \E c \in Recently(level) :
        \E t \in c.inventory \cup ({c.target} \ {Unset}) :
          t.profile = row.profile /\ (Options[a].service \in t.services \/ t.services = {})

\* What a memory of an hour ago showed is not enough for a resume: a request that
\* reaches GitHub is for a stopped configuration of exactly that target which was in
\* force at some moment since the operator asked for it.  It need not be in force any
\* more when it is sent.
SentWasInForce ==
  \A r \in resumes : r.pc = "sent" =>
    \E c \in r.held : c.target = r.digest /\ c.enabled = "false" /\ c.inventory = {} /\ c.recovery
=============================================================================
