-------------------------- MODULE SettingsWriters --------------------------
(***************************************************************************)
(* The writers of one platform's GitHub settings (runtime_settings.py, the *)
(* resume scripts, promotion_ledger.py and the job of the strategy switch  *)
(* they run in): stopping, enabling and resuming a target, changing the    *)
(* profile of a disabled one, and applying a signed switch.                *)
(*                                                                         *)
(* The workflows of one platform share a concurrency group, so at most one *)
(* of them runs; an administrator, and a caller of the profile primitive,  *)
(* may write between any two steps.  A write may take effect although its  *)
(* response is lost, and a job may die anywhere.  The requests are for the *)
(* account Own.  A digest is the content it is taken of.                   *)
(***************************************************************************)
EXTENDS Integers, Sequences, SequencesExt, FiniteSets

CONSTANTS
  WriterJobs,    \* runs of the writers
  Own,           \* the account the requests name
  Profiles,      \* strategy profiles
  Layouts,       \* settings to begin with: a platform, a scope, its variables
  SingleUseIds,  \* ids of promotion manifests
  RunResults,    \* how a platform run may end
  MaxEdits,      \* bound: edits by an administrator
  MaxPolls,      \* attempts to read a platform run's result
  Absent

\* The variables of one level; an entry of an inventory holds its switch beside or
\* within env.
Levels == {"repository", "environment"}
VariableNames == {"inventory", "target", "profile", "enabled", "service"}
BookEntries == [profile : Profiles, top : {"true", "false", Absent}, env : {"true", "false", Absent}]
IsBook(b) == b \in [DOMAIN b -> BookEntries] /\ Absent \notin [DOMAIN b -> BookEntries]
Typed(l) ==
  /\ l.site \in [platform : {"ibkr", "schwab", "longbridge", "binance", "firstrade"}, scope : Levels]
  /\ l.gh = [level \in Levels |-> l.gh[level]]
  /\ \A level \in Levels :
       /\ l.gh[level] = [n \in VariableNames |-> l.gh[level][n]]
       /\ l.gh[level].inventory # Absent => IsBook(l.gh[level].inventory)
ASSUME WriterAssumption ==
  /\ MaxEdits \in Nat /\ MaxPolls \in Nat \ {0}
  /\ Absent \notin {"true", "false"} /\ Absent # Own
  /\ \A l \in Layouts : Typed(l)

VARIABLES
  site,    \* the platform and the scope of its target's variables
  gh,      \* the variables, by level and name
  jobs,    \* the runs of the writers
  ledger,  \* consumed ids, each with the job that consumed it
  signed,  \* the configuration each manifest so far is signed for
  runs,    \* platform runs the jobs have dispatched
  edits    \* how often an administrator has written
writerVars == <<site, gh, jobs, ledger, signed, runs, edits>>

\* half: the variables of the repository, while the environment is still to be read.
\* clean: nobody else is known to have written since the job began to read what it
\* compares or confirms (a write whose answer failed does not count, which makes the
\* properties the stronger); a history variable.
NoJob == [kind |-> "none", pc |-> "idle", half |-> Absent, read |-> Absent, plan |-> <<>>, asked |-> Absent,
         clean |-> FALSE, at |-> 0, known |-> FALSE, outcome |-> "none"]
AdoptKinds == {"enable", "disable"}
Grouped == {"stop", "hk stop", "resume", "switch"} \cup AdoptKinds
Working(j) == jobs[j].pc \notin {"idle", "done"}
NoLevel == [n \in DOMAIN gh["repository"] |-> Absent]

-----------------------------------------------------------------------------
(* What a job reads and what it plans to write.                            *)

\* read_stop_variables: all variables of one level, every page of them.
LevelOf(g, level) == g[level]
\* Both levels of a target with an environment; of another one there is only the first.
ReadOf(g) == [repository |-> LevelOf(g, "repository"),
              environment |-> IF site.scope = "environment" THEN LevelOf(g, "environment") ELSE NoLevel]
\* The job reads the repository, and then the environment.
TwoReads(j) == site.scope = "environment" /\ jobs[j].kind \in {"stop", "hk stop", "profile"} \cup AdoptKinds
HasRead(j) == TwoReads(j) => jobs[j].half # Absent
ReadBy(j) == IF TwoReads(j) THEN [ReadOf(gh) EXCEPT !.repository = jobs[j].half] ELSE ReadOf(gh)
Merged(r) == [n \in DOMAIN r.repository |->
                IF r.environment[n] # Absent THEN r.environment[n] ELSE r.repository[n]]

\* The request names the target that is there: its inventory entry, and the
\* environment's own target where a consumer prefers that one.
TargetIsOwn(e) ==
  IF e.inventory # Absent
  THEN /\ Own \in DOMAIN e.inventory
       /\ e.service = Own /\ e.target # Absent => e.target.account = Own
  ELSE /\ e.target # Absent
       /\ e.target.account = Own
       /\ e.service \in {Absent, Own}

\* IBKR's entry may hold the switch beside or within env; the place in effect is
\* written.  The other platforms prefer the entry's own.
Turned(entry, on) ==
  IF site.platform = "ibkr" /\ entry.top = Absent /\ entry.env # Absent
  THEN [entry EXCEPT !.env = on] ELSE [entry EXCEPT !.top = on]

Put(level, name, value) == [level |-> level, name |-> name, value |-> value]
PutAll(g, plan) == FoldLeft(LAMBDA h, w : [h EXCEPT ![w.level][w.name] = w.value], g, plan)

\* The switch beside the target counts where there is no inventory, and for a named
\* service of longbridge.
SwitchCounts(r) ==
  LET e == Merged(r) IN
  e.inventory = Absent \/ (site.platform = "longbridge" /\ e.service = Own /\ e.enabled # Absent)
\* build_stop_assignments: one setting, found in the merged view; an inventory
\* is written at the level it was found at.
EnabledPlan(r, on) ==
  LET e == Merged(r) IN
  IF SwitchCounts(r)
  THEN <<Put(site.scope, "enabled", on)>>
  ELSE <<Put(IF r.environment.inventory # Absent THEN "environment" ELSE "repository", "inventory",
             [e.inventory EXCEPT ![Own] = Turned(@, on)])>>

\* validate_source of the resume scripts: a stopped, live legacy target that is
\* the one the request's digest was taken of.
Resumable(level, profile) ==
  /\ level.inventory = Absent /\ TargetIsOwn(level)
  /\ level.enabled = "false"
  /\ level.target.profile = profile
  /\ level.target.continuity \in {"RECONCILE_ONLY", "ACTIVE_LKG"}
  /\ level.profile \in {Absent, profile}

\* _disabled_profile_expected_variables: the target is disabled and holds exactly
\* the old target and profile.
Disabled(r) == Merged(r).enabled = "false"
HoldsProfile(r, target) == r[site.scope].target = target /\ r[site.scope].profile = target.profile

Retargeted(profile) == [account |-> Own, profile |-> profile, continuity |-> "none"]
ProfilePlan(profile) ==
  <<Put(site.scope, "target", Retargeted(profile)), Put(site.scope, "profile", profile)>>

\* build_assignments for a switch: the target and its profile, and the inventory
\* with its entry patched; IBKR's inventory stays where the workflow read it.
FetchedAt == IF site.platform = "ibkr" THEN site.scope ELSE "repository"
SwitchPlan(g, profile) ==
  LET inventory == g[FetchedAt].inventory IN
  ProfilePlan(profile) \o
    IF inventory = Absent THEN <<>>
    ELSE <<Put(FetchedAt, "inventory", [inventory EXCEPT ![Own] = [@ EXCEPT !.profile = profile]])>>

-----------------------------------------------------------------------------
(* The steps of a job.                                                     *)

RestStands == UNCHANGED <<site, ledger, signed, runs, edits>>
Moves(j, job) == jobs' = [jobs EXCEPT ![j] = job]
EndsAs(j, outcome) ==
  Moves(j, [NoJob EXCEPT !.kind = jobs[j].kind, !.pc = "done", !.outcome = outcome,
                        !.known = jobs[j].known, !.asked = jobs[j].asked])

\* Errors of a control request after its checks say that nothing is known.
Failed(j) == EndsAs(j, IF jobs[j].kind \in AdoptKinds THEN "unknown" ELSE "not verified")

\* The workflow starts when its group is free; the profile primitive is in none.
StartWriter(j, kind, asked) ==
  /\ jobs[j].pc = "idle"
  /\ kind \in Grouped => \A i \in WriterJobs : jobs[i].kind \in Grouped => ~Working(i)
  /\ kind = "enable" => site.platform \in {"ibkr", "schwab"}
  /\ kind = "hk stop" => site.platform = "longbridge" /\ site.scope = "environment"
  /\ kind = "resume" => <<site.platform, site.scope>> \in {<<"longbridge", "environment">>, <<"binance", "repository">>}
  /\ Moves(j, [NoJob EXCEPT !.kind = kind, !.asked = asked,
                           !.pc = IF kind \in AdoptKinds THEN "preflight"
                                  ELSE IF kind = "switch" THEN "fetch" ELSE "read"])
  /\ RestStands /\ UNCHANGED gh

\* runtime_control_workflow_preflight, before any setting is written
Preflight(j) ==
  /\ jobs[j].pc = "preflight"
  /\ \/ site.platform \in {"ibkr", "schwab"} /\ Moves(j, [jobs[j] EXCEPT !.pc = "read"])
     \/ EndsAs(j, "rejected")
  /\ RestStands /\ UNCHANGED gh

\* read_stop_variables of the repository, where the environment is read next
ReadRepository(j) ==
  /\ jobs[j].pc \in {"read", "compare", "read back"} /\ ~HasRead(j)
  /\ Moves(j, [jobs[j] EXCEPT !.half = LevelOf(gh, "repository"), !.clean = TRUE])
  /\ RestStands /\ UNCHANGED gh

Planned(j, plan, r) ==
  Moves(j, [jobs[j] EXCEPT !.pc = "compare", !.half = Absent, !.read = r, !.plan = plan])

\* execute_stop, up to its plan
PlanEnabled(j) ==
  /\ jobs[j].pc = "read" /\ jobs[j].kind \in {"stop", "hk stop"} \cup AdoptKinds /\ HasRead(j)
  /\ LET r == ReadBy(j) IN
     IF TargetIsOwn(Merged(r))
     THEN Planned(j, EnabledPlan(r, IF jobs[j].kind = "enable" THEN "true" ELSE "false"), r)
     ELSE Failed(j)
  /\ RestStands /\ UNCHANGED gh

\* execute_resume, up to its plan
PlanResume(j) ==
  /\ jobs[j].pc = "read" /\ jobs[j].kind = "resume"
  /\ IF Resumable(gh[site.scope], jobs[j].asked)
     THEN Planned(j, <<Put(site.scope, "enabled", "true")>>, ReadBy(j))
     ELSE Failed(j)
  /\ RestStands /\ UNCHANGED gh

\* apply_disabled_strategy_profile_change, up to its writes: asked for from the
\* profile in jobs[j].asked[1] to the one in [2].
PlanProfile(j) ==
  /\ jobs[j].pc = "read" /\ jobs[j].kind = "profile" /\ HasRead(j)
  /\ LET r == ReadBy(j)  old == jobs[j].asked[1]  new == jobs[j].asked[2] IN
     IF ~Disabled(r) THEN Failed(j)
     ELSE IF HoldsProfile(r, Retargeted(new)) THEN EndsAs(j, "updated")
     ELSE IF HoldsProfile(r, Retargeted(old)) THEN Planned(j, ProfilePlan(new), r)
     ELSE Failed(j)
  /\ RestStands /\ UNCHANGED gh

\* The switch fetches the inventory and builds its target; the manifest must be
\* signed for exactly that configuration, and be unexpired.
FetchAndBuild(j) ==
  /\ jobs[j].pc = "fetch"
  /\ Moves(j, [jobs[j] EXCEPT !.pc = "verify", !.clean = TRUE,
                              !.plan = SwitchPlan(gh, jobs[j].asked.profile)])
  /\ RestStands /\ UNCHANGED gh
VerifyManifest(j) ==
  /\ jobs[j].pc = "verify"
  /\ LET id == jobs[j].asked.id IN
     IF id \in DOMAIN signed /\ signed[id].fresh /\ signed[id].plan = jobs[j].plan
     THEN Moves(j, [jobs[j] EXCEPT !.pc = "consume"]) ELSE Failed(j)
  /\ RestStands /\ UNCHANGED gh

\* consume: the tag is created if it is absent; a job whose creation or readback
\* is unverified has burnt the id and goes no further.
MayConsume(j) == ~\E c \in ledger : c[1] = jobs[j].asked.id
Consume(j) ==
  /\ jobs[j].pc = "consume"
  /\ IF MayConsume(j)
     THEN /\ ledger' = ledger \cup {<<jobs[j].asked.id, j>>}
          /\ Failed(j) \/ Moves(j, [jobs[j] EXCEPT !.pc = "write", !.read = gh])
     ELSE Failed(j) /\ UNCHANGED ledger
  /\ UNCHANGED <<site, signed, runs, edits, gh>>

\* What follows a confirmed save.
Saved(j) ==
  LET next(pc) == [jobs[j] EXCEPT !.pc = pc, !.at = 0, !.half = Absent, !.read = Absent, !.plan = <<>>]
  IN  CASE jobs[j].kind \in AdoptKinds -> Moves(j, next("dispatch"))
        [] jobs[j].kind = "hk stop" -> Moves(j, next("dispatch hk"))
        [] jobs[j].kind \in {"stop", "resume"} -> EndsAs(j, "configured")
        [] jobs[j].kind = "profile" -> EndsAs(j, "updated")
        [] OTHER -> EndsAs(j, "switched")

\* Never overwrite a source that changed after planning; a setting that has its
\* value already is not written.
SourceStands(j) ==
  IF jobs[j].kind = "resume" THEN gh[site.scope] = jobs[j].read[site.scope] ELSE ReadBy(j) = jobs[j].read
Needless(j) == PutAll(jobs[j].read, jobs[j].plan) = jobs[j].read
CompareSource(j) ==
  /\ jobs[j].pc = "compare" /\ HasRead(j)
  /\ IF ~SourceStands(j) THEN Failed(j)
     ELSE IF Needless(j) THEN Saved(j)
     ELSE Moves(j, [jobs[j] EXCEPT !.pc = "write", !.half = Absent, !.clean = TwoReads(j) => @])
  /\ RestStands /\ UNCHANGED gh

\* The next variable of the plan.  A call that failed may have written; a profile
\* write that failed is read back all the same.
Stained(j, job) == [i \in WriterJobs |-> IF i = j THEN job ELSE [jobs[i] EXCEPT !.clean = FALSE]]
AfterWrite(job) ==
  [job EXCEPT !.at = @ + 1, !.pc = IF job.at + 1 = Len(job.plan) THEN "read back" ELSE "write"]
AfterFailure(j) ==
  IF jobs[j].kind = "profile" THEN Moves(j, [jobs[j] EXCEPT !.pc = "unread"]) ELSE Failed(j)
WriteNext(j) ==
  /\ jobs[j].pc = "write"
  /\ LET w == jobs[j].plan[jobs[j].at + 1]
         written == [gh EXCEPT ![w.level][w.name] = w.value]
     IN  \/ gh' = written /\ jobs' = Stained(j, AfterWrite(jobs[j]))
         \/ gh' \in {gh, written} /\ AfterFailure(j)
  /\ RestStands

\* The readback; what was not confirmed is never retried or rolled back.  A switch
\* verifies its own variables, the others that nothing else changed.
MatchesPlan(j) ==
  LET expected == PutAll(jobs[j].read, jobs[j].plan) IN
  CASE jobs[j].kind = "switch" -> \A i \in DOMAIN jobs[j].plan :
                                    LET w == jobs[j].plan[i] IN gh[w.level][w.name] = w.value
    [] jobs[j].kind = "resume" -> gh[site.scope] = expected[site.scope]
    [] OTHER -> ReadBy(j) = expected
ReadSettingsBack(j) ==
  /\ jobs[j].pc = "read back" /\ HasRead(j)
  /\ IF MatchesPlan(j) THEN Saved(j) ELSE IF jobs[j].kind = "profile" THEN EndsAs(j, "unknown") ELSE Failed(j)
  /\ RestStands /\ UNCHANGED gh
ReadUnknown(j) == jobs[j].pc = "unread" /\ EndsAs(j, "unknown") /\ RestStands /\ UNCHANGED gh

-----------------------------------------------------------------------------
(* The platform.                                                           *)

RunOf(j, result) == [job |-> j, attempt |-> 1, result |-> result]

\* dispatch_hk_stop: only over a saved stop
DispatchHk(j) ==
  /\ jobs[j].pc = "dispatch hk"
  /\ IF gh["environment"].enabled = "false"
     THEN \/ runs' = runs \cup {RunOf(j, Absent)} /\ (EndsAs(j, "configured") \/ Failed(j))
          \/ Failed(j) /\ UNCHANGED runs
     ELSE Failed(j) /\ UNCHANGED runs
  /\ UNCHANGED <<site, gh, ledger, signed, edits>>

\* dispatch_runtime_control: sent once; a response without a run id is unknown
DispatchControl(j) ==
  /\ jobs[j].pc = "dispatch"
  /\ LET polling == [jobs[j] EXCEPT !.pc = "poll"] IN
     \/ /\ runs' = runs \cup {RunOf(j, Absent)}
        /\ \E known \in BOOLEAN : Moves(j, [polling EXCEPT !.known = known])
     \/ EndsAs(j, "partial") /\ UNCHANGED runs
     \/ Moves(j, polling) /\ UNCHANGED runs
  /\ UNCHANGED <<site, gh, ledger, signed, edits>>

\* validate_runtime_control_receipt: only a matching receipt proves adoption
ValidatedReceipt(receipt, operation) ==
  LET continuities == IF site.platform = "ibkr" THEN {"ACTIVE_LKG", "ROLLBACK_LKG"} ELSE {"ACTIVE_LKG"}
      serves == receipt.status = "applied" /\ receipt.serving
      continues == operation # "enable" \/ receipt.continuity \in continuities
  IN  CASE receipt.status # "applied" -> receipt.status
        [] serves /\ ~continues ->
             IF receipt.continuity \in {"PAUSED", "RECONCILE_ONLY"} THEN "protected" ELSE "unknown"
        [] serves /\ continues ->
             IF ~receipt.scheduled /\ (site.platform = "ibkr" \/ operation = "enable") THEN "partial" ELSE "applied"
        [] OTHER -> "unknown"

\* read_runtime_control_result: the first attempt of exactly this run, completed,
\* with one artifact.  One reviewed failure is known to precede any adoption.
ResultOf(r, operation) ==
  IF r.attempt # 1 \/ r.result = Absent THEN "unknown"
  ELSE LET status == IF r.result.artifact THEN ValidatedReceipt(r.result, operation) ELSE "unknown"
       IN  IF status = "unknown" /\ r.result.reviewed /\ site.platform = "ibkr" /\ operation = "enable"
           THEN "rejected" ELSE status

\* recover_runtime_control_run: by the exact title of a first attempt
FoundRuns(j) == {r \in runs : r.job = j /\ (jobs[j].known \/ r.attempt = 1)}

\* One round of command_runtime_control's loop
PollRun(j) ==
  /\ jobs[j].pc = "poll"
  /\ LET known == jobs[j].known \/ FoundRuns(j) # {}
         outcomes == {ResultOf(r, jobs[j].kind) : r \in FoundRuns(j)} \ {"unknown"}
         last == jobs[j].at + 1 = MaxPolls
     IN  IF outcomes # {} THEN \E outcome \in outcomes : EndsAs(j, outcome)
         ELSE IF last THEN EndsAs(j, "unknown")
         ELSE Moves(j, [jobs[j] EXCEPT !.at = @ + 1, !.known = known])
  /\ RestStands /\ UNCHANGED gh

\* command_runtime_control_readback: the run kept for an undecided request
CheckAgain(j) ==
  /\ jobs[j].pc = "done" /\ jobs[j].kind \in AdoptKinds /\ jobs[j].outcome = "unknown" /\ jobs[j].known
  /\ \E r \in runs :
       /\ r.job = j
       /\ EndsAs(j, ResultOf(r, jobs[j].kind))
  /\ RestStands /\ UNCHANGED gh

\* External: a run ends, or is started again by hand.
RunEnds(r) ==
  /\ r \in runs /\ r.result = Absent
  /\ \E result \in RunResults : runs' = (runs \ {r}) \cup {[r EXCEPT !.result = result]}
  /\ UNCHANGED <<site, gh, jobs, ledger, signed, edits>>
RunAgain(r) ==
  /\ r \in runs /\ r.result # Absent /\ r.attempt = 1
  /\ runs' = (runs \ {r}) \cup {[r EXCEPT !.attempt = 2, !.result = Absent]}
  /\ UNCHANGED <<site, gh, jobs, ledger, signed, edits>>

\* External: an owner previews a switch and signs it; a manifest may expire, which
\* matters until it is consumed.
Sign(id, profile) ==
  /\ id \notin DOMAIN signed
  /\ signed' = [i \in DOMAIN signed \cup {id} |->
                  IF i = id THEN [plan |-> SwitchPlan(gh, profile), fresh |-> TRUE] ELSE signed[i]]
  /\ UNCHANGED <<site, gh, jobs, ledger, runs, edits>>
Lapse(id) ==
  /\ id \in DOMAIN signed /\ signed[id].fresh /\ \A c \in ledger : c[1] # id
  /\ signed' = [signed EXCEPT ![id].fresh = FALSE]
  /\ UNCHANGED <<site, gh, jobs, ledger, runs, edits>>

\* External: an administrator turns accounts on or off, while a job works.
Toggled(on) == IF on = "false" THEN "true" ELSE "false"
AccountsToggled(book, accounts) ==
  [a \in DOMAIN book |-> IF a \in accounts THEN [book[a] EXCEPT !.top = Toggled(@)] ELSE book[a]]
Edited(level, name) ==
  IF name = "enabled" THEN {Toggled(gh[level].enabled)}
  ELSE LET book == gh[level].inventory IN
       {AccountsToggled(book, accounts) : accounts \in {DOMAIN book, DOMAIN book \ {Own}}}
Edit(level, name) ==
  /\ edits < MaxEdits /\ (\E j \in WriterJobs : Working(j))
  /\ gh[level][name] # Absent
  /\ \E value \in Edited(level, name) : gh' = [gh EXCEPT ![level][name] = value]
  /\ edits' = edits + 1
  /\ jobs' = [i \in WriterJobs |-> [jobs[i] EXCEPT !.clean = FALSE]]
  /\ UNCHANGED <<site, ledger, signed, runs>>

\* A runner is lost.
Die(j) == Working(j) /\ EndsAs(j, "none") /\ RestStands /\ UNCHANGED gh

WriterInit ==
  /\ \E l \in Layouts : site = l.site /\ gh = l.gh
  /\ jobs = [j \in WriterJobs |-> NoJob]
  /\ ledger = {} /\ signed = [id \in {} |-> Absent] /\ runs = {} /\ edits = 0

Steps(j) ==
  \/ Preflight(j) \/ ReadRepository(j) \/ PlanEnabled(j) \/ PlanResume(j) \/ PlanProfile(j)
  \/ FetchAndBuild(j) \/ VerifyManifest(j) \/ Consume(j)
  \/ CompareSource(j) \/ WriteNext(j) \/ ReadSettingsBack(j) \/ ReadUnknown(j)
  \/ DispatchHk(j) \/ DispatchControl(j) \/ PollRun(j) \/ CheckAgain(j) \/ Die(j)
Starts(j) ==
  \/ \E kind \in {"stop", "hk stop"} \cup AdoptKinds : StartWriter(j, kind, Absent)
  \/ \E p \in Profiles : StartWriter(j, "resume", p)
  \/ \E p, q \in Profiles : p # q /\ StartWriter(j, "profile", <<p, q>>)
  \/ \E id \in SingleUseIds, p \in Profiles : StartWriter(j, "switch", [id |-> id, profile |-> p])
WriterNext ==
  \/ \E j \in WriterJobs : Starts(j) \/ Steps(j)
  \/ \E r \in runs : RunEnds(r) \/ RunAgain(r)
  \/ \E id \in SingleUseIds : Lapse(id) \/ \E p \in Profiles : Sign(id, p)
  \/ \E level \in DOMAIN gh, name \in {"enabled", "inventory"} : Edit(level, name)

-----------------------------------------------------------------------------
(* Properties.                                                             *)

\* A signature is spent once: no two runs consume one id, a switch writes nothing
\* it was not signed for, and no request sends two runs to the platform.
SpentOnce ==
  /\ \A c, d \in ledger : c[1] = d[1] => c = d
  /\ \A j \in WriterJobs :
       jobs[j].kind = "switch" /\ jobs[j].pc \in {"write", "read back"} =>
         /\ <<jobs[j].asked.id, j>> \in ledger
         /\ signed[jobs[j].asked.id].plan = jobs[j].plan
  /\ \A r, s \in runs : r.job = s.job => r = s

\* The setting the consumer of the account's service obeys.
ObeyedBy(g) ==
  LET e == Merged(g) IN
  IF SwitchCounts(g) THEN e.enabled
  ELSE LET entry == e.inventory[Own] IN
       IF site.platform = "ibkr" /\ entry.top = Absent THEN entry.env ELSE entry.top

\* What a writer reports is so: a stop it calls configured, or an adoption it sends to
\* the platform, is obeyed at that moment, unless somebody has written while it read
\* the two levels; a resume has its switch on, and is obeyed where that one counts; and
\* what was adopted is read from the first attempt of the job's own run, over the
\* revision it serves.
Reports(j) == /\ jobs'[j].outcome = "configured" \/ jobs'[j].pc = "dispatch"
              /\ jobs'[j] # jobs[j] /\ jobs[j].pc \in {"compare", "read back"}
ReportedIsSo ==
  \A j \in WriterJobs :
    /\ jobs[j].kind \in {"stop", "hk stop"} \cup AdoptKinds /\ Reports(j) /\ (TwoReads(j) => jobs[j].clean) =>
         ObeyedBy(ReadOf(gh)) = IF jobs[j].kind = "enable" THEN "true" ELSE "false"
    /\ jobs[j].kind = "resume" /\ Reports(j) =>
         /\ gh[site.scope].enabled = "true"
         /\ SwitchCounts(ReadOf(gh)) => ObeyedBy(ReadOf(gh)) = "true"
    /\ jobs'[j].outcome = "applied" /\ jobs[j].outcome # "applied" =>
         \E r \in runs : r.job = j /\ r.attempt = 1 /\ r.result # Absent /\ r.result.serving

\* The settings of the other accounts, wherever they are kept.
Others(g) == [level \in DOMAIN g |->
  IF g[level].inventory = Absent THEN Absent
  ELSE [a \in DOMAIN g[level].inventory \ {Own} |-> g[level].inventory[a]]]
\* A job nobody interfered with since it compared or fetched its source changes
\* no other account, whatever happened before.
OthersStand ==
  \A j \in WriterJobs :
    jobs[j].pc = "write" /\ jobs[j].clean /\ <<jobs'[j].pc, jobs'[j].at>> # <<"write", jobs[j].at>> =>
      Others(gh') = Others(gh)
=============================================================================
