----------------------------- MODULE MCAccounts -----------------------------
(* Three independent parts of the Durable Object in one run of TLC: the      *)
(* settings of accounts (the HK account is imported, a second instance is    *)
(* created), research drafts with their jobs, and diagnoses.  They share no  *)
(* state, so a behaviour takes the steps of one part, and the run checks     *)
(* each part on the states it reaches alone.                                 *)
EXTENDS AccountSettings, Ux1Research, AccountDiagnosis, TLC

VARIABLE part

HkTarget == "hk" :> "t1"
Changes ==
  {[has |-> {"patch"}, patch |-> "strategy_profile" :> "p2", acknowledged |-> TRUE],
   [has |-> {"patch", "declaration", "risk"}, patch |-> "strategy_profile" :> None,
    acknowledged |-> FALSE, declaration |-> "cash", risk |-> "clear"]}
LegacyValid == {[state |-> "valid", bindings |-> "t1" :> "balanced"]}

Drafts == {[objective |-> "supported", case |-> "supported"],
           [objective |-> "supported", case |-> "unsupported"]}
Deployed(mode, n) == [mode |-> mode, epoch |-> n, ues |-> n, evidence |-> n]
Configs == {Deployed("local", 1), Deployed("github_actions", 1), Deployed("github_actions", 2)}
RawResults ==
  {r \in RawResult : r.frozen /\ r.shaped /\ r.gain /\ ~r.claimsNone /\ ~r.real /\ ~r.stated
                     /\ r.status \in {"ok", "failed"}}

Interchangeable ==
  Permutations(Handler) \cup Permutations(Page) \cup Permutations(Request) \cup Permutations(Run)

\* A bound of the run: the first task was answered in time, and its handlers are
\* done, when a second one comes (a handler reads and writes its own task only).
OneTaskAtATime ==
  /\ \A g, h \in Handler : work[g] # Nil /\ work[h] # Nil => work[g].task = work[h].task
  /\ \A t, u \in Task : t < u /\ tasks[u] # Nil => ~expired[t]

\* A bound of the run: where a profile is approved no risk preference is changed (an
\* approval and its claim neither read nor write them, but for their import).
RiskOrApproval ==
  (\E r \in Request : applications'[r] # None) /\ authority' # None => authority'.revision = 0

EachInit ==
  /\ SettingsInit /\ Ux1Init /\ DiagnosisInit
  /\ part \in {"settings", "research", "diagnosis"}
  /\ part # "research" => config = Deployed("local", 1)

EachNext ==
  /\ UNCHANGED part
  /\ \/ part = "settings" /\ SettingsNext /\ RiskOrApproval /\ UNCHANGED <<ux1Vars, diagnosisVars>>
     \/ part = "research" /\ Ux1Next /\ UNCHANGED <<settingsVars, diagnosisVars>>
     \/ part = "diagnosis" /\ DiagnosisNext /\ OneTaskAtATime' /\ UNCHANGED <<settingsVars, ux1Vars>>

Each == EachInit /\ [][EachNext]_<<settingsVars, ux1Vars, diagnosisVars, part>>

\* What holds in every state of research and of diagnoses.
WorkHolds == ResearchIsEarned /\ OneOpenTask /\ RecheckIsEarned

\* What no step of research or of a diagnosis does.
WorkMovesOn == JobEndsOnce /\ KnowledgeIsKept

\* What no step of the settings does.
SettingsMoveOn == SavedAsSeen /\ ApplicationsOnlyAdvance
=============================================================================
