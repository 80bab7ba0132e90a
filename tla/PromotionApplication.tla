------------------------ MODULE PromotionApplication ------------------------
(***************************************************************************)
(* Paper applications of accepted research promotions: the application_*   *)
(* commands of RuntimeInstances (worker.js), the HTTP use cases in front   *)
(* of them (application/research_promotion/applications.js), and the       *)
(* GitHub workflow runs that claim an application and report its outcome.  *)
(* Decisions come from HumanDecision, with Kind = "promotion".             *)
(*                                                                         *)
(* Between the steps of a handler anything may happen.  What a handler has *)
(* read is kept in `creates` and `claims`, where it can be used late or    *)
(* twice; a handler or a run that dies simply takes no further step.       *)
(***************************************************************************)
EXTENDS HumanDecision

CONSTANTS
  Applications,  \* application ids (random UUIDs)
  Runs,          \* (workflow_run_id, workflow_run_attempt) pairs
  Profiles,      \* strategy profiles
  ProfileOf,     \* strategy_profile of a ticket
  Bindings,      \* broker_environment, account_selector, service_name
  Paper,         \* the one binding paper applications are qualified for
  NoRun, NoApplication

ASSUME ApplicationProfiles == ProfileOf \in [Subjects -> Profiles]
ASSUME ApplicationPaper == Paper \in Bindings
ASSUME ApplicationNulls == NoRun \notin Runs /\ NoApplication \notin Applications

VARIABLES
  account,  \* registry entry of every account the promotions may select
  creates,  \* application_create commands built by the POST handler
  apps,     \* research_promotion_applications
  handler,  \* where the POST handler of an application is
  runOf,    \* the application a workflow run was started for
  claims    \* runs whose claim has passed the handler's qualification

appVars == <<account, creates, apps, handler, runOf, claims>>
allVars == <<vars, appVars>>

Finished == {"applied_paused", "rejected", "uncertain"}

Account == [profile : Profiles, binding : Bindings, applied : BOOLEAN]
Create ==
  [ticket : Subjects, account : Targets, material : Materials, expected : Nat,
   profile : Profiles, binding : Bindings]
Application ==
  [ticket : Subjects, account : Targets, expected : Nat, profile : Profiles,
   binding : Bindings, status : {"approved", "claimed"} \cup Finished,
   dispatch : {"pending", "sent", "unknown"}, run : Runs \cup {NoRun}]

ASSUME ApplicationRows == NoRow \notin Application

AppTypeOK ==
  /\ TypeOK
  /\ account \in [Targets -> Account]
  /\ creates \subseteq Create
  /\ apps \in [Applications -> Application \cup {NoRow}]
  /\ handler \in [Applications -> {"idle", "dispatching", "answered", "failed"}]
  /\ runOf \in [Runs -> Applications \cup {NoApplication}]
  /\ claims \subseteq Runs

Exists(x) == apps[x] # NoRow

----------------------------------------------------------------------------
(* Decisions and registry changes *)

\* recordResearchPromotionDecisionResponse with nothing between its reads and
\* its promotion_decide: HumanDecision explores that gap, and a late command
\* commits only where an immediate one would (same revision, material still
\* current, eligible and undecided).
Decide(k, t, m, answer, a) ==
  /\ OpenForDecision(t, m)
  /\ WriteDecision([key |-> k, subject |-> t, material |-> m, action |-> answer,
                    target |-> a, preflight |-> revision])
  /\ UNCHANGED appVars

Publish ==
  /\ SyncPromotion
  /\ UNCHANGED appVars

\* A registry command of somebody else: set_broker_environment on account a
\* (the binding may change), or a command on another instance.  The strategy
\* profile of an existing account is not theirs to change: sync_defaults puts
\* the old default_strategy_profile back.
ChangeRegistry(a, binding) ==
  /\ ChangeInstances
  /\ account' = [account EXCEPT ![a].binding = binding]
  /\ UNCHANGED <<creates, apps, handler, runOf, claims>>

PassTime ==
  /\ Tick
  /\ UNCHANGED appVars

----------------------------------------------------------------------------
(* Creating an application *)

Accepted(t, m, a) == \E r \in Terminal(t, m) : r.action = "accept" /\ r.target = a

\* qualifyV7PaperApplication: all of it is read before the command it guards.
Qualified(t, a, expected) ==
  projection[t] # NoRow /\
    /\ projection[t].legacy # "blocked"
    /\ projection[t].eligible /\ ~Expired(projection[t])
    /\ Accepted(t, projection[t].material, a)
    /\ revision > 0 /\ revision = expected
    /\ account[a].binding = Paper

\* researchPromotionApplicationResponse, POST, up to the create command.
QualifyCreate(t, a) ==
  /\ Qualified(t, a, revision)
  /\ creates' = creates \cup
       {[ticket |-> t, account |-> a, material |-> projection[t].material,
         expected |-> revision, profile |-> account[a].profile,
         binding |-> account[a].binding]}
  /\ UNCHANGED <<vars, account, apps, handler, runOf, claims>>

\* What application_create checks itself before it looks for duplicates.
Creatable(c) ==
  projection[c.ticket] # NoRow /\
    /\ projection[c.ticket].legacy # "blocked"
    /\ projection[c.ticket].eligible
    /\ projection[c.ticket].material = c.material
    /\ \E r \in Terminal(c.ticket, c.material) :
         /\ r.action = "accept"
         /\ r.target = c.account
         /\ r.account_revision = revision
    /\ revision > 0 /\ revision = c.expected

NewApplication(c) ==
  [ticket |-> c.ticket, account |-> c.account, expected |-> c.expected,
   profile |-> c.profile, binding |-> c.binding, status |-> "approved",
   dispatch |-> "pending", run |-> NoRun]

SameTarget(x, c) == apps[x].ticket = c.ticket /\ apps[x].account = c.account

CreateApplicationUnlessApproved(x, c) ==
  /\ ~Exists(x)
  /\ Creatable(c)
  /\ ~ \E y \in Applications : Exists(y) /\ SameTarget(y, c)
                               /\ apps[y].status \in {"approved", "claimed"}
  /\ apps' = [apps EXCEPT ![x] = NewApplication(c)]
  /\ handler' = [handler EXCEPT ![x] = "dispatching"]
  /\ UNCHANGED <<vars, account, creates, runOf, claims>>

\* application_create under a fresh id.  An application of the same ticket and
\* account that was not rejected is returned instead, and nothing changes.
CreateApplication(x, c) ==
  /\ ~Exists(x)
  /\ Creatable(c)
  /\ ~ \E y \in Applications : Exists(y) /\ SameTarget(y, c) /\ apps[y].status # "rejected"
  /\ apps' = [apps EXCEPT ![x] = NewApplication(c)]
  /\ handler' = [handler EXCEPT ![x] = "dispatching"]
  /\ UNCHANGED <<vars, account, creates, runOf, claims>>

----------------------------------------------------------------------------
(* Dispatching it *)

\* dispatchV7PaperApplication, answered 2xx: GitHub starts a run.
DispatchAccepted(x, r) ==
  /\ handler[x] = "dispatching"
  /\ runOf[r] = NoApplication
  /\ runOf' = [runOf EXCEPT ![r] = x]
  /\ handler' = [handler EXCEPT ![x] = "answered"]
  /\ UNCHANGED <<vars, account, creates, apps, claims>>

\* ... answered with an error, or not in time: a run may have started anyway.
DispatchFailed(x) ==
  /\ handler[x] = "dispatching"
  /\ handler' = [handler EXCEPT ![x] = "failed"]
  /\ \/ UNCHANGED runOf
     \/ \E r \in Runs : runOf[r] = NoApplication /\ runOf' = [runOf EXCEPT ![r] = x]
  /\ UNCHANGED <<vars, account, creates, apps, claims>>

MarkDispatchAlwaysSent(x) ==
  /\ handler[x] \in {"answered", "failed"}
  /\ handler' = [handler EXCEPT ![x] = "idle"]
  /\ apps' = [apps EXCEPT ![x].dispatch = "sent"]
  /\ UNCHANGED <<vars, account, creates, runOf, claims>>

\* application_mark_dispatch: the handler records what it knows of the dispatch,
\* unless the application has moved on meanwhile.
MarkDispatch(x) ==
  /\ handler[x] \in {"answered", "failed"}
  /\ handler' = [handler EXCEPT ![x] = "idle"]
  /\ apps' = IF apps[x].status = "approved" /\ apps[x].dispatch = "pending"
             THEN [apps EXCEPT ![x].dispatch =
                                 IF handler[x] = "answered" THEN "sent" ELSE "unknown"]
             ELSE apps
  /\ UNCHANGED <<vars, account, creates, runOf, claims>>

\* GitHub re-runs a workflow: the same application id under another attempt.
Rerun(r, s) ==
  /\ runOf[r] # NoApplication
  /\ runOf[s] = NoApplication
  /\ runOf' = [runOf EXCEPT ![s] = runOf[r]]
  /\ UNCHANGED <<vars, account, creates, apps, handler, claims>>

----------------------------------------------------------------------------
(* Claiming it and reporting the outcome *)

\* researchPromotionApplicationInternalResponse, status "claimed": the handler
\* re-qualifies before it sends the claim.
QualifyClaim(r) ==
  /\ runOf[r] # NoApplication
  /\ LET a == apps[runOf[r]] IN Qualified(a.ticket, a.account, a.expected)
  /\ claims' = claims \cup {r}
  /\ UNCHANGED <<vars, account, creates, apps, handler, runOf>>

\* The comparison application_claim and application_result make in their own
\* transaction.
BindingMatches(a) ==
  /\ revision = a.expected
  /\ account[a.account].profile = a.profile
  /\ account[a.account].binding = a.binding

ClaimAgain(r) ==
  /\ r \in claims
  /\ LET x == runOf[r] IN
     /\ apps[x].status \in {"approved", "claimed"}
     /\ BindingMatches(apps[x])
     /\ apps' = [apps EXCEPT ![x].status = "claimed", ![x].run = r]
  /\ UNCHANGED <<vars, account, creates, handler, runOf, claims>>

\* application_claim, where it answers claimed: true.
Claim(r) ==
  /\ r \in claims
  /\ LET x == runOf[r] IN
     /\ apps[x].status = "approved"
     /\ BindingMatches(apps[x])
     /\ apps' = [apps EXCEPT ![x].status = "claimed", ![x].run = r]
  /\ UNCHANGED <<vars, account, creates, handler, runOf, claims>>

ReportOnAnyAccount(r, x, status) ==
  /\ apps' = [apps EXCEPT ![x].status = status]
  /\ IF status = "applied_paused"
     THEN /\ account' = [account EXCEPT ![apps[x].account].profile = ProfileOf[apps[x].ticket],
                                        ![apps[x].account].applied = TRUE]
          /\ revision' = revision + 1
     ELSE UNCHANGED <<account, revision>>

\* application_result for a claimed application reported by its own run: an
\* applied outcome is believed only while the account is still the one accepted.
Report(r, x, status) ==
  IF status = "applied_paused" /\ BindingMatches(apps[x])
  THEN /\ apps' = [apps EXCEPT ![x].status = status]
       /\ account' = [account EXCEPT ![apps[x].account].profile = ProfileOf[apps[x].ticket],
                                     ![apps[x].account].applied = TRUE]
       /\ revision' = revision + 1
  ELSE /\ apps' = [apps EXCEPT ![x].status =
                                 IF status = "rejected" THEN "rejected" ELSE "uncertain"]
       /\ UNCHANGED <<account, revision>>

\* researchPromotionApplicationInternalResponse, a result: a readback that does
\* not match the stored application turns "applied_paused" into "uncertain".
\* (A repeated result of a finished application changes nothing, and any other
\* run is refused.)
ReportResult(r, outcome, readbackMatches) ==
  /\ runOf[r] # NoApplication
  /\ LET x == runOf[r] IN
     /\ apps[x].status = "claimed" /\ apps[x].run = r
     /\ Report(r, x, IF outcome = "applied_paused" /\ ~readbackMatches THEN "uncertain"
                     ELSE outcome)
  /\ UNCHANGED <<source, projection, records, requests, now>>
  /\ UNCHANGED <<creates, handler, runOf, claims>>

----------------------------------------------------------------------------
AppInit ==
  /\ source = [s \in Subjects |-> [i \in Sources |-> NoRow]]
  /\ projection = [s \in Subjects |-> NoRow]
  /\ records = {}
  /\ revision = 1
  /\ requests = {}
  /\ now = 0
  /\ account \in [Targets -> {[profile |-> p, binding |-> Paper, applied |-> FALSE] :
                                p \in Profiles}]
  /\ creates = {}
  /\ apps = [x \in Applications |-> NoRow]
  /\ handler = [x \in Applications |-> "idle"]
  /\ runOf = [r \in Runs |-> NoApplication]
  /\ claims = {}

AppNext ==
  \/ Publish
  \/ \E k \in RequestIds, t \in Subjects, m \in Materials, n \in Answers, a \in Targets :
       Decide(k, t, m, n, a)
  \/ \E a \in Targets, b \in Bindings : ChangeRegistry(a, b)
  \/ PassTime
  \/ \E t \in Subjects, a \in Targets : QualifyCreate(t, a)
  \/ \E x \in Applications, c \in creates : CreateApplication(x, c)
  \/ \E x \in Applications, r \in Runs : DispatchAccepted(x, r)
  \/ \E x \in Applications : DispatchFailed(x) \/ MarkDispatch(x)
  \/ \E r, s \in Runs : Rerun(r, s)
  \/ \E r \in Runs : QualifyClaim(r) \/ Claim(r)
  \/ \E r \in Runs, o \in Finished, b \in BOOLEAN : ReportResult(r, o, b)

AppSpec == AppInit /\ [][AppNext]_allVars

----------------------------------------------------------------------------
(* Properties *)

\* "An uncertain outcome must never be treated as permission to submit another
\* application": for one ticket and account, every application but one has been
\* rejected, however creates, claims and results interleave.
OneOpenApplication ==
  \A x, y \in Applications :
    /\ x # y
    /\ Exists(x) /\ Exists(y)
    /\ apps[x].ticket = apps[y].ticket /\ apps[x].account = apps[y].account
    => "rejected" \in {apps[x].status, apps[y].status}

\* Two accepted tickets may both be claimed for one account, but at most one of
\* them takes effect per registry revision: the other is found out and recorded
\* as uncertain.
OneAppliedPerRevision ==
  \A x, y \in Applications :
    /\ x # y
    /\ Exists(x) /\ Exists(y)
    /\ apps[x].status = "applied_paused" /\ apps[y].status = "applied_paused"
    => apps[x].expected # apps[y].expected

\* A dispatch recorded as sent really started a run, and an application past
\* approval is held by a run that was started for it.
DispatchIsTrue ==
  \A x \in Applications : Exists(x) =>
    /\ apps[x].dispatch = "sent" => \E r \in Runs : runOf[r] = x
    /\ apps[x].status # "approved" => apps[x].run \in Runs /\ runOf[apps[x].run] = x

\* A finished application, and the run that holds a claimed one, never change:
\* re-runs, late claims and repeated or contradicting results are all refused.
OutcomeIsFinal ==
  [][\A x \in Applications : Exists(x) =>
       /\ apps[x].status \in Finished => apps'[x] = apps[x]
       /\ apps[x].run # NoRun => apps'[x].run = apps[x].run]_allVars

\* The consents and the effects of this module, seen as PromotionPromise.
Promise == INSTANCE PromotionPromise WITH
  Tickets <- Subjects, Accounts <- Targets,
  registryRevision <- revision,
  strategy <- [a \in Targets |-> account[a].profile],
  consents <- {<<r.subject, r.target, r.account_revision>> :
                 r \in {x \in records : x.action = "accept" /\ x.account_revision # NoRevision}}

\* Whatever happens in between, an account's strategy changes only on a consent
\* given for that ticket, that account and the current registry revision.
KeepsPromise == Promise!PromiseSpec
=============================================================================
