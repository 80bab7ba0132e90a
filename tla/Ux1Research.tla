---------------------------- MODULE Ux1Research ----------------------------
(***************************************************************************)
(* Research drafts of the console: one slot per login holds the draft, its *)
(* preview, the owner's intent and the research job that computes the      *)
(* preview in another repository.  Slots are independent, so one login's   *)
(* slot is modelled, with several requests of its pages, the runs of the   *)
(* research workflow and deployments that change the configuration.        *)
(***************************************************************************)
EXTENDS Naturals, FiniteSets

CONSTANTS
  Tab,          \* requests of the login's pages in progress
  Draft,        \* [objective, case]: each "none", "supported" or "unsupported"
  Config,       \* [mode, epoch, ues, evidence]: what a deployment binds; the mode,
                \* UX1_PREVIEW_MODE, is "local", "github_actions" or "rejected"
  Raw,          \* the answers of the calculator, out of RawResult
  Attempt,      \* run attempts of the research workflow
  MaxRevision, MaxJob,   \* bounds on the slot's revisions and on its jobs
  Nothing

VARIABLES
  slot,      \* [revision, draft, preview, intent, job]: ux1_research_slot
  config,    \* the deployed configuration
  tabs,      \* [Tab -> Nothing or what the request holds]
  answers,   \* [Attempt -> Nothing or the result a run is about to save]
  github     \* [1..MaxJob -> number of dispatches sent]: runs may exist for those

ux1Vars == <<slot, config, tabs, answers, github>>

Jobs == 1..MaxJob

----------------------------------------------------------------------------
(* The contract: drafts are classified before anything is computed.  A     *)
(* draft and its fingerprint are one value here: the fingerprint is the    *)
(* digest of the normalised draft.                                         *)

Classify(draft) ==
  LET given == {draft.objective, draft.case}
  IN CASE "none" \in given -> "missing_input"
       [] "none" \notin given /\ "unsupported" \in given -> "unsupported_scope"
       [] OTHER -> "calculate"

(* What a calculator can answer, as far as the projection looks at it.     *)
RawResult ==
  [status : {"ok", "unsupported_scope", "missing_input", "failed", "other"},
   frozen : BOOLEAN,      \* the flags, the fingerprint, the settings and the study are the request's
   shaped : BOOLEAN,      \* keys, dates, numbers and sums are as they must be
   stated : BOOLEAN, real : BOOLEAN, \* the stated and the actual "no trade"
   gain : BOOLEAN,        \* some action scores better than the previous one
   claimsNone : BOOLEAN,  \* no_advantage
   evidence : {c.evidence : c \in Config}]

Rejected == [status |-> "rejected"]

Projected(raw, draft) ==
  IF \/ ~raw.frozen \/ raw.status \in {"failed", "other"}
     \/ /\ raw.status = "ok"
        /\ ~raw.shaped \/ raw.stated # raw.real \/ raw.claimsNone = raw.gain
    THEN Rejected
    ELSE [draft |-> draft,
          status |-> CASE raw.status # "ok" -> raw.status
                       [] raw.status = "ok" /\ ~raw.gain -> "no_advantage"
                       [] raw.status = "ok" /\ raw.gain /\ raw.real -> "no_action"
                       [] OTHER -> "computed",
          evidence |-> IF raw.status = "ok" THEN raw.evidence ELSE Nothing]

Computed == {"computed", "no_advantage", "no_action"}

Projections(draft) == {Projected(raw, draft) : raw \in Raw}
ProjectionsOf == [d \in Draft |-> Projections(d)]

IntentAllowed(preview) ==
  preview # Nothing /\ preview.status \in Computed \cup {"unsupported_scope"}

EvidenceMatches(preview, evidence) ==
  IF preview.evidence = Nothing THEN preview.status \notin Computed
                            ELSE preview.evidence = evidence

PreviewBindingStale(preview, c) ==
  /\ preview # Nothing
  /\ \/ preview.epoch # c.epoch
     \/ preview.evidence # Nothing /\ ~EvidenceMatches(preview, c.evidence)

----------------------------------------------------------------------------
(* Jobs.                                                                    *)

Blocks(job) == job # Nothing /\ job.status \in {"queued", "running", "unknown"}

JobConfigStale(job, c) == job # Nothing /\ job.config # c

TerminalJobConfigStale(job, c) == job # Nothing /\ ~Blocks(job) /\ JobConfigStale(job, c)

SameSlot(job) == slot.revision = job.revision /\ slot.draft = job.draft

SameSucceededBinding(job, held) ==
  /\ job # Nothing /\ job.status = "succeeded"
  /\ SameSlot(job)
  /\ job.revision = held.revision /\ job.draft = held.draft
  /\ job.config = held.config

----------------------------------------------------------------------------
(* What the slot, a page's request and a run may hold.                      *)

Evidence == {c.evidence : c \in Config}
Epochs == {c.epoch : c \in Config}
PreviewStatus == Computed \cup {"missing_input", "unsupported_scope"}

Projection == [draft : Draft, status : PreviewStatus, evidence : Evidence \cup {Nothing}]
Preview == [draft : Draft, status : PreviewStatus, evidence : Evidence \cup {Nothing}, epoch : Epochs]
IntentReceipt == [revision : Nat, draft : Draft]
Job ==
  [id : Jobs, status : {"queued", "running", "unknown", "failed", "succeeded"},
   dispatch : {"pending", "dispatched", "rejected", "unknown"}, revision : Nat, draft : Draft,
   config : Config, run : Attempt \cup {Nothing}, result : Projection \cup {Rejected, Nothing}]
Slot ==
  [revision : Nat, draft : Draft \cup {Nothing}, preview : Preview \cup {Nothing},
   intent : IntentReceipt \cup {Nothing}, job : Job \cup {Nothing}]
HeldByPage ==
  [at : {"store", "begin", "calculate", "post", "dispatched", "rejected", "unknown", "intent"},
   revision : Nat, draft : Draft, config : Config, preview : Preview \cup {Nothing},
   job : Jobs \cup {Nothing}]
Answer ==
  [job : Jobs, error : BOOLEAN, preview : Preview \cup {Nothing},
   result : Projection \cup {Rejected}]

\* What is deployed states a mode, and a calculator answers in the form it is read in.
ASSUME Ux1Inputs ==
  /\ MaxJob \in Nat \ {0} /\ MaxRevision \in Nat
  /\ \A c \in Config : c.mode \in {"local", "github_actions", "rejected"}
  /\ Raw \subseteq RawResult

\* Nothing is told from whatever is there.
ASSUME Ux1Nulls ==
  /\ Nothing \notin Draft /\ Nothing \notin Attempt /\ Nothing \notin Jobs
  /\ Nothing \notin Preview /\ Nothing \notin IntentReceipt /\ Nothing \notin Job
  /\ Nothing \notin HeldByPage /\ Nothing \notin Answer

----------------------------------------------------------------------------
Ux1Init ==
  /\ slot = [revision |-> 0, draft |-> Nothing, preview |-> Nothing, intent |-> Nothing, job |-> Nothing]
  /\ config \in Config
  /\ tabs = [t \in Tab |-> Nothing]
  /\ answers = [a \in Attempt |-> Nothing]
  /\ github = [j \in Jobs |-> 0]

Done(t) == tabs' = [tabs EXCEPT ![t] = Nothing]

(* ux1_save: the page sends the revision it has seen; another one is       *)
(* refused, and the same draft again changes nothing.                      *)
SaveDraft(draft) ==
  /\ slot.revision < MaxRevision
  /\ draft # slot.draft
  /\ slot' = [revision |-> slot.revision + 1, draft |-> draft, preview |-> Nothing, intent |-> Nothing,
              job |-> slot.job]
  /\ UNCHANGED <<config, tabs, answers, github>>

LocalPreview(c) ==
  [draft |-> slot.draft, status |-> Classify(slot.draft), evidence |-> Nothing, epoch |-> c.epoch]

(* POST /api/ux1/preview reads the slot and chooses how the preview comes  *)
(* about; the request keeps the slot and the configuration it started with.*)
ReadForPreview(t) ==
  /\ tabs[t] = Nothing /\ slot.revision > 0
  /\ ~Blocks(slot.job)
  /\ config.mode # "rejected"
  /\ LET local == Classify(slot.draft) # "calculate"
     IN tabs' = [tabs EXCEPT ![t] =
          [at |-> CASE local -> "store"
                    [] ~local /\ config.mode = "github_actions" -> "begin"
                    [] OTHER -> "calculate",
           revision |-> slot.revision, draft |-> slot.draft, config |-> config,
           preview |-> IF local THEN LocalPreview(config) ELSE Nothing, job |-> Nothing]]
  /\ UNCHANGED <<slot, config, answers, github>>

HeldSlot(held) == slot.revision = held.revision /\ slot.draft = held.draft

(* ux1_clear_preview: only for the slot the request has read.              *)
ClearPreview(held) ==
  slot' = IF HeldSlot(held) THEN [slot EXCEPT !.preview = Nothing] ELSE slot

(* How an exchange with the calculator or with GitHub can go: it reaches    *)
(* the other side or not, and its answer is whole, in time and of a size    *)
(* that is read, or there is none.                                          *)
Exchange == [arrives : BOOLEAN, whole : BOOLEAN, status : {200, 404, 429, 500}, busy : BOOLEAN]

CalculatorOutcome(e) ==
  CASE e.arrives /\ e.whole /\ e.status = 200 -> "answered"
    [] e.arrives /\ e.whole /\ e.status = 429 /\ e.busy -> "busy"
    [] OTHER -> "failed"

DispatchOutcome(e) ==
  CASE e.arrives /\ e.whole /\ e.status = 200 -> "dispatched"
    [] e.arrives /\ e.whole /\ e.status \in 400..499 -> "rejected"
    [] OTHER -> "unknown"

CalculatorOutcomes == {CalculatorOutcome(e) : e \in Exchange}
DispatchOutcomes == {[sent |-> e.arrives, answer |-> DispatchOutcome(e)] : e \in Exchange}

(* The calculator of the local mode: a busy one leaves everything, any     *)
(* other failure and a rejected result clear the stored preview.           *)
Calculate(t) ==
  /\ tabs[t] # Nothing /\ tabs[t].at = "calculate"
  /\ \/ "busy" \in CalculatorOutcomes /\ Done(t) /\ UNCHANGED slot
     \/ "failed" \in CalculatorOutcomes /\ Done(t) /\ ClearPreview(tabs[t])
     \/ \E p \in ProjectionsOf[tabs[t].draft] \ {Rejected} :
          /\ EvidenceMatches(p, tabs[t].config.evidence)
          /\ tabs' = [tabs EXCEPT ![t].at = "store",
                         ![t].preview = [draft |-> p.draft, status |-> p.status,
                                         evidence |-> p.evidence, epoch |-> tabs[t].config.epoch]]
          /\ UNCHANGED slot
  /\ UNCHANGED <<config, answers, github>>

(* ux1_store_preview.                                                      *)
StorePreview(t) ==
  /\ tabs[t] # Nothing /\ tabs[t].at = "store"
  /\ slot' = IF HeldSlot(tabs[t]) THEN [slot EXCEPT !.preview = tabs[t].preview] ELSE slot
  /\ Done(t)
  /\ UNCHANGED <<config, answers, github>>

(* A deployment without the job's configuration or without a token for     *)
(* GitHub answers "not connected" and clears the preview.                  *)
NotConnected(t) ==
  /\ tabs[t] # Nothing /\ tabs[t].at = "begin"
  /\ ClearPreview(tabs[t]) /\ Done(t)
  /\ UNCHANGED <<config, answers, github>>

NewJob(held) ==
  [id |-> IF slot.job = Nothing THEN 1 ELSE slot.job.id + 1, status |-> "queued", dispatch |-> "pending",
   revision |-> slot.revision, draft |-> slot.draft, config |-> held.config, run |-> Nothing, result |-> Nothing]

MayBeginOverOpenJob(held) ==
  ~SameSucceededBinding(slot.job, held) /\ HeldSlot(held)

MayBegin(held) ==
  /\ ~Blocks(slot.job)
  /\ ~SameSucceededBinding(slot.job, held)
  /\ HeldSlot(held)

(* ux1_begin_job: a job that is open, or that has succeeded with the same  *)
(* binding, is answered instead of a new one; whoever creates it posts it. *)
BeginJob(t) ==
  /\ tabs[t] # Nothing /\ tabs[t].at = "begin"
  /\ IF MayBegin(tabs[t])
       THEN /\ slot.job # Nothing => slot.job.id < MaxJob
            /\ slot' = [slot EXCEPT !.job = NewJob(tabs[t]), !.preview = Nothing, !.intent = Nothing]
            /\ tabs' = [tabs EXCEPT ![t].at = "post", ![t].job = NewJob(tabs[t]).id]
       ELSE UNCHANGED slot /\ Done(t)
  /\ UNCHANGED <<config, answers, github>>

(* The dispatch, and the answer the request makes of it: a lost answer is  *)
(* "unknown".                                                              *)
PostJob(t) ==
  /\ tabs[t] # Nothing /\ tabs[t].at = "post"
  /\ \E o \in DispatchOutcomes :
       /\ github' = [github EXCEPT ![tabs[t].job] = @ + IF o.sent /\ o.answer # "rejected" THEN 1 ELSE 0]
       /\ tabs' = [tabs EXCEPT ![t].at = o.answer]
  /\ UNCHANGED <<slot, config, answers>>

Recorded(job, answer) ==
  [job EXCEPT !.dispatch = answer,
              !.status = CASE @ = "queued" /\ answer = "rejected" -> "failed"
                           [] @ = "queued" /\ answer = "unknown" -> "unknown"
                           [] OTHER -> @]

(* ux1_record_dispatch.                                                    *)
RecordDispatch(t) ==
  /\ tabs[t] # Nothing /\ tabs[t].at \in {"dispatched", "rejected", "unknown"}
  /\ slot' = IF slot.job.id = tabs[t].job /\ slot.job.dispatch = "pending"
               THEN [slot EXCEPT !.job = Recorded(@, tabs[t].at)] ELSE slot
  /\ Done(t)
  /\ UNCHANGED <<config, answers, github>>

(* POST /api/ux1/intent: the checks on the slot it reads, then             *)
(* ux1_save_intent, which keeps the receipt that is there.                 *)
ReadForIntent(t) ==
  /\ tabs[t] = Nothing /\ slot.revision > 0
  /\ ~Blocks(slot.job)
  /\ ~PreviewBindingStale(slot.preview, config)
  /\ ~TerminalJobConfigStale(slot.job, config)
  /\ IntentAllowed(slot.preview) /\ slot.preview.draft = slot.draft
  /\ tabs' = [tabs EXCEPT ![t] =
       [at |-> "intent", revision |-> slot.revision, draft |-> slot.draft, config |-> config,
        preview |-> Nothing, job |-> Nothing]]
  /\ UNCHANGED <<slot, config, answers, github>>

SaveIntent(t) ==
  /\ tabs[t] # Nothing /\ tabs[t].at = "intent"
  /\ slot' = IF HeldSlot(tabs[t]) /\ slot.preview # Nothing
               THEN [slot EXCEPT !.intent = [revision |-> slot.revision, draft |-> slot.draft]] ELSE slot
  /\ Done(t)
  /\ UNCHANGED <<config, answers, github>>

RequestDies(t) == tabs[t] # Nothing /\ Done(t) /\ UNCHANGED <<slot, config, answers, github>>

(* A deployment changes the bindings and keeps the mode. *)
Deploy(c) ==
  c # config /\ c.mode = config.mode /\ config' = c /\ UNCHANGED <<slot, tabs, answers, github>>

----------------------------------------------------------------------------
(* The workflow's side.  A run carries the id of its job in its title, so  *)
(* only a job that was dispatched has runs; a repeated run is another      *)
(* attempt.                                                                *)

(* POST /api/ux1/jobs/claim.                                               *)
ClaimJob(a) ==
  /\ slot.job # Nothing /\ github[slot.job.id] > 0
  /\ slot.job.run = Nothing /\ slot.job.status \in {"queued", "unknown"}
  /\ slot' = [slot EXCEPT !.job.status = "running", !.job.run = a]
  /\ UNCHANGED <<config, tabs, answers, github>>

(* POST /api/ux1/jobs/result looks the job up and projects the result; the *)
(* preview is kept only while the job's binding is the deployed one.       *)
ReadForResult(a) ==
  /\ answers[a] = Nothing /\ slot.job # Nothing /\ slot.job.run = a
  /\ \E p \in {Rejected} \cup {q \in ProjectionsOf[slot.job.draft] :
                               q # Rejected /\ q.evidence = slot.job.config.evidence} :
       answers' = [answers EXCEPT ![a] =
         [job |-> slot.job.id, error |-> p = Rejected,
          preview |-> IF p = Rejected \/ JobConfigStale(slot.job, config) THEN Nothing
                      ELSE [draft |-> p.draft, status |-> p.status, evidence |-> p.evidence,
                            epoch |-> slot.job.config.epoch],
          result |-> p]]
  /\ UNCHANGED <<slot, config, tabs, github>>

Finished(job, r) ==
  [job EXCEPT !.status = IF r.error THEN "failed" ELSE "succeeded", !.result = r.result]

(* ux1_finish_job: the first result ends the job; its preview goes to the  *)
(* slot only when the slot still has the job's revision and draft.         *)
FinishJob(a) ==
  /\ answers[a] # Nothing
  /\ answers' = [answers EXCEPT ![a] = Nothing]
  /\ LET r == answers[a]
     IN slot' = IF \/ slot.job.id # r.job \/ slot.job.run # a
                   \/ slot.job.result # Nothing \/ slot.job.status # "running"
                  THEN slot
                  ELSE [slot EXCEPT !.job = Finished(@, r),
                          !.preview = CASE SameSlot(slot.job) /\ r.error -> Nothing
                                        [] SameSlot(slot.job) /\ ~r.error /\ r.preview # Nothing -> r.preview
                                        [] OTHER -> @,
                          !.intent = IF SameSlot(slot.job) /\ r.error THEN Nothing ELSE @]
  /\ UNCHANGED <<config, tabs, github>>

Ux1Next ==
  \/ \E d \in Draft : SaveDraft(d)
  \/ \E t \in Tab : \/ ReadForPreview(t) \/ Calculate(t) \/ StorePreview(t) \/ NotConnected(t)
                     \/ BeginJob(t) \/ PostJob(t) \/ RecordDispatch(t)
                     \/ ReadForIntent(t) \/ SaveIntent(t) \/ RequestDies(t)
  \/ \E c \in Config : Deploy(c)
  \/ \E a \in Attempt : ClaimJob(a) \/ ReadForResult(a) \/ FinishJob(a)

Ux1Spec == Ux1Init /\ [][Ux1Next]_ux1Vars

----------------------------------------------------------------------------
(* Properties.                                                             *)

(* The types of the slot and of what the requests and the runs hold; a     *)
(* slot has a draft as soon as it has a revision.                          *)
Ux1TypeOK ==
  /\ slot \in Slot /\ (slot.revision > 0 => slot.draft # Nothing)
  /\ config \in Config
  /\ tabs \in [Tab -> HeldByPage \cup {Nothing}]
  /\ answers \in [Attempt -> Answer \cup {Nothing}]
  /\ github \in [Jobs -> Nat]

(* Nothing computed for another draft is ever in the slot: the preview and *)
(* the intent are of the draft and revision the slot has.                  *)
OfThisDraft ==
  /\ slot.preview # Nothing => slot.preview.draft = slot.draft
  /\ slot.intent # Nothing => slot.intent.revision = slot.revision /\ slot.intent.draft = slot.draft

(* While a job is open its slot shows no earlier preview and accepts no    *)
(* intent, whatever requests were under way when it began.                 *)
OpenJobHidesTheRest ==
  Blocks(slot.job) /\ SameSlot(slot.job) => slot.preview = Nothing /\ slot.intent = Nothing

(* With the workflow, a computed preview was earned by the job beside it:  *)
(* that job succeeded, for this revision and with the preview's evidence.  *)
PreviewIsEarned ==
  config.mode = "github_actions" /\ slot.preview # Nothing /\ slot.preview.status \in Computed =>
    /\ slot.job.status = "succeeded" /\ SameSlot(slot.job)
    /\ slot.preview.evidence = slot.job.config.evidence
    /\ slot.preview.epoch = slot.job.config.epoch

(* The slot never shows more than its research has produced (the three     *)
(* facts above; README.zh-CN.md:581).                                      *)
ResearchIsEarned == OfThisDraft /\ OpenJobHidesTheRest /\ PreviewIsEarned

(* A job keeps its run, ends once, is not replaced while it is open, and   *)
(* is posted to the workflow at most once.                                 *)
JobStep ==
  /\ slot.job # Nothing /\ slot'.job # slot.job =>
       IF slot'.job.id = slot.job.id
         THEN /\ slot.job.run # Nothing => slot'.job.run = slot.job.run
              /\ ~Blocks(slot.job) => /\ slot'.job.status = slot.job.status
                                     /\ slot'.job.result = slot.job.result
         ELSE ~Blocks(slot.job)
  /\ \A j \in Jobs : github'[j] <= 1

(* Every step of the slot and of its requests is such a step.              *)
JobEndsOnce == [][JobStep]_ux1Vars
=============================================================================
