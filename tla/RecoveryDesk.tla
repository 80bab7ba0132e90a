---------------------------- MODULE RecoveryDesk ----------------------------
(* Recovery of an account after a reconciliation, and the first enrolment of   *)
(* an account: a source publishes the evidence, the owner confirms or rejects  *)
(* it, and the private controller reads the confirmation.  The ledger of the   *)
(* decisions is the module HumanDecision; here it is what these handlers send  *)
(* to it and read from it.  Records from before the ledger are left out.       *)
EXTENDS Integers, FiniteSets, FiniteSetsExt

CONSTANTS RecoverySources,
          RecoverySnapshots, \* [status, at, requests]: what a source may publish; at 0 is not stated
          RecoveryTtl, RecoverySkew, SampleWindow,
          EnrolledAccounts,  \* the accounts the operators may have bound to an enrolment
          MaxRecoveryTime, MaxRecoverySteps
VARIABLES rcNow, rcAccount, \* the account bound to the enrolled target now
          rcStore,      \* source -> a set of at most one snapshot, in the key-value store
          rcMaterial,   \* source -> the material the ledger holds of it
          rcSending,    \* publications whose material is registered and that still have to be stored
          rcAnswers,    \* the ledger's terminal records: [id, key, answer]
          rcSeen,       \* what the owner has been shown: [id, key]
          rcAsked,      \* decisions that passed the dashboard and go to the ledger
          rcSteps
recoveryVars == <<rcNow, rcAccount, rcStore, rcMaterial, rcSending, rcAnswers, rcSeen, rcAsked, rcSteps>>
-------------------------------------------------------------------------------
Publishable == RecoverySnapshots
\* A request: [id, mode, candidate, review, samples, first, last, waiting, blocked]; the
\* review of an enrolment binds the facts, and blocked says a surface is incomplete.
KeyOf(x) == [id |-> x.id, candidate |-> x.candidate, review |-> x.review]
\* normalizeReconciliationRecoveryRequest and initialEnrollmentBindingsMatch
ValidRequest(x) ==
  IF x.mode = "enrollment" THEN x.first = x.last
  ELSE /\ x.first <= x.last
       /\ x.waiting => /\ x.samples >= 1 /\ x.last - x.first <= SampleWindow
                       /\ x.review = x.candidate /\ ~x.blocked
BoundRequest(x) == x.mode = "enrollment" => x.account = rcAccount
AcceptedSnapshot(s) ==
  /\ \A x \in s.requests : ValidRequest(x) /\ BoundRequest(x)
  /\ \A x, y \in s.requests : x.id = y.id => x = y
  /\ s.status = "unavailable" => s.requests = {}
SourceFresh(s) == /\ s.status = "ready" /\ s.at > 0 /\ s.at <= rcNow + RecoverySkew
                  /\ rcNow - s.at <= RecoveryTtl
\* A source published just now may carry evidence of long ago.
EvidenceFresh(x, s) == /\ SourceFresh(s) /\ x.last <= rcNow + RecoverySkew
                       /\ x.last > 0 /\ rcNow - x.last <= RecoveryTtl
Eligible(x, s) ==
  /\ EvidenceFresh(x, s) /\ ~x.blocked
  /\ x.mode = "recovery" => x.waiting /\ x.review = x.candidate /\ x.samples >= 1
ExpiryOf(x, s) == (IF x.last < s.at THEN x.last ELSE s.at) + RecoveryTtl
MaterialOf(s) == {[key |-> KeyOf(x), eligible |-> Eligible(x, s), expires |-> ExpiryOf(x, s)] : x \in s.requests}
-------------------------------------------------------------------------------
\* The ledger: only the sole material of a subject counts.
Held(id) == UNION {{m \in rcMaterial[i] : m.key.id = id} : i \in RecoverySources}
Holding(id) == {i \in RecoverySources : \E m \in rcMaterial[i] : m.key.id = id}
Current(id) == {m \in Held(id) : Cardinality(Holding(id)) = 1 /\ m.eligible /\ rcNow < m.expires}
AnswerTo(key) == {a \in rcAnswers : a.key = key}
\* readReconciliationRecoveryConfirmation: the answer to the material that counts.
LedgerAnswer(id) == UNION {AnswerTo(m.key) : m \in Current(id)}
-------------------------------------------------------------------------------
\* The dashboard
\* A stored snapshot that no longer reads leaves its source empty.
ReadSource(i) == {s \in rcStore[i] : AcceptedSnapshot(s)}
Listed == UNION {{[request |-> x, snapshot |-> s] : x \in s.requests} : s \in UNION {ReadSource(i) : i \in RecoverySources}}
Sole(e) == \A i, j \in RecoverySources :
             (\E s \in ReadSource(i) : \E x \in s.requests : x.id = e.request.id)
             /\ (\E s \in ReadSource(j) : \E x \in s.requests : x.id = e.request.id) => i = j
AllReady ==
  /\ \A i \in RecoverySources : \A s \in ReadSource(i) : s.status # "stale" /\ (s.status = "ready" => SourceFresh(s))
  /\ \A e \in Listed : EvidenceFresh(e.request, e.snapshot)
  /\ \E i \in RecoverySources : \E s \in ReadSource(i) : SourceFresh(s)
\* The decision is shown with the evidence it was given for and no other.
ShownAnswer(e) == {a \in LedgerAnswer(e.request.id) : a.key = KeyOf(e.request)}
\* currentReconciliationRecoveryRequest
OpenRequest(e) ==
  /\ e \in Listed /\ Sole(e)
  /\ e.request.mode = "recovery" => AllReady
  /\ EvidenceFresh(e.request, e.snapshot) /\ ~e.request.blocked
  /\ e.request.mode = "recovery" => e.request.waiting /\ e.request.review = e.request.candidate /\ e.request.samples >= 1
\* What the private controller is given
Given == {g \in [entry : {e \in Listed : OpenRequest(e)}, answer : rcAnswers] :
            g.answer \in ShownAnswer(g.entry) /\ g.answer.answer = "approve"}
-------------------------------------------------------------------------------
RecoveryInit ==
  /\ rcNow = 1 /\ rcAccount \in EnrolledAccounts
  /\ rcStore = [i \in RecoverySources |-> {}] /\ rcMaterial = [i \in RecoverySources |-> {}]
  /\ rcSending = {} /\ rcAnswers = {} /\ rcSeen = {} /\ rcAsked = {} /\ rcSteps = 0
Spend == rcSteps < MaxRecoverySteps /\ rcSteps' = rcSteps + 1
\* The material is registered before the snapshot is stored.
BeginRecoverySync(i, s) ==
  /\ Spend /\ AcceptedSnapshot(s)
  /\ rcMaterial' = [rcMaterial EXCEPT ![i] = MaterialOf(s)]
  /\ rcSending' = rcSending \cup {[source |-> i, snapshot |-> s]}
  /\ UNCHANGED <<rcNow, rcAccount, rcStore, rcAnswers, rcSeen, rcAsked>>
StoreRecovery(p) ==
  /\ rcStore' = [rcStore EXCEPT ![p.source] = {p.snapshot}] /\ rcSending' = rcSending \ {p}
  /\ UNCHANGED <<rcNow, rcAccount, rcMaterial, rcAnswers, rcSeen, rcAsked, rcSteps>>
LoseRecovery(p) ==
  /\ rcSending' = rcSending \ {p}
  /\ UNCHANGED <<rcNow, rcAccount, rcStore, rcMaterial, rcAnswers, rcSeen, rcAsked, rcSteps>>
SeeRecovery(e) ==
  /\ OpenRequest(e) /\ rcSeen' = {KeyOf(e.request)}
  /\ UNCHANGED <<rcNow, rcAccount, rcStore, rcMaterial, rcSending, rcAnswers, rcAsked, rcSteps>>
\* The owner answers what the page showed; the handler compares it with the
\* dashboard of now and builds the record from that dashboard.
AskDecision(e, answer) ==
  /\ Spend /\ OpenRequest(e) /\ KeyOf(e.request) \in rcSeen
  /\ rcAsked' = rcAsked \cup {[key |-> KeyOf(e.request), answer |-> answer]}
  /\ UNCHANGED <<rcNow, rcAccount, rcStore, rcMaterial, rcSending, rcAnswers, rcSeen>>
\* The ledger takes it only for the material that counts now, and only once.
RecordDecision(d) ==
  /\ rcAsked' = rcAsked \ {d}
  /\ rcAnswers' = IF (\E m \in Current(d.key.id) : m.key = d.key) /\ AnswerTo(d.key) = {}
                  THEN rcAnswers \cup {d} ELSE rcAnswers
  /\ UNCHANGED <<rcNow, rcAccount, rcStore, rcMaterial, rcSending, rcSeen, rcSteps>>
RebindAccount(a) == /\ Spend /\ a # rcAccount /\ rcAccount' = a
                    /\ UNCHANGED <<rcNow, rcStore, rcMaterial, rcSending, rcAnswers, rcSeen, rcAsked>>
RecoveryTick == /\ rcNow < MaxRecoveryTime /\ rcNow' = rcNow + 1
                /\ UNCHANGED <<rcAccount, rcStore, rcMaterial, rcSending, rcAnswers, rcSeen, rcAsked, rcSteps>>
RecoveryNext ==
  \/ \E i \in RecoverySources, s \in Publishable : BeginRecoverySync(i, s)
  \/ \E p \in rcSending : StoreRecovery(p) \/ LoseRecovery(p)
  \/ \E e \in Listed : SeeRecovery(e) \/ \E answer \in {"approve", "reject"} : AskDecision(e, answer)
  \/ \E d \in rcAsked : RecordDecision(d)
  \/ \E a \in EnrolledAccounts : RebindAccount(a)
  \/ RecoveryTick
RecoverySpec == RecoveryInit /\ [][RecoveryNext]_recoveryVars
-------------------------------------------------------------------------------
\* What the controller is given is a confirmation of exactly the evidence that
\* is listed now: observed within the time-to-live, in a state to be confirmed,
\* published by one source only, of the account bound now, and not rejected.
GivenIsCurrent ==
  \A g \in Given :
    /\ g.answer.key = KeyOf(g.entry.request)
    /\ rcNow - g.entry.request.last <= RecoveryTtl
    /\ ~g.entry.request.blocked /\ BoundRequest(g.entry.request)
    /\ g.entry.request.mode = "recovery" => g.entry.request.waiting /\ g.entry.request.samples >= 1
    /\ \A i, j \in RecoverySources :
         (\E s \in rcStore[i] : \E x \in s.requests : AcceptedSnapshot(s) /\ x.id = g.answer.key.id)
         /\ (\E s \in rcStore[j] : \E x \in s.requests : AcceptedSnapshot(s) /\ x.id = g.answer.key.id) => i = j
    /\ [key |-> g.answer.key, answer |-> "reject"] \notin rcAnswers
\* An answer is recorded for the evidence it was given for, while one source
\* publishes it, and evidence has one answer.
RecoveryStep ==
  /\ \A d \in rcAnswers' \ rcAnswers : d \in rcAsked /\ AnswerTo(d.key) = {} /\ Cardinality(Holding(d.key.id)) = 1
  /\ rcAnswers \subseteq rcAnswers'
RecoveryAnswered == [][RecoveryStep]_recoveryVars
=============================================================================
