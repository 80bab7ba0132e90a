--------------------------- MODULE HumanDecision ---------------------------
(***************************************************************************)
(* The human-decision ledger of the RuntimeInstances Durable Object        *)
(* (web/strategy-switch-console/worker.js).  Publishers synchronise review *)
(* material per source; the ledger projects at most one current material   *)
(* per subject; an operator's answer becomes one terminal record.          *)
(*                                                                         *)
(* Each Durable Object command is one SQLite transaction, hence one        *)
(* action.  The HTTP handler in front of it is not: SubmitDecision is the  *)
(* part of the handler that reads, WriteDecision the command it sends, and *)
(* anything may happen between the two.  A request stays in `requests`, so *)
(* it may also be delivered late or more than once (a client retry).       *)
(***************************************************************************)
EXTENDS Integers, FiniteSets

CONSTANTS
  Kind,          \* "promotion", "owner" or "recovery"
  Subjects,      \* ticket, candidate or recovery ids
  Sources,       \* source_id values of the publishers
  Materials,     \* material_key digests
  RequestIds,    \* request keys the operators' clients choose
  Targets,       \* target_json values (for a promotion: the selected account)
  Legacy,        \* the KV record found when a subject is first projected
  Ttl,           \* freshness window of published material
  MaxTime, MaxRevision, MaxRequests,  \* bounds of the explored instance
  NoRow, NoExpiry, NoRevision, NoMaterial

ASSUME DecisionKind == Kind \in {"promotion", "owner", "recovery"}
ASSUME DecisionBounds == Ttl \in Nat /\ MaxTime \in Nat /\ MaxRevision \in Nat
ASSUME DecisionNulls ==
  /\ NoExpiry \notin Nat /\ NoRevision \notin Nat /\ NoMaterial \notin Materials

VARIABLES
  source,      \* human_decision_source_material
  projection,  \* human_decision_material
  records,     \* human_decision_record
  revision,    \* instance_state.revision; 0 is "not initialized"
  requests,    \* decision commands the HTTP handlers have built
  now

vars == <<source, projection, records, revision, requests, now>>

Answers == {"accept", "reject"}
Expiries == Nat \cup {NoExpiry}
Item == [material : Materials, eligible : BOOLEAN, expires : Expiries]
Projection ==
  [material : Materials \cup {NoMaterial}, eligible : BOOLEAN, expires : Expiries,
   legacy : {"none", "imported", "blocked"}]
Record ==
  [key : RequestIds \cup (Subjects \X Materials), subject : Subjects,
   material : Materials, action : Answers, target : Targets,
   account_revision : Nat \cup {NoRevision}]
Request ==
  [key : RequestIds, subject : Subjects, material : Materials,
   action : Answers, target : Targets, preflight : Nat \cup {NoRevision}]

ASSUME DecisionRows ==
  /\ NoRow \notin Item /\ NoRow \notin Projection
  /\ Legacy \in [Subjects -> [blocked : BOOLEAN, material : Materials,
                              action : Answers, target : Targets] \cup {NoRow}]

TypeOK ==
  /\ source \in [Subjects -> [Sources -> Item \cup {NoRow}]]
  /\ projection \in [Subjects -> Projection \cup {NoRow}]
  /\ records \subseteq Record
  /\ revision \in Nat
  /\ requests \subseteq Request
  /\ now \in Nat

----------------------------------------------------------------------------
(* Reading the ledger *)

\* humanDecisionTerminalRow: the answers recorded for one material.
Terminal(s, m) == {r \in records : r.subject = s /\ r.material = m}

Expired(row) == row.expires # NoExpiry /\ now >= row.expires

\* The sources that hold a row for subject s in a table src.
Holders(src, s) == {i \in Sources : src[s][i] # NoRow}

----------------------------------------------------------------------------
(* Synchronising material *)

\* importHumanDecisionLegacy: what the KV record of a subject becomes when the
\* subject is projected for the first time with material m.
LegacyState(s, m) ==
  IF Legacy[s] = NoRow THEN "none"
  ELSE IF Legacy[s].blocked \/ Legacy[s].material # m THEN "blocked"
  ELSE "imported"

LegacyRecord(s, m) ==
  [key |-> <<s, m>>, subject |-> s, material |-> m, action |-> Legacy[s].action,
   target |-> Legacy[s].target, account_revision |-> NoRevision]

\* A promotion source may not exchange material nobody has decided.
KeepsUndecided(s, i, item) ==
  /\ Kind = "promotion"
  /\ source[s][i] # NoRow
  /\ source[s][i].material # item.material
  /\ Terminal(s, item.material) = {}
  /\ Terminal(s, source[s][i].material) = {}

\* The projection before the sources are counted: the row there is, or the
\* ineligible one syncHumanDecisionMaterials inserts for a new subject.
Projected(s, item) ==
  IF projection[s] # NoRow THEN projection[s]
  ELSE [material |-> item.material, eligible |-> FALSE, expires |-> item.expires,
        legacy |-> LegacyState(s, item.material)]

\* The row of the only source of subject s, in a table where there is one.
HasSoleSource(src, s) == \E i \in Sources : Holders(src, s) = {i}
SoleRow(src, s) == src[s][CHOOSE i \in Sources : Holders(src, s) = {i}]

RecomputeAnySource(row, src, s) ==
  IF row.legacy = "blocked" THEN [row EXCEPT !.eligible = FALSE]
  ELSE IF Holders(src, s) = {} THEN [row EXCEPT !.material = NoMaterial, !.eligible = FALSE]
  ELSE LET first == src[s][CHOOSE i \in Holders(src, s) : TRUE]
       IN [row EXCEPT !.material = first.material, !.eligible = first.eligible,
                      !.expires = first.expires]

RecomputeForgetsBlock(row, src, s) ==
  IF ~HasSoleSource(src, s) THEN [row EXCEPT !.eligible = FALSE]
  ELSE LET only == SoleRow(src, s)
       IN [row EXCEPT !.material = only.material, !.eligible = TRUE,
                      !.expires = only.expires]

\* recomputeHumanDecisionSubject: only a sole source makes a subject eligible.
\* Several sources leave at most the material they agree on.
Recompute(row, src, s) ==
  LET keys == {src[s][i].material : i \in Holders(src, s)} IN
  IF row.legacy = "blocked" THEN [row EXCEPT !.eligible = FALSE]
  ELSE IF ~HasSoleSource(src, s)
  THEN [row EXCEPT !.eligible = FALSE,
                   !.material = IF \E k \in keys : keys = {k}
                                THEN CHOOSE k \in keys : keys = {k} ELSE NoMaterial]
  ELSE LET only == SoleRow(src, s)
       IN [row EXCEPT !.material = only.material, !.eligible = only.eligible,
                      !.expires = only.expires]

\* The subjects whose published material is stored, and those whose row goes
\* because source i replaces its snapshot without them.
Taken(i, items) == {s \in DOMAIN items : ~KeepsUndecided(s, i, items[s])}
Dropped(i, items, replace) ==
  {s \in Subjects \ DOMAIN items : replace /\ source[s][i] # NoRow}

\* upsertHumanDecisionSource, with the duplicates made ineligible afterwards.
StoredItem(s, item, duplicates) ==
  [item EXCEPT !.eligible = /\ item.eligible
                            /\ Projected(s, item).legacy # "blocked"
                            /\ s \notin duplicates]

Updated(i, items, replace, duplicates) ==
  [s \in Subjects |->
     IF s \in Taken(i, items)
     THEN [source[s] EXCEPT ![i] = StoredItem(s, items[s], duplicates)]
     ELSE IF s \in Dropped(i, items, replace) THEN [source[s] EXCEPT ![i] = NoRow]
     ELSE source[s]]

Imported(i, items) ==
  {s \in Taken(i, items) :
     projection[s] = NoRow /\ LegacyState(s, items[s].material) = "imported"}

\* syncHumanDecisionMaterials.  items maps the published subjects to their
\* material; replace deletes what source i no longer publishes; duplicates are
\* the subjects the publisher listed more than once.
SyncMaterials(i, items, replace, duplicates) ==
  LET updated == Updated(i, items, replace, duplicates) IN
  /\ source' = updated
  /\ projection' = [s \in Subjects |->
        IF s \in Taken(i, items) THEN Recompute(Projected(s, items[s]), updated, s)
        ELSE IF s \in Dropped(i, items, replace) THEN Recompute(projection[s], updated, s)
        ELSE projection[s]]
  /\ records' = records \cup {LegacyRecord(s, items[s].material) : s \in Imported(i, items)}
  /\ UNCHANGED <<revision, requests, now>>

\* publishHumanPromotionMaterial: one ticket, always eligible, always anchored.
SyncPromotion ==
  /\ Kind = "promotion"
  /\ \E i \in Sources, s \in Subjects, m \in Materials :
       SyncMaterials(i, [x \in {s} |-> [material |-> m, eligible |-> TRUE,
                                         expires |-> now + Ttl]], FALSE, {})

\* publishHumanOwnerMaterials and publishHumanRecoveryMaterials: a whole snapshot
\* replaces what its source published before.  A snapshot without a usable time
\* has no expiry; only the recovery publisher then withholds eligibility (it asks
\* for a source that is fresh), the owner publisher looks at each candidate's own
\* freshness flag.
SyncSnapshot ==
  /\ Kind # "promotion"
  /\ \E i \in Sources, listed \in SUBSET Subjects, expires \in {now + Ttl, NoExpiry} :
     \E duplicates \in SUBSET listed, fresh \in SUBSET listed, m \in [listed -> Materials] :
       SyncMaterials(i, [s \in listed |->
                           [material |-> m[s], expires |-> expires,
                            eligible |-> /\ s \in fresh \ duplicates
                                         /\ Kind = "recovery" => expires # NoExpiry]],
                     TRUE, duplicates)

----------------------------------------------------------------------------
(* Deciding *)

\* readHumanDecision as the promotion handler uses it before it sends a
\* decision: nothing projected yet, or current, eligible, fresh and undecided.
OpenForDecision(s, m) ==
  projection[s] # NoRow =>
    /\ projection[s].legacy # "blocked"
    /\ projection[s].eligible /\ ~Expired(projection[s])
    /\ projection[s].material = m
    /\ Terminal(s, m) = {}

\* The reading half of recordResearchPromotionDecisionResponse (and of the
\* owner and recovery handlers).  The material comes from a KV copy, which may
\* be arbitrarily old, so any material can be the one submitted.
SubmitDecision(k, s, m, answer, target) ==
  /\ Kind = "promotion" => OpenForDecision(s, m)
  /\ Cardinality(requests) < MaxRequests
  /\ requests' = requests \cup
       {[key |-> k, subject |-> s, material |-> m, action |-> answer, target |-> target,
         preflight |-> IF Kind = "promotion" /\ answer = "accept" /\ revision > 0
                       THEN revision ELSE NoRevision]}
  /\ UNCHANGED <<source, projection, records, revision, now>>

WriteDecisionEveryRequest(r) ==
  /\ projection[r.subject] # NoRow
  /\ projection[r.subject].material = r.material
  /\ projection[r.subject].eligible
  /\ ~Expired(projection[r.subject])
  /\ \A x \in records : x.key # r.key
  /\ records' = records \cup
       {[key |-> r.key, subject |-> r.subject, material |-> r.material,
         action |-> r.action, target |-> r.target, account_revision |-> NoRevision]}
  /\ UNCHANGED <<source, projection, revision, requests, now>>

WriteDecisionAtPreflight(r) ==
  /\ projection[r.subject] # NoRow
  /\ projection[r.subject].legacy # "blocked"
  /\ projection[r.subject].material = r.material
  /\ projection[r.subject].eligible
  /\ ~Expired(projection[r.subject])
  /\ \A x \in records : x.key # r.key
  /\ Terminal(r.subject, r.material) = {}
  /\ records' = records \cup
       {[key |-> r.key, subject |-> r.subject, material |-> r.material,
         action |-> r.action, target |-> r.target, account_revision |-> r.preflight]}
  /\ UNCHANGED <<source, projection, revision, requests, now>>

\* writeHumanDecision, where it inserts a record: the material must be current,
\* eligible and unexpired, the request key new and the material undecided.  An
\* acceptance is bound to the instance revision its preflight saw.  (Its other
\* outcomes, a replay or a refusal, change nothing.)
WriteDecision(r) ==
  /\ projection[r.subject] # NoRow
  /\ projection[r.subject].legacy # "blocked"
  /\ projection[r.subject].material = r.material
  /\ projection[r.subject].eligible
  /\ ~Expired(projection[r.subject])
  /\ \A x \in records : x.key # r.key
  /\ Terminal(r.subject, r.material) = {}
  /\ Kind = "promotion" /\ r.action = "accept" /\ revision > 0 => r.preflight = revision
  /\ records' = records \cup
       {[key |-> r.key, subject |-> r.subject, material |-> r.material,
         action |-> r.action, target |-> r.target,
         account_revision |-> IF Kind = "promotion" /\ r.action = "accept" /\ revision > 0
                              THEN revision ELSE NoRevision]}
  /\ UNCHANGED <<source, projection, revision, requests, now>>

----------------------------------------------------------------------------
(* The rest of the system *)

\* Any registry command that changes the runtime instances.
ChangeInstances ==
  /\ revision < MaxRevision
  /\ revision' = revision + 1
  /\ UNCHANGED <<source, projection, records, requests, now>>

Tick ==
  /\ now < MaxTime
  /\ now' = now + 1
  /\ UNCHANGED <<source, projection, records, revision, requests>>

Init ==
  /\ source = [s \in Subjects |-> [i \in Sources |-> NoRow]]
  /\ projection = [s \in Subjects |-> NoRow]
  /\ records = {}
  /\ revision = 0
  /\ requests = {}
  /\ now = 0

Next ==
  \/ SyncPromotion
  \/ SyncSnapshot
  \/ \E k \in RequestIds, s \in Subjects, m \in Materials, a \in Answers, t \in Targets :
       SubmitDecision(k, s, m, a, t)
  \/ \E r \in requests : WriteDecision(r)
  \/ ChangeInstances
  \/ Tick

Spec == Init /\ [][Next]_vars

----------------------------------------------------------------------------
(* Properties *)

\* However many operators answer at once, retry, or reuse a request id, a
\* reviewed material gets at most one terminal record (writeHumanDecision and
\* the legacy import share one table).
OneTerminalPerMaterial ==
  \A x, y \in records : x.subject = y.subject /\ x.material = y.material => x = y

\* A subject is open for decision only while exactly one publisher vouches for
\* it, with the very material and expiry the reviewer is shown: no disagreeing,
\* withdrawn or duplicated source leaves an eligible projection behind.
EligibleHasSoleWitness ==
  \A s \in Subjects :
    projection[s] # NoRow /\ projection[s].eligible =>
      \E i \in Sources :
        /\ Holders(source, s) = {i}
        /\ source[s][i].material = projection[s].material
        /\ source[s][i].expires = projection[s].expires
        /\ source[s][i].eligible

\* A subject whose old KV decision cannot be explained never becomes eligible
\* and never gets a record, whatever its publishers send afterwards.
UnexplainedLegacyIsInert ==
  \A s \in Subjects :
    projection[s] # NoRow /\ projection[s].legacy = "blocked" =>
      ~projection[s].eligible /\ \A m \in Materials : Terminal(s, m) = {}

\* A promotion is accepted for the registry the operator's preflight saw, and only
\* while no registry command has come between that read and the decision.
AcceptedStep ==
  \A x \in records' \ records :
    Kind = "promotion" /\ x.action = "accept" /\ x.key \notin Subjects \X Materials =>
      \E r \in requests :
        /\ r.key = x.key /\ r.subject = x.subject /\ r.material = x.material
        /\ r.preflight = x.account_revision
        /\ revision = (IF r.preflight = NoRevision THEN 0 ELSE r.preflight)
AcceptedAsSeen == [][AcceptedStep]_vars

\* "Same ticket_id with different immutable candidate fields must not overwrite
\* awaiting", and a sync that meets a terminal ticket answers that it refuses: a
\* promotion that awaits its human decision keeps the material under review until
\* that material is decided.
AwaitingMaterialIsKept ==
  [][\A s \in Subjects :
       (projection[s] # NoRow /\ Terminal(s, projection[s].material) = {})
         => projection'[s].material = projection[s].material]_vars

=============================================================================
