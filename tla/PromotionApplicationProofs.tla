--------------------- MODULE PromotionApplicationProofs ---------------------
(***************************************************************************)
(* Proofs about the promotion of a strategy.  HumanDecision by itself, for *)
(* any number of subjects, publishers, materials, requests and any bounds. *)
(* PromotionApplication, with the decisions, for any number of tickets,    *)
(* accounts, applications and workflow runs.  CurrentStrategies, for any   *)
(* isolates, loads, platforms and ages.                                    *)
(***************************************************************************)
EXTENDS MCPromotionApplication, FiniteSetTheorems, TLAPS

----------------------------------------------------------------------------
(* The decisions *)

SourceTable == [Subjects -> [Sources -> Item \cup {NoRow}]]

\* What a publisher may pass to SyncMaterials.
Items == UNION {[D -> Item] : D \in SUBSET Subjects}

\* A subject with a source row, or with a record, is projected.
SourcesAreProjected ==
  \A s \in Subjects, i \in Sources : source[s][i] # NoRow => projection[s] # NoRow
RecordsAreProjected ==
  \A r \in records : projection[r.subject] # NoRow

DecisionInv ==
  /\ TypeOK
  /\ SourcesAreProjected
  /\ RecordsAreProjected
  /\ OneTerminalPerMaterial
  /\ EligibleHasSoleWitness
  /\ UnexplainedLegacyIsInert

----------------------------------------------------------------------------
\* Recompute keeps the legacy state of a row, never makes a blocked row
\* eligible, and makes a row eligible only as the copy of a sole source.
LEMMA RecomputeResult ==
  ASSUME NEW row \in Projection, NEW src \in SourceTable, NEW s \in Subjects
  PROVE  /\ Recompute(row, src, s) \in Projection
         /\ Recompute(row, src, s).legacy = row.legacy
         /\ row.legacy = "blocked" => ~Recompute(row, src, s).eligible
         /\ Recompute(row, src, s).eligible =>
              \E i \in Sources :
                /\ Holders(src, s) = {i}
                /\ src[s][i].material = Recompute(row, src, s).material
                /\ src[s][i].expires = Recompute(row, src, s).expires
                /\ src[s][i].eligible
<1> DEFINE keys == {src[s][i].material : i \in Holders(src, s)}
<1>1. \A i \in Holders(src, s) : src[s][i] \in Item
  BY DEF Holders, SourceTable
<1>2. CASE row.legacy = "blocked"
  BY <1>2 DEF Recompute, Projection
<1>3. CASE row.legacy # "blocked" /\ ~HasSoleSource(src, s)
  <2>1. keys \subseteq Materials
    BY <1>1 DEF Item
  <2>2. \A k \in keys : keys = {k} => (CHOOSE x \in keys : keys = {x}) \in Materials
    BY <2>1
  <2> QED BY <1>3, <2>2 DEF Recompute, Projection
<1>4. CASE row.legacy # "blocked" /\ HasSoleSource(src, s)
  <2> DEFINE only == CHOOSE i \in Sources : Holders(src, s) = {i}
  <2>1. only \in Sources /\ Holders(src, s) = {only}
    BY <1>4 DEF HasSoleSource
  <2>2. src[s][only] \in Item
    BY <1>1, <2>1
  <2>3. Recompute(row, src, s) =
          [row EXCEPT !.material = src[s][only].material,
                      !.eligible = src[s][only].eligible,
                      !.expires = src[s][only].expires]
    BY <1>4 DEF Recompute, SoleRow
  <2>4. /\ src[s][only].material \in Materials
        /\ src[s][only].eligible \in BOOLEAN
        /\ src[s][only].expires \in Expiries
    BY <2>2 DEF Item
  <2> HIDE DEF only
  <2>5. /\ Recompute(row, src, s) \in Projection
        /\ Recompute(row, src, s).legacy = row.legacy
        /\ Recompute(row, src, s).material = src[s][only].material
        /\ Recompute(row, src, s).expires = src[s][only].expires
        /\ Recompute(row, src, s).eligible = src[s][only].eligible
    BY <2>3, <2>4 DEF Projection
  <2> QED BY <1>4, <2>1, <2>5
<1> QED BY <1>2, <1>3, <1>4

LEMMA ItemsIntro ==
  ASSUME NEW D \in SUBSET Subjects, NEW f \in [D -> Item]
  PROVE  f \in Items
BY DEF Items

\* Both publishers call SyncMaterials with well-typed items.
LEMMA SyncIsSyncMaterials ==
  ASSUME TypeOK, SyncPromotion \/ SyncSnapshot
  PROVE  \E i \in Sources, items \in Items, replace \in BOOLEAN :
           \E duplicates \in SUBSET Subjects : SyncMaterials(i, items, replace, duplicates)
<1> USE DecisionBounds DEF TypeOK
<1>1. CASE SyncPromotion
  <2> PICK i \in Sources, s \in Subjects, m \in Materials :
        SyncMaterials(i, [x \in {s} |-> [material |-> m, eligible |-> TRUE,
                                          expires |-> now + Ttl]], FALSE, {})
    BY <1>1 DEF SyncPromotion
  <2>1. [x \in {s} |-> [material |-> m, eligible |-> TRUE, expires |-> now + Ttl]] \in Items
    <3>1. [material |-> m, eligible |-> TRUE, expires |-> now + Ttl] \in Item
      BY DEF Item, Expiries
    <3>2. {s} \in SUBSET Subjects
      OBVIOUS
    <3> QED BY <3>1, <3>2, ItemsIntro
  <2> QED BY <2>1
<1>2. CASE SyncSnapshot
  <2> PICK i \in Sources, listed \in SUBSET Subjects, expires \in {now + Ttl, NoExpiry} :
       \E duplicates \in SUBSET listed, fresh \in SUBSET listed, m \in [listed -> Materials] :
        SyncMaterials(i, [s \in listed |->
                            [material |-> m[s], expires |-> expires,
                             eligible |-> /\ s \in fresh \ duplicates
                                          /\ Kind = "recovery" => expires # NoExpiry]],
                      TRUE, duplicates)
    BY <1>2 DEF SyncSnapshot
  <2> PICK duplicates \in SUBSET listed, fresh \in SUBSET listed, m \in [listed -> Materials] :
        SyncMaterials(i, [s \in listed |->
                            [material |-> m[s], expires |-> expires,
                             eligible |-> /\ s \in fresh \ duplicates
                                          /\ Kind = "recovery" => expires # NoExpiry]],
                      TRUE, duplicates)
    OBVIOUS
  <2> DEFINE items == [s \in listed |->
                         [material |-> m[s], expires |-> expires,
                          eligible |-> /\ s \in fresh \ duplicates
                                       /\ Kind = "recovery" => expires # NoExpiry]]
  <2>1. items \in Items
    <3>1. \A s \in listed : items[s] \in Item
      BY DEF Item, Expiries
    <3> QED BY <3>1, ItemsIntro
  <2> QED BY <2>1
<1> QED BY <1>1, <1>2

\* What SyncMaterials does to one subject: nothing, or a recomputed row that
\* keeps the legacy state the subject has or gets.
LEMMA SyncEffect ==
  ASSUME TypeOK, SourcesAreProjected,
         NEW i \in Sources, NEW items \in Items, NEW replace \in BOOLEAN,
         NEW duplicates \in SUBSET Subjects, SyncMaterials(i, items, replace, duplicates)
  PROVE  /\ source' \in SourceTable
         /\ \A s \in Subjects :
              \/ source'[s] = source[s] /\ projection'[s] = projection[s]
              \/ \E row \in Projection :
                   /\ projection'[s] = Recompute(row, source', s)
                   /\ projection[s] # NoRow => row = projection[s]
                   /\ projection[s] = NoRow =>
                        s \in Taken(i, items) /\ row = Projected(s, items[s])
         /\ records' = records \cup {LegacyRecord(s, items[s].material) : s \in Imported(i, items)}
         /\ UNCHANGED <<revision, requests, now>>
<1> USE DEF TypeOK
<1>1. PICK D \in SUBSET Subjects : items \in [D -> Item]
  BY DEF Items
<1>2. Taken(i, items) \subseteq D /\ Taken(i, items) \subseteq Subjects
  BY <1>1 DEF Taken
<1>3. ASSUME NEW s \in Taken(i, items)
      PROVE  Projected(s, items[s]) \in Projection
             /\ (projection[s] # NoRow => Projected(s, items[s]) = projection[s])
  <2>1. items[s] \in Item
    BY <1>1, <1>2
  <2>2. LegacyState(s, items[s].material) \in {"none", "imported", "blocked"}
    BY DEF LegacyState
  <2> QED BY <1>2, <2>1, <2>2 DEF Projected, Projection, Item
<1>4. ASSUME NEW s \in Taken(i, items)
      PROVE  StoredItem(s, items[s], duplicates) \in Item
  <2>1. items[s] \in Item
    BY <1>1, <1>2
  <2> QED BY <2>1 DEF StoredItem, Item
<1>5. source' = Updated(i, items, replace, duplicates)
  BY DEF SyncMaterials
<1>6. source' \in SourceTable
  <2>1. \A s \in Subjects : Updated(i, items, replace, duplicates)[s] \in [Sources -> Item \cup {NoRow}]
    BY <1>4 DEF Updated
  <2> QED BY <1>5, <2>1 DEF Updated, SourceTable
<1>7. ASSUME NEW s \in Subjects
      PROVE  \/ source'[s] = source[s] /\ projection'[s] = projection[s]
             \/ \E row \in Projection :
                  /\ projection'[s] = Recompute(row, source', s)
                  /\ projection[s] # NoRow => row = projection[s]
                  /\ projection[s] = NoRow =>
                       s \in Taken(i, items) /\ row = Projected(s, items[s])
  <2>1. CASE s \in Taken(i, items)
    <3>1. projection'[s] = Recompute(Projected(s, items[s]), source', s)
      BY <2>1, <1>5 DEF SyncMaterials
    <3> QED BY <2>1, <3>1, <1>3
  <2>2. CASE s \notin Taken(i, items) /\ s \in Dropped(i, items, replace)
    <3>1. projection'[s] = Recompute(projection[s], source', s)
      BY <2>2, <1>5 DEF SyncMaterials
    <3>2. projection[s] # NoRow /\ projection[s] \in Projection
      BY <2>2 DEF Dropped, SourcesAreProjected
    <3> QED BY <3>1, <3>2
  <2>3. CASE s \notin Taken(i, items) /\ s \notin Dropped(i, items, replace)
    BY <2>3, <1>5 DEF SyncMaterials, Updated
  <2> QED BY <2>1, <2>2, <2>3
<1>8. /\ records' = records \cup {LegacyRecord(s, items[s].material) : s \in Imported(i, items)}
      /\ UNCHANGED <<revision, requests, now>>
  BY DEF SyncMaterials
<1> QED BY <1>6, <1>7, <1>8

\* Publishing material preserves the invariant.
LEMMA SyncPreserves ==
  ASSUME DecisionInv, SyncPromotion \/ SyncSnapshot
  PROVE  DecisionInv'
<1> USE DEF DecisionInv
<1>1. PICK i \in Sources, items \in Items, replace \in BOOLEAN, duplicates \in SUBSET Subjects :
        SyncMaterials(i, items, replace, duplicates)
  BY SyncIsSyncMaterials
<1> DEFINE imported == {LegacyRecord(s, items[s].material) : s \in Imported(i, items)}
<1>2. /\ source' \in SourceTable
      /\ records' = records \cup imported
      /\ UNCHANGED <<revision, requests, now>>
  BY <1>1, SyncEffect
<1>3. \A s \in Subjects :
        \/ source'[s] = source[s] /\ projection'[s] = projection[s]
        \/ \E row \in Projection :
             /\ projection'[s] = Recompute(row, source', s)
             /\ projection[s] # NoRow => row = projection[s]
             /\ projection[s] = NoRow =>
                  s \in Taken(i, items) /\ row = Projected(s, items[s])
  BY <1>1, SyncEffect
<1>4. \A s \in Imported(i, items) :
        /\ s \in Subjects /\ projection[s] = NoRow
        /\ items[s] \in Item
        /\ LegacyState(s, items[s].material) = "imported"
  BY DEF Imported, Taken, Items
<1>5. imported \subseteq Record
  <2> SUFFICES ASSUME NEW s \in Imported(i, items)
               PROVE  LegacyRecord(s, items[s].material) \in Record
    OBVIOUS
  <2>1. Legacy[s] # NoRow
    BY <1>4 DEF LegacyState
  <2>2. Legacy[s] \in [blocked : BOOLEAN, material : Materials, action : Answers, target : Targets]
    BY <1>4, <2>1, DecisionRows
  <2>3. Legacy[s].action \in Answers /\ Legacy[s].target \in Targets
    BY <2>2
  <2> QED BY <1>4, <2>3 DEF LegacyRecord, Record, Item
<1>6. \A s \in Subjects : projection'[s] # NoRow => projection'[s] \in Projection
  BY <1>2, <1>3, RecomputeResult DEF TypeOK
<1>7. \A s \in Subjects : projection[s] # NoRow => projection'[s] # NoRow
  BY <1>2, <1>3, RecomputeResult, DecisionRows
<1>8. TypeOK'
  <2>1. projection' \in [Subjects -> Projection \cup {NoRow}]
    <3>1. projection' = [s \in Subjects |-> projection'[s]]
      BY <1>1 DEF SyncMaterials
    <3> QED BY <1>6, <3>1
  <2> QED BY <1>2, <1>5, <2>1 DEF TypeOK, SourceTable
<1>9. SourcesAreProjected'
  <2> SUFFICES ASSUME NEW s \in Subjects, NEW j \in Sources, source'[s][j] # NoRow
               PROVE  projection'[s] # NoRow
    BY DEF SourcesAreProjected
  <2>1. CASE source'[s] = source[s] /\ projection'[s] = projection[s]
    BY <2>1 DEF SourcesAreProjected
  <2>2. CASE \E row \in Projection : projection'[s] = Recompute(row, source', s)
    BY <1>2, <2>2, RecomputeResult, DecisionRows
  <2> QED BY <1>3, <2>1, <2>2
<1>10. \A s \in Imported(i, items) : projection'[s] # NoRow /\ projection'[s].legacy = "imported"
  <2> SUFFICES ASSUME NEW s \in Imported(i, items)
               PROVE  projection'[s] # NoRow /\ projection'[s].legacy = "imported"
    OBVIOUS
  <2>1. projection'[s] = Recompute(Projected(s, items[s]), source', s)
        /\ Projected(s, items[s]) \in Projection
    <3>1. s \in Taken(i, items)
      BY DEF Imported
    <3>2. projection'[s] = Recompute(Projected(s, items[s]), source', s)
      BY <1>1, <1>4, <3>1 DEF SyncMaterials
    <3>3. Projected(s, items[s]) \in Projection
      BY <1>4 DEF Projected, Projection, Item
    <3> QED BY <3>2, <3>3
  <2>2. Projected(s, items[s]).legacy = "imported"
    BY <1>4 DEF Projected
  <2> QED BY <1>2, <1>4, <2>1, <2>2, RecomputeResult, DecisionRows
<1>11. \A r \in imported : r.subject \in Imported(i, items)
  BY DEF LegacyRecord
<1>12. RecordsAreProjected'
  <2>1. \A r \in records : r.subject \in Subjects
    BY DEF TypeOK, Record
  <2> QED BY <1>2, <1>7, <1>10, <1>11, <2>1 DEF RecordsAreProjected
<1>13. OneTerminalPerMaterial'
  <2>1. \A r \in records, x \in imported : r.subject # x.subject
    BY <1>4, <1>11 DEF RecordsAreProjected
  <2>2. \A x, y \in imported : x.subject = y.subject => x = y
    BY DEF LegacyRecord
  <2> QED BY <1>2, <2>1, <2>2 DEF OneTerminalPerMaterial
<1>14. EligibleHasSoleWitness'
  <2> SUFFICES ASSUME NEW s \in Subjects, projection'[s] # NoRow, projection'[s].eligible
               PROVE  \E j \in Sources :
                        /\ Holders(source', s) = {j}
                        /\ source'[s][j].material = projection'[s].material
                        /\ source'[s][j].expires = projection'[s].expires
                        /\ source'[s][j].eligible
    BY DEF EligibleHasSoleWitness, Holders
  <2>1. CASE source'[s] = source[s] /\ projection'[s] = projection[s]
    BY <2>1 DEF EligibleHasSoleWitness, Holders
  <2>2. CASE \E row \in Projection : projection'[s] = Recompute(row, source', s)
    BY <1>2, <2>2, RecomputeResult
  <2> QED BY <1>3, <2>1, <2>2
<1>15. UnexplainedLegacyIsInert'
  <2> SUFFICES ASSUME NEW s \in Subjects, projection'[s] # NoRow,
                      projection'[s].legacy = "blocked"
               PROVE  ~projection'[s].eligible /\ \A r \in records' : r.subject # s
    BY DEF UnexplainedLegacyIsInert, Terminal
  <2>1. s \notin Imported(i, items)
    BY <1>10
  <2>2. CASE source'[s] = source[s] /\ projection'[s] = projection[s]
    <3>1. ~projection[s].eligible /\ \A m \in Materials : Terminal(s, m) = {}
      BY <2>2 DEF UnexplainedLegacyIsInert
    <3>2. \A r \in records : r.subject # s
      BY <3>1 DEF Terminal, TypeOK, Record
    <3> QED BY <1>2, <1>11, <2>1, <2>2, <3>1, <3>2
  <2>3. ASSUME NEW row \in Projection, projection'[s] = Recompute(row, source', s),
               projection[s] # NoRow => row = projection[s]
        PROVE  ~projection'[s].eligible /\ \A r \in records' : r.subject # s
    <3>1. row.legacy = "blocked" /\ ~projection'[s].eligible
      BY <1>2, <2>3, RecomputeResult
    <3>2. \A r \in records : r.subject # s
      <4>1. CASE projection[s] = NoRow
        BY <4>1 DEF RecordsAreProjected
      <4>2. CASE projection[s] # NoRow
        BY <2>3, <3>1, <4>2 DEF UnexplainedLegacyIsInert, Terminal, TypeOK, Record
      <4> QED BY <4>1, <4>2
    <3> QED BY <1>2, <1>11, <2>1, <3>1, <3>2
  <2> QED BY <1>3, <2>2, <2>3
<1> QED BY <1>8, <1>9, <1>12, <1>13, <1>14, <1>15

\* A command that inserts a record preserves the invariant: its own guard rules
\* out a second record of the material, and a blocked subject.
LEMMA WritePreserves ==
  ASSUME DecisionInv, NEW r \in Request, WriteDecision(r)
  PROVE  DecisionInv'
<1> USE DEF DecisionInv
<1> DEFINE written ==
      [key |-> r.key, subject |-> r.subject, material |-> r.material,
       action |-> r.action, target |-> r.target,
       account_revision |-> IF Kind = "promotion" /\ r.action = "accept" /\ revision > 0
                            THEN revision ELSE NoRevision]
<1>1. /\ records' = records \cup {written}
      /\ UNCHANGED <<source, projection, revision, requests, now>>
      /\ projection[r.subject] # NoRow /\ projection[r.subject].legacy # "blocked"
      /\ Terminal(r.subject, r.material) = {}
  BY DEF WriteDecision
<1>3. written \in Record
  BY DEF Record, Request, TypeOK
<1>4. written.subject = r.subject /\ written.material = r.material
  OBVIOUS
<1> HIDE DEF written
<1>5. TypeOK'
  BY <1>1, <1>3 DEF TypeOK
<1>6. SourcesAreProjected' /\ RecordsAreProjected'
  BY <1>1, <1>4 DEF SourcesAreProjected, RecordsAreProjected
<1>7. OneTerminalPerMaterial'
  <2>1. \A x \in records : ~(x.subject = written.subject /\ x.material = written.material)
    BY <1>1, <1>4 DEF Terminal
  <2> QED BY <1>1, <2>1 DEF OneTerminalPerMaterial
<1>8. EligibleHasSoleWitness'
  BY <1>1 DEF EligibleHasSoleWitness, Holders
<1>9. UnexplainedLegacyIsInert'
  <2> SUFFICES ASSUME NEW s \in Subjects, projection[s] # NoRow,
                      projection[s].legacy = "blocked", NEW m \in Materials
               PROVE  ~projection[s].eligible
                      /\ {x \in records' : x.subject = s /\ x.material = m} = {}
    BY <1>1 DEF UnexplainedLegacyIsInert, Terminal
  <2>1. s # written.subject
    BY <1>1, <1>4
  <2> QED BY <1>1, <2>1 DEF UnexplainedLegacyIsInert, Terminal
<1> QED BY <1>5, <1>6, <1>7, <1>8, <1>9

\* A step that changes only requests, the instance revision or the clock.
LEMMA OtherPreserves ==
  ASSUME DecisionInv, UNCHANGED <<source, projection, records>>,
         revision' \in Nat, requests' \subseteq Request, now' \in Nat
  PROVE  DecisionInv'
BY DEF DecisionInv, TypeOK, SourcesAreProjected, RecordsAreProjected, OneTerminalPerMaterial,
       EligibleHasSoleWitness, UnexplainedLegacyIsInert, Holders, Terminal

LEMMA SubmittedIsRequest ==
  ASSUME TypeOK, NEW k \in RequestIds, NEW s \in Subjects, NEW m \in Materials,
         NEW a \in Answers, NEW t \in Targets, SubmitDecision(k, s, m, a, t)
  PROVE  requests' \subseteq Request
<1>1. [key |-> k, subject |-> s, material |-> m, action |-> a, target |-> t,
       preflight |-> IF Kind = "promotion" /\ a = "accept" /\ revision > 0
                     THEN revision ELSE NoRevision] \in Request
  BY DEF Request, TypeOK
<1> QED BY <1>1 DEF SubmitDecision, TypeOK

LEMMA InitDecisionInv == Init => DecisionInv
<1> SUFFICES ASSUME Init PROVE DecisionInv
  OBVIOUS
<1>1. \A s \in Subjects : projection[s] = NoRow
  BY DEF Init
<1>2. TypeOK
  BY DEF Init, TypeOK
<1> QED
  BY <1>1, <1>2 DEF Init, DecisionInv, SourcesAreProjected, RecordsAreProjected,
     OneTerminalPerMaterial, EligibleHasSoleWitness, UnexplainedLegacyIsInert

LEMMA NextDecisionInv == DecisionInv /\ [Next]_vars => DecisionInv'
<1> SUFFICES ASSUME DecisionInv, [Next]_vars PROVE DecisionInv'
  OBVIOUS
<1>0. TypeOK
  BY DEF DecisionInv
<1>1. CASE SyncPromotion \/ SyncSnapshot
  BY <1>1, SyncPreserves
<1>2. ASSUME NEW k \in RequestIds, NEW s \in Subjects, NEW m \in Materials,
             NEW a \in Answers, NEW t \in Targets, SubmitDecision(k, s, m, a, t)
      PROVE  DecisionInv'
  <2>1. requests' \subseteq Request
    BY <1>0, <1>2, SubmittedIsRequest
  <2> QED BY <1>0, <1>2, <2>1, OtherPreserves DEF SubmitDecision, TypeOK
<1>3. ASSUME NEW r \in requests, WriteDecision(r)
      PROVE  DecisionInv'
  BY <1>0, <1>3, WritePreserves DEF TypeOK
<1>4. CASE ChangeInstances
  BY <1>0, <1>4, OtherPreserves DEF ChangeInstances, TypeOK
<1>5. CASE Tick
  BY <1>0, <1>5, OtherPreserves DEF Tick, TypeOK
<1>6. CASE UNCHANGED vars
  BY <1>0, <1>6, OtherPreserves DEF vars, TypeOK
<1> QED BY <1>1, <1>2, <1>3, <1>4, <1>5, <1>6 DEF Next

----------------------------------------------------------------------------
\* The strengthened invariant holds in every behaviour of the ledger.
THEOREM DecisionInvariant == Spec => []DecisionInv
<1> QED BY InitDecisionInv, NextDecisionInv, PTL DEF Spec

\* Type correctness of the ledger's tables.
THEOREM TypeCorrect == Spec => []TypeOK
<1>1. DecisionInv => TypeOK
  BY DEF DecisionInv
<1> QED BY <1>1, DecisionInvariant, PTL

\* writeHumanDecision and the legacy import never give one reviewed material
\* two terminal records, with any number of operators, publishers and retries.
THEOREM DecidedOnce == Spec => []OneTerminalPerMaterial
<1>1. DecisionInv => OneTerminalPerMaterial
  BY DEF DecisionInv
<1> QED BY <1>1, DecisionInvariant, PTL

\* An eligible projection is always the copy of the one source that vouches for
\* the subject (recomputeHumanDecisionSubject runs in every synchronisation).
THEOREM SoleWitness == Spec => []EligibleHasSoleWitness
<1>1. DecisionInv => EligibleHasSoleWitness
  BY DEF DecisionInv
<1> QED BY <1>1, DecisionInvariant, PTL

\* A subject with an unexplained KV decision is never eligible and never decided.
THEOREM LegacyInert == Spec => []UnexplainedLegacyIsInert
<1>1. DecisionInv => UnexplainedLegacyIsInert
  BY DEF DecisionInv
<1> QED BY <1>1, DecisionInvariant, PTL

----------------------------------------------------------------------------
(* Accepting what was seen *)

\* No request has seen a revision of a registry that is not initialised.
NothingSeenYet == revision = 0 => \A r \in requests : r.preflight = NoRevision

LEMMA NextNothingSeenYet == TypeOK /\ NothingSeenYet /\ [Next]_vars => NothingSeenYet'
<1> SUFFICES ASSUME TypeOK, NothingSeenYet, [Next]_vars PROVE NothingSeenYet'
  OBVIOUS
<1>1. CASE SyncPromotion \/ SyncSnapshot
  <2>1. PICK i \in Sources, items \in Items, replace \in BOOLEAN,
             duplicates \in SUBSET Subjects : SyncMaterials(i, items, replace, duplicates)
    BY <1>1, SyncIsSyncMaterials
  <2> QED BY <2>1 DEF SyncMaterials, NothingSeenYet
<1>2. ASSUME NEW k \in RequestIds, NEW s \in Subjects, NEW m \in Materials,
             NEW a \in Answers, NEW t \in Targets, SubmitDecision(k, s, m, a, t)
      PROVE  NothingSeenYet'
  BY <1>2 DEF SubmitDecision, NothingSeenYet
<1>3. ASSUME NEW r \in requests, WriteDecision(r)
      PROVE  NothingSeenYet'
  BY <1>3 DEF WriteDecision, NothingSeenYet
<1>4. CASE ChangeInstances
  BY <1>4 DEF ChangeInstances, NothingSeenYet, TypeOK
<1>5. CASE Tick
  BY <1>5 DEF Tick, NothingSeenYet
<1>6. CASE UNCHANGED vars
  BY <1>6 DEF vars, NothingSeenYet
<1> QED BY <1>1, <1>2, <1>3, <1>4, <1>5, <1>6 DEF Next

\* Records that a synchronisation adds are imported ones, under a key of their own.
LEMMA SyncImportsOnly ==
  ASSUME SyncPromotion \/ SyncSnapshot, TypeOK
  PROVE  \A x \in records' \ records : x.key \in Subjects \X Materials
<1>1. PICK i \in Sources, items \in Items, replace \in BOOLEAN,
           duplicates \in SUBSET Subjects : SyncMaterials(i, items, replace, duplicates)
  BY SyncIsSyncMaterials
<1>2. records' = records \cup {LegacyRecord(s, items[s].material) : s \in Imported(i, items)}
  BY <1>1 DEF SyncMaterials
<1>3. \A s \in Imported(i, items) : s \in Subjects /\ items[s].material \in Materials
  BY DEF Imported, Taken, Items, Item
<1> SUFFICES ASSUME NEW x \in records' \ records PROVE x.key \in Subjects \X Materials
  OBVIOUS
<1>4. PICK s \in Imported(i, items) : x = LegacyRecord(s, items[s].material)
  BY <1>2
<1>5. x.key = <<s, items[s].material>>
  BY <1>4 DEF LegacyRecord
<1> QED BY <1>3, <1>5

LEMMA NextAcceptsWhatWasSeen == TypeOK /\ NothingSeenYet /\ [Next]_vars => [AcceptedStep]_vars
<1> SUFFICES ASSUME TypeOK, NothingSeenYet, Next PROVE AcceptedStep
  OBVIOUS
<1>1. CASE SyncPromotion \/ SyncSnapshot
  BY <1>1, SyncImportsOnly DEF AcceptedStep
<1>2. ASSUME NEW r \in requests, WriteDecision(r) PROVE AcceptedStep
  <2>1. revision \in Nat /\ NoRevision \notin Nat
    BY DecisionNulls DEF TypeOK
  <2>2. revision = 0 => r.preflight = NoRevision
    BY <1>2 DEF NothingSeenYet
  <2> QED BY <1>2, <2>1, <2>2 DEF WriteDecision, AcceptedStep
<1>3. CASE records' = records
  BY <1>3 DEF AcceptedStep
<1> QED BY <1>1, <1>2, <1>3 DEF Next, SubmitDecision, ChangeInstances, Tick

\* An operator's acceptance of a promotion is recorded for the revision that the
\* operator's own preflight saw, and that revision is the current one
\* (recordResearchPromotionDecisionResponse and writeHumanDecision).
THEOREM AcceptsWhatWasSeen == Spec => AcceptedAsSeen
<1>1. Init => NothingSeenYet
  BY DEF Init, NothingSeenYet
<1>2. Spec => []NothingSeenYet
  BY <1>1, NextNothingSeenYet, TypeCorrect, PTL DEF Spec
<1> QED BY <1>2, NextAcceptsWhatWasSeen, TypeCorrect, PTL DEF Spec, AcceptedAsSeen

----------------------------------------------------------------------------
(* The applications *)

\* Handlers and runs only ever work on applications that exist.
HandlesExist ==
  /\ \A x \in Applications : handler[x] # "idle" => Exists(x)
  /\ \A r \in Runs : runOf[r] # NoApplication => Exists(runOf[r])
  /\ \A r \in claims : runOf[r] # NoApplication

\* Every application rests on an acceptance of its ticket, for its account, at
\* the registry revision it expects.
ApplicationsAreConsented ==
  \A x \in Applications : Exists(x) =>
    \E r \in records :
      /\ r.action = "accept"
      /\ r.subject = apps[x].ticket
      /\ r.target = apps[x].account
      /\ r.account_revision = apps[x].expected

\* An application that took effect moved the registry past its revision.
AppliedInThePast ==
  \A x \in Applications :
    Exists(x) /\ apps[x].status = "applied_paused" => apps[x].expected < revision

ApprovedHasNoRun ==
  \A x \in Applications : Exists(x) /\ apps[x].status = "approved" => apps[x].run = NoRun

\* An answered dispatch has started a run.
AnsweredHasRun ==
  \A x \in Applications : handler[x] = "answered" => \E r \in Runs : runOf[r] = x

AppInv ==
  /\ DecisionInv
  /\ AppTypeOK
  /\ HandlesExist
  /\ ApplicationsAreConsented
  /\ AppliedInThePast
  /\ ApprovedHasNoRun
  /\ AnsweredHasRun
  /\ OneOpenApplication
  /\ OneAppliedPerRevision
  /\ DispatchIsTrue

\* What the part of the invariant above the ledger reads of it.
LEMMA LedgerStep ==
  ASSUME AppInv, DecisionInv', records \subseteq records', revision <= revision',
         UNCHANGED <<creates, apps, handler, runOf, claims>>,
         account' \in [Targets -> Account]
  PROVE  AppInv'
<1>1. AppTypeOK'
  BY DEF AppInv, AppTypeOK, DecisionInv
<1>2. HandlesExist'
  BY DEF AppInv, HandlesExist, Exists
<1>3. ApplicationsAreConsented'
  BY DEF AppInv, ApplicationsAreConsented, Exists
<1>4. AppliedInThePast'
  <2> SUFFICES ASSUME NEW x \in Applications, Exists(x), apps[x].status = "applied_paused"
               PROVE  apps[x].expected < revision'
    BY DEF AppliedInThePast, Exists
  <2>1. apps[x].expected < revision
    BY DEF AppInv, AppliedInThePast
  <2>2. apps[x].expected \in Nat
    BY DEF AppInv, AppTypeOK, Application, Exists
  <2>3. revision \in Nat /\ revision' \in Nat
    BY DEF AppInv, DecisionInv, TypeOK
  <2> QED BY <2>1, <2>2, <2>3
<1>5. ApprovedHasNoRun' /\ AnsweredHasRun'
  BY DEF AppInv, ApprovedHasNoRun, AnsweredHasRun, Exists
<1>6. OneOpenApplication' /\ OneAppliedPerRevision' /\ DispatchIsTrue'
  BY DEF AppInv, OneOpenApplication, OneAppliedPerRevision, DispatchIsTrue, Exists
<1> QED BY <1>1, <1>2, <1>3, <1>4, <1>5, <1>6 DEF AppInv

LEMMA DecisionRecords ==
  ASSUME DecisionInv, SyncPromotion \/ SyncSnapshot
  PROVE  /\ records \subseteq records' /\ UNCHANGED revision
         /\ \A r \in records' \ records : r.account_revision = NoRevision
<1>1. PICK i \in Sources, items \in Items, replace \in BOOLEAN, duplicates \in SUBSET Subjects :
        SyncMaterials(i, items, replace, duplicates)
  BY SyncIsSyncMaterials DEF DecisionInv
<1> QED BY <1>1 DEF SyncMaterials, LegacyRecord

LEMMA CreatePreserves ==
  ASSUME AppInv, NEW x \in Applications, NEW c \in creates, CreateApplication(x, c)
  PROVE  AppInv'
<1> USE DEF AppInv
<1>1. c \in Create
  BY DEF AppTypeOK
<1>2. NewApplication(c) \in Application
  BY <1>1 DEF NewApplication, Create, Application
<1>3. /\ NewApplication(c).ticket = c.ticket /\ NewApplication(c).account = c.account
      /\ NewApplication(c).expected = c.expected
      /\ NewApplication(c).status = "approved" /\ NewApplication(c).dispatch = "pending"
      /\ NewApplication(c).run = NoRun
  BY DEF NewApplication
<1>4. /\ apps' = [apps EXCEPT ![x] = NewApplication(c)]
      /\ handler' = [handler EXCEPT ![x] = "dispatching"]
      /\ UNCHANGED <<source, projection, records, revision, requests, now>>
      /\ UNCHANGED <<account, creates, runOf, claims>>
      /\ apps[x] = NoRow
  BY DEF CreateApplication, vars, Exists
<1>5. /\ apps' \in [Applications -> Application \cup {NoRow}]
      /\ handler' \in [Applications -> {"idle", "dispatching", "answered", "failed"}]
  BY <1>2, <1>4 DEF AppTypeOK
<1>6. apps'[x] = NewApplication(c) /\ NewApplication(c) # NoRow
      /\ handler'[x] = "dispatching"
  BY <1>2, <1>4, ApplicationRows DEF AppTypeOK
<1>7. \A y \in Applications : y # x => apps'[y] = apps[y] /\ handler'[y] = handler[y]
  BY <1>4 DEF AppTypeOK
<1>8. DecisionInv'
  BY <1>4, OtherPreserves DEF DecisionInv, TypeOK
<1>9. AppTypeOK'
  BY <1>4, <1>5, <1>8 DEF AppTypeOK, DecisionInv
<1>10. HandlesExist'
  BY <1>4, <1>6, <1>7 DEF HandlesExist, Exists, AppTypeOK
<1>11. ApplicationsAreConsented'
  <2>1. \E r \in records : r.action = "accept" /\ r.subject = c.ticket
                           /\ r.target = c.account /\ r.account_revision = c.expected
    BY DEF CreateApplication, Creatable, Terminal
  <2> QED BY <1>3, <1>4, <1>6, <1>7, <2>1 DEF ApplicationsAreConsented, Exists
<1>12. AppliedInThePast' /\ ApprovedHasNoRun'
  BY <1>3, <1>4, <1>6, <1>7 DEF AppliedInThePast, ApprovedHasNoRun, Exists
<1>13. AnsweredHasRun'
  BY <1>4, <1>6, <1>7 DEF AnsweredHasRun
<1>14. OneOpenApplication'
  <2>1. \A y \in Applications :
          Exists(y) /\ apps[y].ticket = c.ticket /\ apps[y].account = c.account
            => apps[y].status = "rejected"
    BY DEF CreateApplication, SameTarget
  <2> QED BY <1>3, <1>6, <1>7, <2>1 DEF OneOpenApplication, Exists
<1>15. OneAppliedPerRevision'
  BY <1>3, <1>6, <1>7 DEF OneAppliedPerRevision, Exists
<1>16. DispatchIsTrue'
  BY <1>3, <1>4, <1>6, <1>7 DEF DispatchIsTrue, Exists
<1> QED BY <1>8, <1>9, <1>10, <1>11, <1>12, <1>13, <1>14, <1>15, <1>16

\* A dispatch or a re-run starts at most one run, for an application that exists.
LEMMA StartPreserves ==
  ASSUME AppInv, UNCHANGED <<vars, account, creates, apps, claims>>,
         handler' \in [Applications -> {"idle", "dispatching", "answered", "failed"}],
         runOf' \in [Runs -> Applications \cup {NoApplication}],
         \A x \in Applications : handler'[x] # "idle" => handler[x] # "idle",
         \A r \in Runs : runOf[r] # NoApplication => runOf'[r] = runOf[r],
         \A r \in Runs : runOf'[r] # NoApplication => Exists(runOf'[r]),
         \A x \in Applications : handler'[x] = "answered" /\ handler[x] # "answered"
                                   => \E r \in Runs : runOf'[r] = x
  PROVE  AppInv'
<1> USE DEF AppInv
<1>1. UNCHANGED <<source, projection, records, revision, requests, now>>
      /\ UNCHANGED <<account, creates, apps, claims>>
  BY DEF vars
<1>2. DecisionInv'
  BY <1>1, OtherPreserves DEF DecisionInv, TypeOK
<1>3. AppTypeOK'
  BY <1>1, <1>2 DEF AppTypeOK, DecisionInv
<1>4. HandlesExist'
  <2>1. claims \subseteq Runs
    BY DEF AppTypeOK
  <2> QED BY <1>1, <2>1 DEF HandlesExist, Exists
<1>5. ApplicationsAreConsented' /\ AppliedInThePast' /\ ApprovedHasNoRun'
  BY <1>1 DEF ApplicationsAreConsented, AppliedInThePast, ApprovedHasNoRun, Exists
<1>6. \A x \in Applications, r \in Runs : runOf[r] = x => runOf'[r] = x
  BY ApplicationNulls
<1>7. AnsweredHasRun'
  BY <1>6 DEF AnsweredHasRun
<1>8. OneOpenApplication' /\ OneAppliedPerRevision'
  BY <1>1 DEF OneOpenApplication, OneAppliedPerRevision, Exists
<1>9. DispatchIsTrue'
  BY <1>1, <1>6 DEF DispatchIsTrue, Exists
<1> QED BY <1>2, <1>3, <1>4, <1>5, <1>7, <1>8, <1>9

\* A handler or a run changes one application's progress, never what was
\* accepted, never away from a finished status, and never to "approved".
LEMMA ProgressPreserves ==
  ASSUME AppInv, NEW x \in Applications, Exists(x),
         NEW a \in Application, apps' = [apps EXCEPT ![x] = a],
         /\ a.ticket = apps[x].ticket
         /\ a.account = apps[x].account
         /\ a.expected = apps[x].expected,
         apps[x].status # "rejected" \/ a.status = "rejected",
         a.status = "approved" => a.run = NoRun,
         a.status # "approved" => a.run \in Runs /\ runOf[a.run] = x,
         a.dispatch = "sent" => \E r \in Runs : runOf[r] = x,
         a.status = "applied_paused" =>
           a.expected < revision' /\ (apps[x].status = "applied_paused" \/ a.expected = revision),
         handler' \in [Applications -> {"idle", "dispatching", "answered", "failed"}],
         \A y \in Applications : handler'[y] \in {handler[y], "idle"},
         UNCHANGED <<source, projection, records, requests, now, creates, runOf, claims>>,
         revision' \in Nat, revision <= revision', account' \in [Targets -> Account]
  PROVE  AppInv'
<1> USE DEF AppInv
<1>1. apps'[x] = a /\ a # NoRow /\ \A y \in Applications : y # x => apps'[y] = apps[y]
  BY ApplicationRows DEF AppTypeOK
<1>2. \A y \in Applications : Exists(y)' <=> Exists(y)
  BY <1>1 DEF Exists
<1>3. DecisionInv'
  BY OtherPreserves DEF DecisionInv, TypeOK
<1>4. AppTypeOK'
  BY <1>3 DEF AppTypeOK, DecisionInv
<1>5. HandlesExist'
  BY <1>2 DEF HandlesExist, AppTypeOK
<1>6. ApplicationsAreConsented'
  BY <1>1, <1>2 DEF ApplicationsAreConsented
<1>7. AppliedInThePast'
  <2> SUFFICES ASSUME NEW y \in Applications, Exists(y), apps'[y].status = "applied_paused"
               PROVE  apps'[y].expected < revision'
    BY <1>2 DEF AppliedInThePast
  <2>1. CASE y = x
    BY <1>1, <2>1
  <2>2. CASE y # x
    <3>1. apps[y].expected < revision /\ apps'[y] = apps[y]
      BY <1>1, <2>2 DEF AppliedInThePast
    <3>2. apps[y].expected \in Nat /\ revision \in Nat
      BY DEF AppTypeOK, TypeOK, Application, Exists
    <3> QED BY <3>1, <3>2
  <2> QED BY <2>1, <2>2
<1>8. ApprovedHasNoRun' /\ AnsweredHasRun' /\ DispatchIsTrue'
  BY <1>1, <1>2 DEF ApprovedHasNoRun, AnsweredHasRun, DispatchIsTrue
<1>9. OneOpenApplication'
  BY <1>1, <1>2 DEF OneOpenApplication
<1>10. OneAppliedPerRevision'
  <2>1. \A y \in Applications : Exists(y) /\ apps[y].status = "applied_paused"
                                  => apps[y].expected < revision /\ apps[y].expected \in Nat
    BY DEF AppliedInThePast, AppTypeOK, Application, Exists
  <2>2. revision \in Nat
    BY DEF AppTypeOK, TypeOK
  <2>3. CASE a.status = "applied_paused" /\ apps[x].status # "applied_paused"
    BY <1>1, <1>2, <2>1, <2>2, <2>3 DEF OneAppliedPerRevision
  <2>4. CASE a.status # "applied_paused" \/ apps[x].status = "applied_paused"
    BY <1>1, <1>2, <2>4 DEF OneAppliedPerRevision
  <2> QED BY <2>3, <2>4
<1> QED BY <1>3, <1>4, <1>5, <1>6, <1>7, <1>8, <1>9, <1>10

\* What application_mark_dispatch, application_claim and application_result find
\* is an application that exists.
LEMMA ExistingIsApplication ==
  ASSUME AppInv, NEW x \in Applications, Exists(x)
  PROVE  apps[x] \in Application
BY DEF AppInv, AppTypeOK, Exists

LEMMA MarkPreserves ==
  ASSUME AppInv, NEW x \in Applications, MarkDispatch(x)
  PROVE  AppInv'
<1>1. Exists(x) /\ apps[x] \in Application
  BY ExistingIsApplication DEF AppInv, HandlesExist, MarkDispatch
<1>2. /\ UNCHANGED <<source, projection, records, requests, now, revision, account>>
      /\ UNCHANGED <<creates, runOf, claims>>
      /\ handler' = [handler EXCEPT ![x] = "idle"]
  BY DEF MarkDispatch, vars
<1>3. /\ handler' \in [Applications -> {"idle", "dispatching", "answered", "failed"}]
      /\ \A y \in Applications : handler'[y] \in {handler[y], "idle"}
      /\ revision' \in Nat /\ revision <= revision' /\ account' \in [Targets -> Account]
  BY <1>2 DEF AppInv, AppTypeOK, TypeOK
<1>4. CASE apps[x].status = "approved" /\ apps[x].dispatch = "pending"
  <2> DEFINE a == [apps[x] EXCEPT !.dispatch = IF handler[x] = "answered" THEN "sent"
                                               ELSE "unknown"]
  <2>1. apps' = [apps EXCEPT ![x] = a]
    BY <1>4 DEF MarkDispatch
  <2>2. a \in Application /\ a.ticket = apps[x].ticket /\ a.account = apps[x].account
        /\ a.expected = apps[x].expected /\ a.status = "approved" /\ a.run = apps[x].run
        /\ (a.dispatch = "sent" => handler[x] = "answered")
    BY <1>1, <1>4 DEF Application
  <2>3. a.run = NoRun /\ (a.dispatch = "sent" => \E r \in Runs : runOf[r] = x)
    BY <1>1, <1>4, <2>2 DEF AppInv, ApprovedHasNoRun, AnsweredHasRun
  <2> HIDE DEF a
  <2> QED BY <1>1, <1>2, <1>3, <1>4, <2>1, <2>2, <2>3, ProgressPreserves
<1>5. CASE ~(apps[x].status = "approved" /\ apps[x].dispatch = "pending")
  <2>1. apps' = [apps EXCEPT ![x] = apps[x]]
    BY <1>5 DEF MarkDispatch, AppInv, AppTypeOK
  <2> QED
    BY <1>1, <1>2, <1>3, <2>1, ProgressPreserves
       DEF AppInv, ApprovedHasNoRun, DispatchIsTrue, AppliedInThePast
<1> QED BY <1>4, <1>5

LEMMA ClaimPreserves ==
  ASSUME AppInv, NEW r \in Runs, Claim(r)
  PROVE  AppInv'
<1> DEFINE x == runOf[r]
           a == [apps[x] EXCEPT !.status = "claimed", !.run = r]
<1>1. x \in Applications /\ Exists(x)
  BY DEF AppInv, HandlesExist, Claim, AppTypeOK
<1>2. apps[x] \in Application
  BY <1>1, ExistingIsApplication
<1>3. /\ apps' = [apps EXCEPT ![x] = a] /\ apps[x].status = "approved"
      /\ UNCHANGED <<source, projection, records, requests, now, revision, account>>
      /\ UNCHANGED <<creates, handler, runOf, claims>>
  BY DEF Claim, vars
<1>4. a \in Application /\ a.ticket = apps[x].ticket /\ a.account = apps[x].account
      /\ a.expected = apps[x].expected /\ a.status = "claimed" /\ a.run = r
      /\ a.dispatch = apps[x].dispatch
  BY <1>2 DEF Application
<1>5. a.dispatch = "sent" => \E s \in Runs : runOf[s] = x
  BY <1>1, <1>4 DEF AppInv, DispatchIsTrue
<1>6. /\ handler' \in [Applications -> {"idle", "dispatching", "answered", "failed"}]
      /\ \A y \in Applications : handler'[y] \in {handler[y], "idle"}
      /\ revision' \in Nat /\ revision <= revision' /\ account' \in [Targets -> Account]
  BY <1>3 DEF AppInv, AppTypeOK, TypeOK
<1>7. a.run \in Runs /\ runOf[a.run] = x
  BY <1>4
<1> HIDE DEF a, x
<1> QED BY <1>1, <1>3, <1>4, <1>5, <1>6, <1>7, ProgressPreserves

\* An application gets a final status; "applied_paused" also changes its account.
Reported(x, status) ==
  /\ apps' = [apps EXCEPT ![x].status = status]
  /\ IF status = "applied_paused"
     THEN /\ revision = apps[x].expected
          /\ revision' = revision + 1
          /\ account' = [account EXCEPT
                ![apps[x].account].profile = ProfileOf[apps[x].ticket],
                ![apps[x].account].applied = TRUE]
     ELSE UNCHANGED <<account, revision>>

\* What ReportResult does to its application and, where it is applied, to the
\* account: the binding comparison of application_result fixes the revision.
LEMMA ReportEffect ==
  ASSUME AppInv, NEW r \in Runs, NEW o \in Finished, NEW b \in BOOLEAN,
         ReportResult(r, o, b)
  PROVE  \E x \in Applications :
           /\ x = runOf[r] /\ Exists(x) /\ apps[x].status = "claimed" /\ apps[x].run = r
           /\ \E status \in Finished : Reported(x, status)
           /\ UNCHANGED <<source, projection, records, requests, now>>
           /\ UNCHANGED <<creates, handler, runOf, claims>>
<1> DEFINE x == runOf[r]
           believed == IF o = "applied_paused" /\ ~b THEN "uncertain" ELSE o
<1>1. x \in Applications /\ Exists(x)
  BY DEF AppInv, HandlesExist, ReportResult, AppTypeOK
<1>2. /\ apps[x].status = "claimed" /\ apps[x].run = r
      /\ Report(r, x, believed)
      /\ UNCHANGED <<source, projection, records, requests, now>>
      /\ UNCHANGED <<creates, handler, runOf, claims>>
  BY DEF ReportResult
<1>3. believed \in Finished
  BY DEF Finished
<1> HIDE DEF believed
<1>4. CASE believed = "applied_paused" /\ BindingMatches(apps[x])
  <2>1. Reported(x, "applied_paused")
    BY <1>2, <1>4 DEF Report, BindingMatches, Reported
  <2> QED BY <1>1, <1>2, <2>1 DEF Finished
<1>5. CASE ~(believed = "applied_paused" /\ BindingMatches(apps[x]))
  <2>1. /\ apps' = [apps EXCEPT ![x].status =
                                 IF believed = "rejected" THEN "rejected" ELSE "uncertain"]
        /\ UNCHANGED <<account, revision>>
    BY <1>2, <1>5 DEF Report
  <2>2. CASE believed = "rejected"
    <3>1. Reported(x, "rejected")
      BY <2>1, <2>2 DEF Reported
    <3> QED BY <1>1, <1>2, <3>1 DEF Finished
  <2>3. CASE believed # "rejected"
    <3>1. Reported(x, "uncertain")
      BY <2>1, <2>3 DEF Reported
    <3> QED BY <1>1, <1>2, <3>1 DEF Finished
  <2> QED BY <2>2, <2>3
<1> QED BY <1>4, <1>5

LEMMA ReportPreserves ==
  ASSUME AppInv, NEW r \in Runs, NEW o \in Finished, NEW b \in BOOLEAN,
         ReportResult(r, o, b)
  PROVE  AppInv'
<1>1. PICK x \in Applications :
        /\ x = runOf[r] /\ Exists(x) /\ apps[x].status = "claimed" /\ apps[x].run = r
        /\ \E status \in Finished : Reported(x, status)
        /\ UNCHANGED <<source, projection, records, requests, now>>
        /\ UNCHANGED <<creates, handler, runOf, claims>>
  BY ReportEffect
<1>2. PICK status \in Finished :
        /\ apps' = [apps EXCEPT ![x].status = status]
        /\ IF status = "applied_paused"
           THEN /\ revision = apps[x].expected
                /\ revision' = revision + 1
                /\ account' = [account EXCEPT
                      ![apps[x].account].profile = ProfileOf[apps[x].ticket],
                      ![apps[x].account].applied = TRUE]
           ELSE UNCHANGED <<account, revision>>
  BY <1>1 DEF Reported
<1>3. apps[x] \in Application /\ revision \in Nat
  BY <1>1, ExistingIsApplication DEF AppInv, AppTypeOK, TypeOK
<1> DEFINE a == [apps[x] EXCEPT !.status = status]
<1>4. a \in Application /\ a.ticket = apps[x].ticket /\ a.account = apps[x].account
      /\ a.expected = apps[x].expected /\ a.status = status /\ a.run = apps[x].run
      /\ a.dispatch = apps[x].dispatch
  BY <1>2, <1>3 DEF Application
<1>5. apps' = [apps EXCEPT ![x] = a]
  BY <1>2
<1>6. /\ a.run \in Runs /\ runOf[a.run] = x
      /\ a.dispatch = "sent" => \E s \in Runs : runOf[s] = x
  BY <1>1, <1>4
<1>7. account' \in [Targets -> Account]
  <2>1. CASE status = "applied_paused"
    <3>1. ProfileOf[apps[x].ticket] \in Profiles /\ apps[x].account \in Targets
      BY <1>3, ApplicationProfiles DEF Application
    <3>2. account[apps[x].account] \in Account
      BY <3>1 DEF AppInv, AppTypeOK
    <3>3. [account[apps[x].account] EXCEPT !.profile = ProfileOf[apps[x].ticket],
                                           !.applied = TRUE] \in Account
      BY <3>1, <3>2 DEF Account
    <3>4. account' = [account EXCEPT ![apps[x].account] =
             [account[apps[x].account] EXCEPT !.profile = ProfileOf[apps[x].ticket],
                                              !.applied = TRUE]]
      BY <1>2, <2>1, <3>1 DEF AppInv, AppTypeOK
    <3> QED BY <3>1, <3>3, <3>4 DEF AppInv, AppTypeOK
  <2>2. CASE status # "applied_paused"
    BY <1>2, <2>2 DEF AppInv, AppTypeOK
  <2> QED BY <2>1, <2>2
<1>8. /\ revision' \in Nat /\ revision <= revision'
      /\ status = "applied_paused" => apps[x].expected < revision' /\ apps[x].expected = revision
  BY <1>2, <1>3
<1>9. /\ handler' \in [Applications -> {"idle", "dispatching", "answered", "failed"}]
      /\ \A y \in Applications : handler'[y] \in {handler[y], "idle"}
  BY <1>1 DEF AppInv, AppTypeOK
<1>10. apps[x].status # "rejected" /\ a.status # "approved"
  BY <1>1, <1>4 DEF Finished
<1> HIDE DEF a
<1> QED BY <1>1, <1>4, <1>5, <1>6, <1>7, <1>8, <1>9, <1>10, ProgressPreserves

LEMMA InitAppInv == AppInit => AppInv
<1> SUFFICES ASSUME AppInit PROVE AppInv
  OBVIOUS
<1>1. DecisionInv
  <2>1. \A s \in Subjects : projection[s] = NoRow
    BY DEF AppInit
  <2>2. TypeOK
    BY DEF AppInit, TypeOK
  <2> QED
    BY <2>1, <2>2 DEF AppInit, DecisionInv, SourcesAreProjected, RecordsAreProjected,
       OneTerminalPerMaterial, EligibleHasSoleWitness, UnexplainedLegacyIsInert
<1>2. account \in [Targets -> Account]
  <2> DEFINE start == {[profile |-> p, binding |-> Paper, applied |-> FALSE] : p \in Profiles}
  <2>1. start \subseteq Account
    <3>1. \A p \in Profiles : [profile |-> p, binding |-> Paper, applied |-> FALSE] \in Account
      BY ApplicationPaper DEF Account
    <3> QED BY <3>1
  <2>2. account \in [Targets -> start]
    BY DEF AppInit
  <2> HIDE DEF start
  <2> QED BY <2>1, <2>2
<1>3. AppTypeOK
  BY <1>1, <1>2 DEF AppInit, AppTypeOK, DecisionInv
<1>4. \A x \in Applications : ~Exists(x)
  BY DEF AppInit, Exists
<1> QED
  BY <1>1, <1>3, <1>4 DEF AppInit, AppInv, HandlesExist, ApplicationsAreConsented,
     AppliedInThePast, ApprovedHasNoRun, AnsweredHasRun, OneOpenApplication,
     OneAppliedPerRevision, DispatchIsTrue

LEMMA NextAppInv == AppInv /\ [AppNext]_allVars => AppInv'
<1> SUFFICES ASSUME AppInv, [AppNext]_allVars PROVE AppInv'
  OBVIOUS
<1>0. DecisionInv /\ AppTypeOK /\ TypeOK
  BY DEF AppInv, DecisionInv
<1>1. CASE Publish
  <2>1. SyncPromotion /\ UNCHANGED appVars
    BY <1>1 DEF Publish
  <2>2. records \subseteq records' /\ revision' = revision
    BY <1>0, <2>1, DecisionRecords
  <2> QED BY <1>0, <2>1, <2>2, SyncPreserves, LedgerStep DEF appVars, AppTypeOK, TypeOK
<1>2. ASSUME NEW k \in RequestIds, NEW t \in Subjects, NEW m \in Materials,
             NEW n \in Answers, NEW a \in Targets, Decide(k, t, m, n, a)
      PROVE  AppInv'
  <2> DEFINE r == [key |-> k, subject |-> t, material |-> m, action |-> n,
                   target |-> a, preflight |-> revision]
  <2>1. r \in Request
    BY <1>0 DEF Request, TypeOK
  <2>2. WriteDecision(r) /\ UNCHANGED appVars
    BY <1>2 DEF Decide
  <2> HIDE DEF r
  <2>3. records \subseteq records' /\ revision' = revision
    BY <2>2 DEF WriteDecision
  <2>4. DecisionInv'
    BY <1>0, <2>1, <2>2, WritePreserves
  <2> QED BY <1>0, <2>2, <2>3, <2>4, LedgerStep DEF appVars, AppTypeOK, TypeOK
<1>3. ASSUME NEW a \in Targets, NEW b \in Bindings, ChangeRegistry(a, b)
      PROVE  AppInv'
  <2>1. /\ ChangeInstances
        /\ account' = [account EXCEPT ![a].binding = b]
        /\ UNCHANGED <<creates, apps, handler, runOf, claims>>
    BY <1>3 DEF ChangeRegistry
  <2>2. /\ UNCHANGED <<source, projection, records, requests, now>>
        /\ revision' = revision + 1
    BY <2>1 DEF ChangeInstances
  <2>3. DecisionInv' /\ revision <= revision'
    BY <1>0, <2>2, OtherPreserves DEF TypeOK
  <2>4. account' \in [Targets -> Account]
    BY <1>0, <2>1 DEF AppTypeOK, Account
  <2> QED BY <2>1, <2>2, <2>3, <2>4, LedgerStep
<1>4. CASE PassTime
  <2>1. /\ UNCHANGED <<source, projection, records, revision, requests>> /\ now' \in Nat
        /\ UNCHANGED appVars
    BY <1>0, <1>4 DEF PassTime, Tick, TypeOK
  <2>2. DecisionInv'
    BY <1>0, <2>1, OtherPreserves DEF TypeOK
  <2> QED BY <1>0, <2>1, <2>2, LedgerStep DEF appVars, AppTypeOK, TypeOK
<1>5. ASSUME NEW t \in Subjects, NEW a \in Targets, QualifyCreate(t, a)
      PROVE  AppInv'
  <2> DEFINE c == [ticket |-> t, account |-> a, material |-> projection[t].material,
                   expected |-> revision, profile |-> account[a].profile,
                   binding |-> account[a].binding]
  <2>1. /\ creates' = creates \cup {c}
        /\ UNCHANGED <<source, projection, records, revision, requests, now>>
        /\ UNCHANGED <<account, apps, handler, runOf, claims>>
    BY <1>5 DEF QualifyCreate, vars
  <2>2. projection[t].material \in Materials
    <3>1. \E r \in records : r.material = projection[t].material
      BY <1>5 DEF QualifyCreate, Qualified, Accepted, Terminal
    <3> QED BY <1>0, <3>1 DEF TypeOK, Record
  <2>3. c \in Create
    BY <1>0, <2>2 DEF Create, AppTypeOK, TypeOK, Account
  <2> HIDE DEF c
  <2>4. DecisionInv'
    BY <1>0, <2>1, OtherPreserves DEF TypeOK
  <2>5. AppTypeOK'
    BY <1>0, <2>1, <2>3, <2>4 DEF AppTypeOK, DecisionInv
  <2> QED
    BY <2>1, <2>4, <2>5 DEF AppInv, HandlesExist, ApplicationsAreConsented, AppliedInThePast,
       ApprovedHasNoRun, AnsweredHasRun, OneOpenApplication, OneAppliedPerRevision,
       DispatchIsTrue, Exists
<1>6. ASSUME NEW x \in Applications, NEW c \in creates, CreateApplication(x, c)
      PROVE  AppInv'
  BY <1>6, CreatePreserves
<1>7. ASSUME NEW x \in Applications, NEW r \in Runs, DispatchAccepted(x, r)
      PROVE  AppInv'
  <2>1. Exists(x)
    BY <1>7 DEF DispatchAccepted, AppInv, HandlesExist
  <2> QED BY <1>7, <1>0, <2>1, StartPreserves
            DEF DispatchAccepted, AppTypeOK, AppInv, HandlesExist, Exists
<1>8. ASSUME NEW x \in Applications, DispatchFailed(x)
      PROVE  AppInv'
  <2>1. Exists(x)
    BY <1>8 DEF DispatchFailed, AppInv, HandlesExist
  <2>2. CASE UNCHANGED runOf
    BY <1>8, <1>0, <2>2, StartPreserves
       DEF DispatchFailed, AppTypeOK, AppInv, HandlesExist, Exists
  <2>3. ASSUME NEW r \in Runs, runOf[r] = NoApplication, runOf' = [runOf EXCEPT ![r] = x]
        PROVE  AppInv'
    BY <1>8, <1>0, <2>1, <2>3, StartPreserves
       DEF DispatchFailed, AppTypeOK, AppInv, HandlesExist, Exists
  <2> QED BY <1>8, <2>2, <2>3 DEF DispatchFailed
<1>9. ASSUME NEW x \in Applications, MarkDispatch(x)
      PROVE  AppInv'
  BY <1>9, MarkPreserves
<1>10. ASSUME NEW r \in Runs, NEW s \in Runs, Rerun(r, s)
       PROVE  AppInv'
  BY <1>10, <1>0, StartPreserves DEF Rerun, AppTypeOK, AppInv, HandlesExist, Exists
<1>11. ASSUME NEW r \in Runs, QualifyClaim(r)
       PROVE  AppInv'
  <2>1. /\ claims' = claims \cup {r} /\ runOf[r] # NoApplication
        /\ UNCHANGED <<source, projection, records, revision, requests, now>>
        /\ UNCHANGED <<account, creates, apps, handler, runOf>>
    BY <1>11 DEF QualifyClaim, vars
  <2>2. DecisionInv'
    BY <1>0, <2>1, OtherPreserves DEF TypeOK
  <2>3. AppTypeOK'
    BY <1>0, <2>1, <2>2 DEF AppTypeOK, DecisionInv
  <2> QED
    BY <2>1, <2>2, <2>3 DEF AppInv, HandlesExist, ApplicationsAreConsented, AppliedInThePast,
       ApprovedHasNoRun, AnsweredHasRun, OneOpenApplication, OneAppliedPerRevision,
       DispatchIsTrue, Exists
<1>12. ASSUME NEW r \in Runs, Claim(r)
       PROVE  AppInv'
  BY <1>12, ClaimPreserves
<1>13. ASSUME NEW r \in Runs, NEW o \in Finished, NEW b \in BOOLEAN, ReportResult(r, o, b)
       PROVE  AppInv'
  BY <1>13, ReportPreserves
<1>14. CASE UNCHANGED allVars
  <2>1. UNCHANGED vars /\ UNCHANGED appVars
    BY <1>14 DEF allVars
  <2>2. DecisionInv'
    BY <1>0, <2>1, OtherPreserves DEF vars, TypeOK
  <2> QED BY <1>0, <2>1, <2>2, LedgerStep DEF vars, appVars, AppTypeOK, TypeOK
<1> QED
  BY <1>1, <1>2, <1>3, <1>4, <1>5, <1>6, <1>7, <1>8, <1>9, <1>10, <1>11, <1>12, <1>13, <1>14
     DEF AppNext

\* Steps seen as PromotionPromise.
LEMMA InitKeepsPromise == AppInit => Promise!PromiseInit
<1> SUFFICES ASSUME AppInit PROVE Promise!PromiseInit
  OBVIOUS
<1>1. \A a \in Targets : account[a].profile \in Profiles
  BY DEF AppInit
<1> QED BY <1>1 DEF AppInit, Promise!PromiseInit

\* The consents PromotionPromise sees.
Consents == {<<r.subject, r.target, r.account_revision>> :
               r \in {x \in records : x.action = "accept" /\ x.account_revision # NoRevision}}
Strategy == [a \in Targets |-> account[a].profile]

LEMMA DecideKeepsPromise ==
  ASSUME AppInv, NEW r \in Request, WriteDecision(r), UNCHANGED appVars
  PROVE  [Promise!PromiseNext]_Promise!promiseVars
<1> DEFINE written ==
      [key |-> r.key, subject |-> r.subject, material |-> r.material,
       action |-> r.action, target |-> r.target,
       account_revision |-> IF Kind = "promotion" /\ r.action = "accept" /\ revision > 0
                            THEN revision ELSE NoRevision]
<1>1. records' = records \cup {written} /\ UNCHANGED <<revision, account>>
  BY DEF WriteDecision, appVars
<1>2. Strategy' = Strategy
  BY <1>1 DEF Strategy
<1>3. CASE written.action = "accept" /\ written.account_revision # NoRevision
  <2>1. written.subject = r.subject /\ written.target = r.target
        /\ written.account_revision = revision
    BY <1>3
  <2> HIDE DEF written
  <2>2. Consents' = Consents \cup {<<r.subject, r.target, revision>>}
    BY <1>1, <1>3, <2>1 DEF Consents
  <2>3. r.subject \in Subjects /\ r.target \in Targets
    BY DEF Request
  <2> QED BY <1>1, <1>2, <2>2, <2>3
          DEF Promise!PromiseNext, Promise!Consent, Consents, Strategy
<1>4. CASE ~(written.action = "accept" /\ written.account_revision # NoRevision)
  <2> HIDE DEF written
  <2>1. Consents' = Consents
    BY <1>1, <1>4 DEF Consents
  <2> QED BY <1>1, <1>2, <2>1 DEF Promise!promiseVars, Consents, Strategy
<1> QED BY <1>3, <1>4

LEMMA ReportKeepsPromise ==
  ASSUME AppInv, NEW r \in Runs, NEW o \in Finished, NEW b \in BOOLEAN,
         ReportResult(r, o, b)
  PROVE  [Promise!PromiseNext]_Promise!promiseVars
<1>1. PICK x \in Applications :
        /\ x = runOf[r] /\ Exists(x) /\ apps[x].status = "claimed" /\ apps[x].run = r
        /\ \E status \in Finished : Reported(x, status)
        /\ UNCHANGED <<source, projection, records, requests, now>>
        /\ UNCHANGED <<creates, handler, runOf, claims>>
  BY ReportEffect
<1>2. PICK status \in Finished : Reported(x, status)
  BY <1>1
<1>3. apps[x].ticket \in Subjects /\ apps[x].account \in Targets /\ apps[x].expected \in Nat
  BY <1>1, ExistingIsApplication DEF Application
<1>4. Consents' = Consents
  BY <1>1 DEF Consents
<1>5. CASE status = "applied_paused"
  <2>1. <<apps[x].ticket, apps[x].account, revision>> \in Consents
    <3>1. PICK q \in records : /\ q.action = "accept"
                               /\ q.subject = apps[x].ticket
                               /\ q.target = apps[x].account
                               /\ q.account_revision = apps[x].expected
      BY <1>1 DEF AppInv, ApplicationsAreConsented
    <3>2. revision = apps[x].expected
      BY <1>2, <1>5 DEF Reported
    <3> QED BY <1>3, <3>1, <3>2, DecisionNulls DEF Consents
  <2>2. Strategy' = [Strategy EXCEPT ![apps[x].account] = ProfileOf[apps[x].ticket]]
    <3>1. account' = [account EXCEPT ![apps[x].account].profile = ProfileOf[apps[x].ticket],
                                     ![apps[x].account].applied = TRUE]
      BY <1>2, <1>5 DEF Reported
    <3>2. \A a \in Targets : account[a] \in Account
      BY DEF AppInv, AppTypeOK
    <3>3. \A a \in Targets : account'[a].profile =
            IF a = apps[x].account THEN ProfileOf[apps[x].ticket] ELSE account[a].profile
      BY <1>3, <3>1, <3>2 DEF AppInv, AppTypeOK, Account
    <3> QED BY <1>3, <3>3 DEF Strategy
  <2>3. revision' = revision + 1
    BY <1>2, <1>5 DEF Reported
  <2> QED BY <1>3, <1>4, <2>1, <2>2, <2>3
          DEF Promise!PromiseNext, Promise!Apply, Consents, Strategy
<1>6. CASE status # "applied_paused"
  <2>1. UNCHANGED <<account, revision>>
    BY <1>2, <1>6 DEF Reported
  <2> QED BY <1>4, <2>1 DEF Promise!promiseVars, Consents, Strategy
<1> QED BY <1>5, <1>6

LEMMA StepKeepsPromise ==
  AppInv /\ [AppNext]_allVars => [Promise!PromiseNext]_Promise!promiseVars
<1> SUFFICES ASSUME AppInv, [AppNext]_allVars
             PROVE  [Promise!PromiseNext]_Promise!promiseVars
  OBVIOUS
<1>0. DecisionInv /\ AppTypeOK /\ TypeOK
  BY DEF AppInv, DecisionInv
<1>1. CASE Publish
  <2>1. SyncPromotion /\ UNCHANGED appVars
    BY <1>1 DEF Publish
  <2>2. /\ records \subseteq records' /\ revision' = revision /\ account' = account
        /\ \A r \in records' \ records : r.account_revision = NoRevision
    BY <1>0, <2>1, DecisionRecords DEF appVars
  <2>3. Consents' = Consents /\ Strategy' = Strategy
    BY <2>2 DEF Consents, Strategy
  <2> QED BY <2>2, <2>3 DEF Promise!promiseVars, Consents, Strategy
<1>2. ASSUME NEW k \in RequestIds, NEW t \in Subjects, NEW m \in Materials,
             NEW n \in Answers, NEW a \in Targets, Decide(k, t, m, n, a)
      PROVE  [Promise!PromiseNext]_Promise!promiseVars
  <2> DEFINE r == [key |-> k, subject |-> t, material |-> m, action |-> n,
                   target |-> a, preflight |-> revision]
  <2>1. r \in Request
    BY <1>0 DEF Request, TypeOK
  <2>2. WriteDecision(r) /\ UNCHANGED appVars
    BY <1>2 DEF Decide
  <2> HIDE DEF r
  <2> QED BY <2>1, <2>2, DecideKeepsPromise
<1>3. ASSUME NEW a \in Targets, NEW b \in Bindings, ChangeRegistry(a, b)
      PROVE  [Promise!PromiseNext]_Promise!promiseVars
  <2>1. /\ account' = [account EXCEPT ![a].binding = b]
        /\ revision' = revision + 1 /\ records' = records
    BY <1>3 DEF ChangeRegistry, ChangeInstances
  <2>2. \A c \in Targets : account'[c].profile = account[c].profile
    BY <1>0, <2>1 DEF AppTypeOK, Account
  <2>3. Consents' = Consents /\ Strategy' = Strategy
    BY <2>1, <2>2 DEF Consents, Strategy
  <2> QED BY <2>1, <2>3 DEF Promise!PromiseNext, Promise!OtherChange, Consents, Strategy
<1>4. ASSUME UNCHANGED <<records, revision, account>>
      PROVE  [Promise!PromiseNext]_Promise!promiseVars
  BY <1>4 DEF Promise!promiseVars
<1>5. CASE PassTime
  BY <1>4, <1>5 DEF PassTime, Tick, appVars
<1>6. CASE \E t \in Subjects, a \in Targets : QualifyCreate(t, a)
  BY <1>4, <1>6 DEF QualifyCreate, vars
<1>7. CASE \E x \in Applications, c \in creates : CreateApplication(x, c)
  BY <1>4, <1>7 DEF CreateApplication, vars
<1>8. CASE \E x \in Applications, r \in Runs : DispatchAccepted(x, r)
  BY <1>4, <1>8 DEF DispatchAccepted, vars
<1>9. CASE \E x \in Applications : DispatchFailed(x) \/ MarkDispatch(x)
  BY <1>4, <1>9 DEF DispatchFailed, MarkDispatch, vars
<1>10. CASE \E r, s \in Runs : Rerun(r, s)
  BY <1>4, <1>10 DEF Rerun, vars
<1>11. CASE \E r \in Runs : QualifyClaim(r) \/ Claim(r)
  BY <1>4, <1>11 DEF QualifyClaim, Claim, vars
<1>12. ASSUME NEW r \in Runs, NEW o \in Finished, NEW b \in BOOLEAN, ReportResult(r, o, b)
       PROVE  [Promise!PromiseNext]_Promise!promiseVars
  BY <1>12, ReportKeepsPromise
<1>13. CASE UNCHANGED allVars
  BY <1>4, <1>13 DEF allVars, vars, appVars
<1> QED
  BY <1>1, <1>2, <1>3, <1>5, <1>6, <1>7, <1>8, <1>9, <1>10, <1>11, <1>12, <1>13 DEF AppNext

\* What a finished application and a claiming run may not do.
FinalStep ==
  \A x \in Applications : Exists(x) =>
    /\ apps[x].status \in Finished => apps'[x] = apps[x]
    /\ apps[x].run # NoRun => apps'[x].run = apps[x].run

LEMMA StepIsFinal == AppInv /\ [AppNext]_allVars => FinalStep
<1> SUFFICES ASSUME AppInv, [AppNext]_allVars PROVE FinalStep
  OBVIOUS
<1> USE DEF FinalStep
<1>0. AppTypeOK /\ HandlesExist /\ ApprovedHasNoRun
  BY DEF AppInv
<1>1. ASSUME UNCHANGED apps
      PROVE  FinalStep
  BY <1>1
<1>2. CASE Publish \/ PassTime
  BY <1>1, <1>2 DEF Publish, PassTime, appVars
<1>3. CASE \E k \in RequestIds, t \in Subjects, m \in Materials, n \in Answers, a \in Targets :
             Decide(k, t, m, n, a)
  BY <1>1, <1>3 DEF Decide, appVars
<1>4. CASE \E a \in Targets, b \in Bindings : ChangeRegistry(a, b)
  BY <1>1, <1>4 DEF ChangeRegistry
<1>5. CASE \E t \in Subjects, a \in Targets : QualifyCreate(t, a)
  BY <1>1, <1>5 DEF QualifyCreate
<1>6. ASSUME NEW x \in Applications, NEW c \in creates, CreateApplication(x, c)
      PROVE  FinalStep
  BY <1>0, <1>6 DEF CreateApplication, Exists, AppTypeOK
<1>7. CASE \E x \in Applications, r \in Runs : DispatchAccepted(x, r)
  BY <1>1, <1>7 DEF DispatchAccepted
<1>8. CASE \E x \in Applications : DispatchFailed(x)
  BY <1>1, <1>8 DEF DispatchFailed
<1>9. ASSUME NEW x \in Applications, MarkDispatch(x)
      PROVE  FinalStep
  <2>1. Exists(x) /\ apps[x] \in Application
    BY <1>9, <1>0, ExistingIsApplication DEF MarkDispatch, HandlesExist
  <2>2. CASE apps[x].status = "approved" /\ apps[x].dispatch = "pending"
    BY <1>9, <1>0, <2>1, <2>2 DEF MarkDispatch, ApprovedHasNoRun, AppTypeOK, Finished
  <2>3. CASE ~(apps[x].status = "approved" /\ apps[x].dispatch = "pending")
    BY <1>9, <2>3 DEF MarkDispatch
  <2> QED BY <2>2, <2>3
<1>10. CASE \E r, s \in Runs : Rerun(r, s)
  BY <1>1, <1>10 DEF Rerun
<1>11. CASE \E r \in Runs : QualifyClaim(r)
  BY <1>1, <1>11 DEF QualifyClaim
<1>12. ASSUME NEW r \in Runs, Claim(r)
       PROVE  FinalStep
  <2>1. Exists(runOf[r]) /\ runOf[r] \in Applications
    BY <1>12, <1>0 DEF Claim, HandlesExist, AppTypeOK
  <2>2. apps[runOf[r]].status = "approved" /\ apps[runOf[r]].run = NoRun
    BY <1>12, <1>0, <2>1 DEF Claim, ApprovedHasNoRun
  <2> QED BY <1>12, <1>0, <2>1, <2>2 DEF Claim, AppTypeOK, Finished
<1>13. ASSUME NEW r \in Runs, NEW o \in Finished, NEW b \in BOOLEAN, ReportResult(r, o, b)
       PROVE  FinalStep
  <2>1. PICK x \in Applications :
          /\ Exists(x) /\ apps[x].status = "claimed"
          /\ \E status \in Finished : Reported(x, status)
    BY <1>13, ReportEffect
  <2>2. PICK status \in Finished : apps' = [apps EXCEPT ![x].status = status]
    BY <2>1 DEF Reported
  <2>3. apps[x] \in Application
    BY <2>1, ExistingIsApplication
  <2>4. apps'[x].run = apps[x].run /\ \A y \in Applications : y # x => apps'[y] = apps[y]
    BY <1>0, <2>2, <2>3 DEF AppTypeOK, Application
  <2> QED BY <2>1, <2>4 DEF Finished
<1>14. CASE UNCHANGED allVars
  BY <1>1, <1>14 DEF allVars, appVars
<1> QED
  BY <1>2, <1>3, <1>4, <1>5, <1>6, <1>7, <1>8, <1>9, <1>10, <1>11, <1>12, <1>13, <1>14
     DEF AppNext

----------------------------------------------------------------------------
\* The strengthened invariant of the promotion path holds in every behaviour.
THEOREM AppInvariant == AppSpec => []AppInv
<1> QED BY InitAppInv, NextAppInv, PTL DEF AppSpec

\* Type correctness of the ledger, the registry and the application table.
THEOREM AppTypeCorrect == AppSpec => []AppTypeOK
<1>1. AppInv => AppTypeOK
  BY DEF AppInv
<1> QED BY <1>1, AppInvariant, PTL

\* However creates, claims and results interleave, at most one application of a
\* ticket and account is not rejected (application_create's duplicate check).
THEOREM OpenOnce == AppSpec => []OneOpenApplication
<1>1. AppInv => OneOpenApplication
  BY DEF AppInv
<1> QED BY <1>1, AppInvariant, PTL

\* Two applications never take effect at the same registry revision
\* (application_result compares the revision and then advances it).
THEOREM AppliedOncePerRevision == AppSpec => []OneAppliedPerRevision
<1>1. AppInv => OneAppliedPerRevision
  BY DEF AppInv
<1> QED BY <1>1, AppInvariant, PTL

\* What the application table says of its dispatch and of its run is true of
\* the workflow runs that exist.
THEOREM DispatchTruth == AppSpec => []DispatchIsTrue
<1>1. AppInv => DispatchIsTrue
  BY DEF AppInv
<1> QED BY <1>1, AppInvariant, PTL

\* A finished application, and the run that claimed one, never change.
THEOREM OutcomeFinal == AppSpec => OutcomeIsFinal
<1>1. AppSpec => [][FinalStep]_allVars
  BY AppInvariant, StepIsFinal, PTL DEF AppSpec
<1> QED BY <1>1 DEF OutcomeIsFinal, FinalStep

\* The promotion path implements PromotionPromise: an account takes a strategy
\* only on a consent for that ticket, that account and the current revision.
THEOREM PromiseKept == AppSpec => KeepsPromise
<1> QED
  BY InitKeepsPromise, StepKeepsPromise, AppInvariant, PTL
     DEF AppSpec, KeepsPromise, Promise!PromiseSpec

-----------------------------------------------------------------------------
(* The current strategies: every row that is kept anywhere is the resolution of a *)
(* reading, and what a reading found stood at the time its entry carries or later. *)

\* What a level held at some time since ts, and what a reading may have found then.
HeldSince(level, ts) == {github[level]} \cup {p[2] : p \in {q \in past : q[1] = level /\ q[3] >= ts}}
AnswersSince(level, ts) ==
  {[status |-> "ok", content |-> c] : c \in HeldSince(level, ts)}
    \cup {[status |-> f, content |-> NoContent] : f \in Failures}
ReadingsSince(ts) ==
  {read \in [Levels -> UNION {AnswersSince(level, ts) : level \in Levels}] :
     \A level \in Levels : read[level] \in AnswersSince(level, ts)}
ReadSince(entry) ==
  /\ entry.ts \in Nat /\ entry.ts <= clock
  /\ entry.rows = Fallback \/ \E read \in ReadingsSince(entry.ts) : entry.rows = RowsOf(read)

\* The entries that are kept: in KV, in memories and by loads on their way to KV.
OnTheWay == {"queued", "write", "record"}
Entries ==
  {e \in {kv} \cup {mem[i] : i \in Isolates} : e # Unset}
    \cup {loads[l].entry : l \in {k \in Loads : loads[k].pc \in OnTheWay}}

\* What is known of a resume: its level's present content is among those it has seen,
\* what its handler read is too, and what was compared was in force.
Warranted(r) ==
  \E c \in r.held : c.target = r.digest /\ c.enabled = "false" /\ c.inventory = {} /\ c.recovery
ResumeIsTrue(r) ==
  /\ r = [account |-> r.account, digest |-> r.digest, pc |-> r.pc, read |-> r.read, held |-> r.held]
  /\ r.digest # Unset
  /\ r.pc # "sent" => github[Options[r.account].level] \in r.held
  /\ r.pc = "read" => r.read \in r.held
  /\ r.pc \in {"compared", "sent"} => Warranted(r)

StrategyInv ==
  /\ clock \in Nat /\ site \in Sites
  /\ \A p \in past : p[3] \in Nat
  /\ mem = [i \in Isolates |-> mem[i]]
  /\ loads = [l \in Loads |-> [pc |-> loads[l].pc, isolate |-> loads[l].isolate,
                               background |-> loads[l].background, entry |-> loads[l].entry]]
  /\ \A e \in Entries : ReadSince(e)
  /\ \A r \in resumes : ResumeIsTrue(r)

LEMMA StrategyStarts == StrategyInit => StrategyInv
  BY DEF StrategyInit, StrategyInv, NoLoad, Entries, OnTheWay

\* What a reading found goes on having stood since its time.
LEMMA HeldStays ==
  ASSUME StrategyInv, [StrategyNext]_strategyVars, NEW level, NEW ts \in Nat, ts <= clock
  PROVE  HeldSince(level, ts) \subseteq HeldSince(level, ts)'
<1>1. ASSUME NEW v, NEW content, Change(v, content) PROVE HeldSince(level, ts) \subseteq HeldSince(level, ts)'
  <2>1. PICK q : q = <<v, github[v], clock>>
    OBVIOUS
  <2>2. q[1] = v /\ q[2] = github[v] /\ q[3] = clock /\ clock >= ts
    BY <2>1 DEF StrategyInv
  <2>3. past' = past \cup {q} /\ github' = [github EXCEPT ![v] = content]
    BY <1>1, <2>1 DEF Change
  <2>4. level # v => github'[level] = github[level]
    BY <2>3
  <2> QED BY <2>2, <2>3, <2>4 DEF HeldSince
<1>2. CASE github' = github /\ past' = past
  BY <1>2 DEF HeldSince
<1> QED
  BY <1>1, <1>2 DEF StrategyNext, Serve, Evict, AskResume, Load, Compare, WriteCache, RecordWrite, Cancel,
                    ReadForResume, CompareResume, PostResume, Becomes, Pass, strategyVars

LEMMA SiteStays ==
  ASSUME StrategyInv, [StrategyNext]_strategyVars
  PROVE  site' = site /\ clock' \in Nat /\ clock <= clock' /\ \A p \in past' : p[3] \in Nat
<1>1. ASSUME NEW v, NEW content, Change(v, content) PROVE site' = site /\ clock' = clock /\ \A p \in past' : p[3] \in Nat
  BY <1>1 DEF Change, StrategyInv
<1>2. CASE Pass
  BY <1>2 DEF Pass, StrategyInv
<1>3. CASE site' = site /\ clock' = clock /\ past' = past
  BY <1>3 DEF StrategyInv
<1>4. clock \in Nat
  BY DEF StrategyInv
<1>5. \/ Pass \/ (site' = site /\ clock' = clock /\ past' = past)
      \/ \E v \in Levels : \E content \in site.levels[v] : Change(v, content)
  BY DEF StrategyNext, Serve, Evict, AskResume, Load, Compare, WriteCache, RecordWrite, Cancel,
                    ReadForResume, CompareResume, PostResume, Becomes, strategyVars
<1>6. ASSUME clock' = clock PROVE clock' \in Nat /\ clock <= clock'
  BY <1>4, <1>6
<1> QED BY <1>1, <1>2, <1>3, <1>5, <1>6

LEMMA EntryStays ==
  ASSUME StrategyInv, [StrategyNext]_strategyVars, NEW entry, ReadSince(entry)
  PROVE  ReadSince(entry)'
<1>1. site' = site /\ clock' \in Nat /\ clock <= clock'
  BY SiteStays
<1>2. entry.ts \in Nat /\ entry.ts <= clock /\ clock \in Nat
  BY DEF ReadSince, StrategyInv
<1>3. CASE entry.rows = Fallback
  BY <1>1, <1>2, <1>3 DEF ReadSince, Fallback, Accounts, Options
<1>4. CASE \E read \in ReadingsSince(entry.ts) : entry.rows = RowsOf(read)
  <2>1. PICK read \in ReadingsSince(entry.ts) : entry.rows = RowsOf(read)
    BY <1>4
  <2>2. \A level \in Levels : AnswersSince(level, entry.ts) \subseteq AnswersSince(level, entry.ts)'
    <3>1. TAKE level \in Levels
    <3>2. HeldSince(level, entry.ts) \subseteq HeldSince(level, entry.ts)'
      BY <1>2, HeldStays
    <3> QED BY <3>2 DEF AnswersSince
  <2>3. Levels' = Levels
    BY <1>1 DEF Levels
  <2>4. read \in ReadingsSince(entry.ts)'
    BY <2>1, <2>2, <2>3 DEF ReadingsSince
  <2>5. RowsOf(read)' = RowsOf(read)
    BY <1>1 DEF RowsOf, RowOf, Accounts, Options
  <2> QED BY <1>1, <1>2, <2>1, <2>4, <2>5 DEF ReadSince
<1> QED BY <1>3, <1>4 DEF ReadSince

\* A step keeps the invariant whose entries are those there were, but for one that was read.
\* Whatever changes under a request is witnessed by it.
LEMMA ChangeWitnessed ==
  ASSUME StrategyInv, NEW level, NEW content, Change(level, content)
  PROVE  \A r \in resumes' : ResumeIsTrue(r)'
<1>1. /\ github' = [github EXCEPT ![level] = content] /\ site' = site
      /\ resumes' = {Witnessed(r, level, content) : r \in resumes}
  BY DEF Change
<1>2. SUFFICES ASSUME NEW r \in resumes, NEW q, q = Witnessed(r, level, content) PROVE ResumeIsTrue(q)'
  BY <1>1
<1>3. ResumeIsTrue(r)
  BY DEF StrategyInv
<1>4. CASE Options[r.account].level = level /\ r.pc # "sent"
  <2>1. q = [r EXCEPT !.held = @ \cup {content}]
    BY <1>2, <1>4 DEF Witnessed
  <2>2. q = [account |-> r.account, digest |-> r.digest, pc |-> r.pc, read |-> r.read, held |-> r.held \cup {content}]
    BY <1>3, <2>1 DEF ResumeIsTrue
  <2>3. PICK o : o = Options[r.account].level
    OBVIOUS
  <2>4. (Options[q.account].level)' = o
    BY <1>1, <2>2, <2>3 DEF Options
  <2>5. github'[o] \in {github[o], content}
    BY <1>1
  <2>6. github[o] \in r.held
    BY <1>3, <1>4, <2>3 DEF ResumeIsTrue
  <2> QED BY <1>3, <2>2, <2>4, <2>5, <2>6 DEF ResumeIsTrue, Warranted
<1>5. CASE ~(Options[r.account].level = level /\ r.pc # "sent")
  <2>1. q = r
    BY <1>2, <1>5 DEF Witnessed
  <2>2. PICK o : o = Options[r.account].level
    OBVIOUS
  <2>3. (Options[r.account].level)' = o
    BY <1>1, <2>2 DEF Options
  <2>4. r.pc # "sent" => github'[o] = github[o]
    BY <1>1, <1>5, <2>2
  <2> QED BY <1>3, <2>1, <2>2, <2>3, <2>4 DEF ResumeIsTrue, Warranted
<1> QED BY <1>4, <1>5

LEMMA RequestRests ==
  ASSUME NEW r, ResumeIsTrue(r), site' = site, github' = github
  PROVE  ResumeIsTrue(r)'
<1>1. (github[Options[r.account].level])' = github[Options[r.account].level]
  BY DEF Options
<1> QED BY <1>1 DEF ResumeIsTrue, Warranted

LEMMA ResumesRest ==
  ASSUME StrategyInv, [StrategyNext]_strategyVars, resumes' = resumes
  PROVE  \A r \in resumes' : ResumeIsTrue(r)'
<1>1. ASSUME NEW level, NEW content, Change(level, content) PROVE \A r \in resumes' : ResumeIsTrue(r)'
  BY <1>1, ChangeWitnessed
<1>2. CASE site' = site /\ github' = github
  BY <1>2, RequestRests DEF StrategyInv
<1> QED
  BY <1>1, <1>2 DEF StrategyNext, Serve, Evict, AskResume, Load, Compare, WriteCache, RecordWrite, Cancel,
                    ReadForResume, CompareResume, PostResume, Becomes, Pass, strategyVars

LEMMA StrategyRests ==
  ASSUME StrategyInv, [StrategyNext]_strategyVars,
         \A e \in Entries' : e \in Entries \/ ReadSince(e)',
         mem' = [i \in Isolates |-> mem'[i]],
         loads' = [l \in Loads |-> [pc |-> loads'[l].pc, isolate |-> loads'[l].isolate,
                                    background |-> loads'[l].background, entry |-> loads'[l].entry]],
         \A r \in resumes' : ResumeIsTrue(r)'
  PROVE  StrategyInv'
<1>1. \A e \in Entries' : ReadSince(e)'
  <2>1. TAKE e \in Entries'
  <2>2. CASE e \in Entries
    BY <2>2, EntryStays DEF StrategyInv
  <2> QED BY <2>1, <2>2
<1>2. site' \in Sites /\ clock' \in Nat /\ \A p \in past' : p[3] \in Nat
  BY SiteStays DEF StrategyInv
<1> QED BY <1>1, <1>2 DEF StrategyInv

LEMMA LoadsAreTrue ==
  ASSUME StrategyInv, NEW l \in Loads, Load(l)
  PROVE  StrategyInv'
<1>0. /\ loads[l].pc = "read" /\ UNCHANGED <<site, clock, github, past, busy, kv, last, resumes>>
  BY DEF Load
<1>1. PICK entry : /\ entry.ts = clock /\ (entry.rows = Fallback \/ \E read \in Readings : entry.rows = RowsOf(read))
                   /\ mem' = [mem EXCEPT ![loads[l].isolate] = entry]
                   /\ loads' = [loads EXCEPT ![l] = [@ EXCEPT !.pc = "queued", !.entry = entry]]
  <2>1. PICK rows \in {RowsOf(read) : read \in Readings} \cup {Fallback} :
          /\ mem' = [mem EXCEPT ![loads[l].isolate] = [rows |-> rows, ts |-> clock]]
          /\ loads' = [loads EXCEPT ![l] = [@ EXCEPT !.pc = "queued", !.entry = [rows |-> rows, ts |-> clock]]]
    BY DEF Load
  <2>2. PICK entry : entry = [rows |-> rows, ts |-> clock]
    OBVIOUS
  <2>3. entry.rows = rows /\ entry.ts = clock
    BY <2>2
  <2> QED BY <2>1, <2>2, <2>3
<1>2. clock \in Nat
  BY DEF StrategyInv
<1>3. Readings \subseteq ReadingsSince(clock)
  <2>1. \A level \in Levels : LevelAnswers(level) \subseteq AnswersSince(level, clock)
    BY DEF LevelAnswers, AnswersSince, HeldSince
  <2> QED BY <2>1 DEF Readings, ReadingsSince
<1>4. ReadSince(entry)
  BY <1>1, <1>2, <1>3 DEF ReadSince
<1>5. StrategyNext
  BY DEF StrategyNext
<1>6. ReadSince(entry)'
  BY <1>4, <1>5, EntryStays
<1>7. mem' = [i \in Isolates |-> mem'[i]] /\ \A i \in Isolates : mem'[i] \in {mem[i], entry}
  BY <1>1 DEF StrategyInv
<1>8. PICK x : x = loads[l]
  OBVIOUS
<1>9. x = [pc |-> x.pc, isolate |-> x.isolate, background |-> x.background, entry |-> x.entry]
  BY <1>8 DEF StrategyInv
<1>10. PICK y : y = [x EXCEPT !.pc = "queued", !.entry = entry]
  OBVIOUS
<1>11. y = [pc |-> "queued", isolate |-> x.isolate, background |-> x.background, entry |-> entry]
  BY <1>9, <1>10
<1>12. loads' = [loads EXCEPT ![l] = y]
  BY <1>1, <1>8, <1>10
<1>13. /\ loads' = [k \in Loads |-> [pc |-> loads'[k].pc, isolate |-> loads'[k].isolate,
                                     background |-> loads'[k].background, entry |-> loads'[k].entry]]
       /\ \A k \in Loads : loads'[k].entry = entry \/ loads'[k] = loads[k]
  BY <1>11, <1>12 DEF StrategyInv
<1>14. Entries' \subseteq Entries \cup {entry}
  BY <1>0, <1>7, <1>13 DEF Entries
<1>15. \A r \in resumes' : ResumeIsTrue(r)'
  BY <1>0, ResumesRest DEF StrategyNext
<1>16. \A e \in Entries' : e \in Entries \/ ReadSince(e)'
  BY <1>6, <1>14
<1> HIDE DEF StrategyInv
<1> QED BY <1>5, <1>7, <1>13, <1>15, <1>16, StrategyRests

\* Where a load goes on: nowhere, to another place with its entry, or to none at all.
GoesOn(x, y) == y = x \/ y.pc \notin OnTheWay \/ (x.pc \in OnTheWay /\ y.entry = x.entry)
ShapedLoad(y) == y = [pc |-> y.pc, isolate |-> y.isolate, background |-> y.background, entry |-> y.entry]

LEMMA LoadGoesOn ==
  ASSUME StrategyInv, [StrategyNext]_strategyVars,
         mem' = [i \in Isolates |-> mem'[i]], \A i \in Isolates : mem'[i] \in {mem[i], kv, Unset},
         kv' = kv \/ \E l \in Loads : loads[l].pc \in OnTheWay /\ kv' = loads[l].entry,
         loads' = [l \in Loads |-> loads'[l]], \A l \in Loads : GoesOn(loads[l], loads'[l]) /\ ShapedLoad(loads'[l]),
         resumes' = resumes
  PROVE  StrategyInv'
<1>1. Entries' \subseteq Entries
  BY DEF Entries, GoesOn
<1>2. loads' = [l \in Loads |-> [pc |-> loads'[l].pc, isolate |-> loads'[l].isolate,
                                 background |-> loads'[l].background, entry |-> loads'[l].entry]]
  BY DEF ShapedLoad
<1>3. \A r \in resumes' : ResumeIsTrue(r)'
  BY ResumesRest
<1>4. \A e \in Entries' : e \in Entries \/ ReadSince(e)'
  BY <1>1
<1> QED BY <1>2, <1>3, <1>4, StrategyRests

LEMMA MemRests == ASSUME StrategyInv, mem' = mem
  PROVE  mem' = [i \in Isolates |-> mem'[i]] /\ \A i \in Isolates : mem'[i] \in {mem[i], kv, Unset}
  BY DEF StrategyInv

\* A load that becomes another, the others resting.
LEMMA OneLoadMoves ==
  ASSUME StrategyInv, NEW l \in Loads, NEW y, loads' = [loads EXCEPT ![l] = y], GoesOn(loads[l], y), ShapedLoad(y)
  PROVE  loads' = [k \in Loads |-> loads'[k]] /\ \A k \in Loads : GoesOn(loads[k], loads'[k]) /\ ShapedLoad(loads'[k])
<1>1. loads' = [k \in Loads |-> IF k = l THEN y ELSE loads[k]]
  BY DEF StrategyInv
<1>2. \A k \in Loads : ShapedLoad(loads[k]) /\ GoesOn(loads[k], loads[k])
  BY DEF StrategyInv, ShapedLoad, GoesOn
<1>3. \A k \in Loads : loads'[k] = IF k = l THEN y ELSE loads[k]
  BY <1>1
<1>4. loads' = [k \in Loads |-> loads'[k]]
  BY <1>1
<1>5. ASSUME NEW k \in Loads PROVE GoesOn(loads[k], loads'[k]) /\ ShapedLoad(loads'[k])
  <2>1. PICK x, z : x = loads[k] /\ z = loads'[k]
    OBVIOUS
  <2>2. (z = y /\ x = loads[l]) \/ z = x
    BY <1>3, <2>1
  <2>3. GoesOn(x, z) /\ ShapedLoad(z)
    <3>1. CASE z = x
      BY <1>2, <2>1, <3>1
    <3>2. CASE z = y /\ x = loads[l]
      BY <3>2
    <3> QED BY <2>2, <3>1, <3>2
  <2> QED BY <2>1, <2>3
<1> QED BY <1>4, <1>5

LEMMA LoadsRest ==
  ASSUME StrategyInv, loads' = loads
  PROVE  loads' = [k \in Loads |-> loads'[k]] /\ \A k \in Loads : GoesOn(loads[k], loads'[k]) /\ ShapedLoad(loads'[k])
<1>1. loads' = [k \in Loads |-> loads'[k]]
  BY DEF StrategyInv
<1>2. \A k \in Loads : ShapedLoad(loads[k]) /\ GoesOn(loads[k], loads[k])
  BY DEF StrategyInv, ShapedLoad, GoesOn
<1> QED BY <1>1, <1>2

LEMMA NoLoadIsShaped == ASSUME NEW x PROVE GoesOn(x, NoLoad) /\ ShapedLoad(NoLoad)
  BY DEF GoesOn, ShapedLoad, NoLoad, OnTheWay

LEMMA ServeKeeps ==
  ASSUME StrategyInv, NEW i \in Isolates, Serve(i)
  PROVE  StrategyInv'
<1>1. UNCHANGED <<site, clock, github, past, kv, last, resumes>> /\ StrategyNext
  BY DEF Serve, StrategyNext
<1>2. mem' = [k \in Isolates |-> mem'[k]] /\ \A k \in Isolates : mem'[k] \in {mem[k], kv, Unset}
  BY DEF Serve, StrategyInv, Adopted
<1>3. loads' = loads \/ \E l \in Loads, b \in BOOLEAN : loads' = [loads EXCEPT ![l] = Begun(i, b)]
  BY DEF Serve
<1>4. ASSUME NEW b \in BOOLEAN, NEW x PROVE GoesOn(x, Begun(i, b)) /\ ShapedLoad(Begun(i, b))
  <2>1. Begun(i, b) = [pc |-> "read", isolate |-> i, background |-> b, entry |-> Unset]
    <3>1. PICK n : n = NoLoad
      OBVIOUS
    <3>2. n = [pc |-> "idle", isolate |-> Unset, background |-> FALSE, entry |-> Unset]
      BY <3>1 DEF NoLoad
    <3>3. PICK y : y = [n EXCEPT !.pc = "read", !.isolate = i, !.background = b]
      OBVIOUS
    <3>4. y = Begun(i, b)
      BY <3>1, <3>3 DEF Begun
    <3>5. y = [pc |-> "read", isolate |-> i, background |-> b, entry |-> Unset]
      BY <3>2, <3>3
    <3> QED BY <3>4, <3>5
  <2> QED BY <2>1 DEF GoesOn, ShapedLoad, OnTheWay
<1>5. loads' = [k \in Loads |-> loads'[k]] /\ \A k \in Loads : GoesOn(loads[k], loads'[k]) /\ ShapedLoad(loads'[k])
  <2>1. CASE loads' = loads
    BY <2>1, LoadsRest
  <2>2. ASSUME NEW l \in Loads, NEW b \in BOOLEAN, loads' = [loads EXCEPT ![l] = Begun(i, b)]
        PROVE  loads' = [k \in Loads |-> loads'[k]] /\ \A k \in Loads : GoesOn(loads[k], loads'[k]) /\ ShapedLoad(loads'[k])
    <3>1. PICK y : y = Begun(i, b)
      OBVIOUS
    <3>2. GoesOn(loads[l], y) /\ ShapedLoad(y)
      BY <1>4, <3>1
    <3> QED BY <2>2, <3>1, <3>2, OneLoadMoves
  <2> QED BY <1>3, <2>1, <2>2
<1> QED BY <1>1, <1>2, <1>5, LoadGoesOn

LEMMA DoneMoves ==
  ASSUME StrategyInv, NEW l \in Loads, Done(l)
  PROVE  loads' = [k \in Loads |-> loads'[k]] /\ \A k \in Loads : GoesOn(loads[k], loads'[k]) /\ ShapedLoad(loads'[k])
<1>1. PICK y : y = NoLoad
  OBVIOUS
<1>2. GoesOn(loads[l], y) /\ ShapedLoad(y)
  BY <1>1, NoLoadIsShaped
<1>3. loads' = [loads EXCEPT ![l] = y]
  BY <1>1 DEF Done
<1> QED BY <1>2, <1>3, OneLoadMoves

\* A load that only gets another place goes on with its entry.
LEMMA PlaceMoves ==
  ASSUME StrategyInv, NEW l \in Loads, NEW place, loads[l].pc \in OnTheWay, loads' = [loads EXCEPT ![l].pc = place]
  PROVE  loads' = [k \in Loads |-> loads'[k]] /\ \A k \in Loads : GoesOn(loads[k], loads'[k]) /\ ShapedLoad(loads'[k])
<1>1. PICK x : x = loads[l]
  OBVIOUS
<1>2. x = [pc |-> x.pc, isolate |-> x.isolate, background |-> x.background, entry |-> x.entry]
  BY <1>1 DEF StrategyInv
<1>3. PICK y : y = [x EXCEPT !.pc = place]
  OBVIOUS
<1>4. y = [pc |-> place, isolate |-> x.isolate, background |-> x.background, entry |-> x.entry]
  BY <1>2, <1>3
<1>5. loads' = [loads EXCEPT ![l] = y]
  BY <1>1, <1>3
<1>6. GoesOn(x, y) /\ ShapedLoad(y)
  BY <1>1, <1>4 DEF GoesOn, ShapedLoad
<1>7. GoesOn(loads[l], y)
  BY <1>1, <1>6
<1> QED BY <1>5, <1>6, <1>7, OneLoadMoves

LEMMA CacheCommandKeeps ==
  ASSUME StrategyInv, NEW l \in Loads, Compare(l) \/ WriteCache(l) \/ RecordWrite(l)
  PROVE  StrategyInv'
<1>1. StrategyNext /\ mem' = mem /\ resumes' = resumes
  BY DEF StrategyNext, Compare, WriteCache, RecordWrite
<1>2. loads[l].pc \in OnTheWay
  BY DEF Compare, WriteCache, RecordWrite, OnTheWay
<1>3. kv' = kv \/ kv' = loads[l].entry
  BY DEF Compare, WriteCache, RecordWrite
<1>4. Done(l) \/ \E place : loads' = [loads EXCEPT ![l].pc = place]
  BY DEF Compare, WriteCache, RecordWrite
<1>5. loads' = [k \in Loads |-> loads'[k]] /\ \A k \in Loads : GoesOn(loads[k], loads'[k]) /\ ShapedLoad(loads'[k])
  BY <1>2, <1>4, DoneMoves, PlaceMoves
<1> QED BY <1>1, <1>2, <1>3, <1>5, MemRests, LoadGoesOn

LEMMA CancelKeeps ==
  ASSUME StrategyInv, NEW l \in Loads, Cancel(l)
  PROVE  StrategyInv'
<1>1. StrategyNext /\ mem' = mem /\ resumes' = resumes /\ kv' = kv
  BY DEF StrategyNext, Cancel
<1>2. PICK y : y = NoLoad
  OBVIOUS
<1>3. GoesOn(loads[l], y) /\ ShapedLoad(y) /\ loads' = [loads EXCEPT ![l] = y]
  BY <1>2, NoLoadIsShaped DEF Cancel
<1>4. loads' = [k \in Loads |-> loads'[k]] /\ \A k \in Loads : GoesOn(loads[k], loads'[k]) /\ ShapedLoad(loads'[k])
  BY <1>3, OneLoadMoves
<1> QED BY <1>1, <1>4, MemRests, LoadGoesOn

LEMMA EvictKeeps ==
  ASSUME StrategyInv, NEW i \in Isolates, Evict(i)
  PROVE  StrategyInv'
<1>1. StrategyNext /\ resumes' = resumes /\ kv' = kv
  BY DEF StrategyNext, Evict
<1>2. mem' = [k \in Isolates |-> mem'[k]] /\ \A k \in Isolates : mem'[k] \in {mem[k], kv, Unset}
  BY DEF Evict, StrategyInv
<1>3. loads' = [k \in Loads |-> loads'[k]]
  BY DEF Evict
<1>4. ASSUME NEW l \in Loads PROVE GoesOn(loads[l], loads'[l]) /\ ShapedLoad(loads'[l])
  <2>1. PICK x, y : x = loads[l] /\ y = loads'[l]
    OBVIOUS
  <2>2. x = [pc |-> x.pc, isolate |-> x.isolate, background |-> x.background, entry |-> x.entry]
    BY <2>1 DEF StrategyInv
  <2>3. PICK z : z = [x EXCEPT !.background = FALSE]
    OBVIOUS
  <2>4. z.pc = x.pc /\ z.entry = x.entry /\ ShapedLoad(z)
    <3>1. z = [pc |-> x.pc, isolate |-> x.isolate, background |-> FALSE, entry |-> x.entry]
      BY <2>2, <2>3
    <3> QED BY <3>1 DEF ShapedLoad
  <2>5. y = x \/ y = NoLoad \/ (x.pc \notin {"read", "queued"} /\ y = z)
    BY <2>1, <2>3 DEF Evict
  <2>6. GoesOn(x, y) /\ ShapedLoad(y)
    <3>1. CASE y = x
      BY <2>2, <3>1 DEF GoesOn, ShapedLoad
    <3>2. CASE y = NoLoad
      BY <3>2, NoLoadIsShaped
    <3>3. CASE y = z
      BY <2>4, <3>3 DEF GoesOn
    <3> QED BY <2>5, <3>1, <3>2, <3>3
  <2> QED BY <2>1, <2>6
<1> QED BY <1>1, <1>2, <1>3, <1>4, LoadGoesOn

\* The memories, the loads and KV rest while a request goes on.
LEMMA RequestMoves ==
  ASSUME StrategyInv, StrategyNext, UNCHANGED <<mem, loads, kv>>, \A r \in resumes' : ResumeIsTrue(r)'
  PROVE  StrategyInv'
<1>1. Entries' = Entries
  BY DEF Entries
<1>2. \A e \in Entries' : e \in Entries \/ ReadSince(e)'
  BY <1>1
<1>3. /\ mem' = [k \in Isolates |-> mem'[k]]
      /\ loads' = [l \in Loads |-> [pc |-> loads'[l].pc, isolate |-> loads'[l].isolate,
                                    background |-> loads'[l].background, entry |-> loads'[l].entry]]
  BY DEF StrategyInv
<1> QED BY <1>2, <1>3, StrategyRests

LEMMA AskKeeps ==
  ASSUME StrategyInv, NEW i \in Isolates, NEW a \in Accounts, AskResume(i, a)
  PROVE  StrategyInv'
<1>1. StrategyNext /\ UNCHANGED <<site, github, mem, loads, kv>>
  BY DEF StrategyNext, AskResume
<1>2. PICK digest, held : /\ digest # Unset /\ held = {github[Options[a].level]}
                          /\ resumes' = resumes \cup {[account |-> a, digest |-> digest, pc |-> "asked", read |-> Unset, held |-> held]}
  BY DEF AskResume
<1>3. PICK q : q = [account |-> a, digest |-> digest, pc |-> "asked", read |-> Unset, held |-> held]
  OBVIOUS
<1>4. ResumeIsTrue(q)
  BY <1>2, <1>3 DEF ResumeIsTrue
<1>5. \A r \in resumes' : ResumeIsTrue(r)
  BY <1>2, <1>3, <1>4 DEF StrategyInv
<1>6. \A r \in resumes' : ResumeIsTrue(r)'
  BY <1>1, <1>5, RequestRests
<1> QED BY <1>1, <1>6, RequestMoves

\* The reading is of what is in force, the comparison of the reading that was kept, and
\* the dispatch trusts the comparison.
LEMMA ResumeKeeps ==
  ASSUME StrategyInv, NEW r \in resumes, ReadForResume(r) \/ CompareResume(r) \/ PostResume(r)
  PROVE  StrategyInv'
<1>1. StrategyNext /\ UNCHANGED <<site, github, mem, loads, kv>>
  BY DEF StrategyNext, ReadForResume, CompareResume, PostResume, Becomes
<1>2. ResumeIsTrue(r)
  BY DEF StrategyInv
<1>3. ASSUME NEW q, ResumeIsTrue(q), resumes' = (resumes \ {r}) \cup {q} PROVE StrategyInv'
  <2>1. \A p \in resumes' : ResumeIsTrue(p)
    BY <1>3 DEF StrategyInv
  <2>2. \A p \in resumes' : ResumeIsTrue(p)'
    BY <1>1, <2>1, RequestRests
  <2> QED BY <1>1, <2>2, RequestMoves
<1>4. ASSUME resumes' = (resumes \ {r}) \cup {} PROVE StrategyInv'
  <2>1. \A p \in resumes' : ResumeIsTrue(p)
    BY <1>4 DEF StrategyInv
  <2>2. \A p \in resumes' : ResumeIsTrue(p)'
    BY <1>1, <2>1, RequestRests
  <2> QED BY <1>1, <2>2, RequestMoves
<1>5. ASSUME ReadForResume(r) PROVE StrategyInv'
  <2>1. PICK got : got = github[Options[r.account].level]
    OBVIOUS
  <2>2. PICK q : q = [r EXCEPT !.pc = "read", !.read = got]
    OBVIOUS
  <2>3. q = [account |-> r.account, digest |-> r.digest, pc |-> "read", read |-> got, held |-> r.held]
    BY <1>2, <2>2 DEF ResumeIsTrue
  <2>4. got \in r.held
    BY <1>2, <1>5, <2>1 DEF ResumeIsTrue, ReadForResume
  <2>5. ResumeIsTrue(q)
    BY <1>2, <2>1, <2>3, <2>4 DEF ResumeIsTrue
  <2>6. resumes' = (resumes \ {r}) \cup {q} \/ resumes' = (resumes \ {r}) \cup {}
    BY <1>5, <2>1, <2>2 DEF ReadForResume, Becomes
  <2> QED BY <1>3, <1>4, <2>5, <2>6
<1>6. ASSUME CompareResume(r) PROVE StrategyInv'
  <2>1. PICK q : q = [r EXCEPT !.pc = "compared"]
    OBVIOUS
  <2>2. q = [account |-> r.account, digest |-> r.digest, pc |-> "compared", read |-> r.read, held |-> r.held]
    BY <1>2, <2>1 DEF ResumeIsTrue
  <2>3. r.pc = "read" /\ r.read \in r.held /\ github[Options[r.account].level] \in r.held
    BY <1>2, <1>6 DEF CompareResume, ResumeIsTrue
  <2>4. ASSUME StillStands(r) PROVE ResumeIsTrue(q)
    <3>1. /\ r.read.target = r.digest /\ r.read.enabled = "false" /\ r.read.inventory = {} /\ r.read.recovery
      BY <1>2, <2>4 DEF StillStands, ResumeTarget, ResumeIsTrue
    <3> QED BY <1>2, <2>2, <2>3, <3>1 DEF ResumeIsTrue, Warranted
  <2>5. \/ StillStands(r) /\ resumes' = (resumes \ {r}) \cup {q}
        \/ resumes' = (resumes \ {r}) \cup {}
    BY <1>6, <2>1 DEF CompareResume, Becomes
  <2> QED BY <1>3, <1>4, <2>4, <2>5
<1>7. ASSUME PostResume(r) PROVE StrategyInv'
  <2>1. PICK q : q = [r EXCEPT !.pc = "sent"]
    OBVIOUS
  <2>2. q = [account |-> r.account, digest |-> r.digest, pc |-> "sent", read |-> r.read, held |-> r.held]
    BY <1>2, <2>1 DEF ResumeIsTrue
  <2>3. ResumeIsTrue(q)
    BY <1>2, <1>7, <2>2 DEF PostResume, ResumeIsTrue, Warranted
  <2>4. resumes' = (resumes \ {r}) \cup {q} \/ resumes' = (resumes \ {r}) \cup {}
    BY <1>7, <2>1 DEF PostResume, Becomes
  <2> QED BY <1>3, <1>4, <2>3, <2>4
<1> QED BY <1>5, <1>6, <1>7

LEMMA StrategyKeeps ==
  ASSUME StrategyInv, [StrategyNext]_strategyVars
  PROVE  StrategyInv'
<1>1. ASSUME UNCHANGED <<mem, loads, kv, resumes>> PROVE StrategyInv'
  <2>1. Entries' = Entries
    BY <1>1 DEF Entries
  <2>2. \A e \in Entries' : e \in Entries \/ ReadSince(e)'
    BY <2>1
  <2>3. /\ mem' = [k \in Isolates |-> mem'[k]]
        /\ loads' = [l \in Loads |-> [pc |-> loads'[l].pc, isolate |-> loads'[l].isolate,
                                      background |-> loads'[l].background, entry |-> loads'[l].entry]]
    BY <1>1 DEF StrategyInv
  <2>4. \A r \in resumes' : ResumeIsTrue(r)'
    BY <1>1, ResumesRest
  <2> QED BY <2>2, <2>3, <2>4, StrategyRests
<1>2. ASSUME NEW level, NEW content, Change(level, content), StrategyNext PROVE StrategyInv'
  <2>1. UNCHANGED <<mem, loads, kv>>
    BY <1>2 DEF Change
  <2> QED BY <1>2, <2>1, ChangeWitnessed, RequestMoves
<1>3. ASSUME NEW i \in Isolates, NEW a \in Accounts, AskResume(i, a) PROVE StrategyInv'
  BY <1>3, AskKeeps
<1>4. ASSUME NEW l \in Loads, Load(l) \/ Compare(l) \/ WriteCache(l) \/ RecordWrite(l) \/ Cancel(l)
      PROVE  StrategyInv'
  BY <1>4, LoadsAreTrue, CacheCommandKeeps, CancelKeeps
<1>5. ASSUME NEW i \in Isolates, Serve(i) \/ Evict(i) PROVE StrategyInv'
  BY <1>5, ServeKeeps, EvictKeeps
<1>6. ASSUME NEW r \in resumes, ReadForResume(r) \/ CompareResume(r) \/ PostResume(r) PROVE StrategyInv'
  BY <1>6, ResumeKeeps
<1>7. \/ UNCHANGED <<mem, loads, kv, resumes>>
      \/ \E i \in Isolates : Serve(i) \/ Evict(i) \/ \E a \in Accounts : AskResume(i, a)
      \/ \E l \in Loads : Load(l) \/ Compare(l) \/ WriteCache(l) \/ RecordWrite(l) \/ Cancel(l)
      \/ \E r \in resumes : ReadForResume(r) \/ CompareResume(r) \/ PostResume(r)
      \/ StrategyNext /\ \E level \in Levels : \E content \in site.levels[level] : Change(level, content)
  BY DEF StrategyNext, Pass, strategyVars
<1> QED BY <1>1, <1>2, <1>3, <1>4, <1>5, <1>6, <1>7

\* A resolution depends on the levels it touches and on nothing else.
LEMMA ResolutionIsLocal ==
  ASSUME NEW o, NEW read, NEW other,
         \A level \in Touched(o, read) : Held(other, level) = Held(read, level)
  PROVE  Resolve(o, other) = Resolve(o, read)
<1>1. PICK e : e = IF o.uses THEN ServiceTarget(o, Held(read, "repository").inventory) ELSE Unset
  OBVIOUS
<1>2. e = IF o.uses THEN ServiceTarget(o, Held(other, "repository").inventory) ELSE Unset
  <2>1. o.uses => "repository" \in Touched(o, read)
    BY DEF Touched
  <2> QED BY <1>1, <2>1
<1>3. CASE e # Unset /\ SettingOf(e, "enabled") # Unset
  <2>1. FromInventory(o, read) = FromInventory(o, other)
    BY <1>1, <1>2, <1>3 DEF FromInventory
  <2>2. FromInventory(o, read).source = "inventory"
    <3>1. PICK n : n = Blank
      OBVIOUS
    <3>2. n = [source |-> "none", profile |-> Unset, mode |-> Unset, enabled |-> Unset, resume |-> Unset]
      BY <3>1 DEF Blank
    <3>3. PICK y : y = [n EXCEPT !.source = "inventory", !.profile = e.profile, !.mode = e.mode, !.enabled = SettingOf(e, "enabled")]
      OBVIOUS
    <3>4. y.source = "inventory"
      BY <3>2, <3>3
    <3>5. FromInventory(o, read) = y
      BY <1>1, <1>3, <3>1, <3>3 DEF FromInventory
    <3> QED BY <3>4, <3>5
  <2> QED BY <2>1, <2>2 DEF Resolve
<1>4. CASE ~(e # Unset /\ SettingOf(e, "enabled") # Unset)
  <2>1. o.level \in Touched(o, read)
    BY <1>1, <1>4 DEF Touched
  <2>2. Held(other, o.level) = Held(read, o.level)
    BY <2>1
  <2>3. FromInventory(o, read) = FromInventory(o, other)
    BY <1>1, <1>2, <2>2 DEF FromInventory
  <2> QED BY <2>2, <2>3 DEF Resolve
<1> QED BY <1>3, <1>4

\* A row without a reading error: every level it touches was read.
LEMMA TouchedWasRead ==
  ASSUME NEW o, NEW read, NEW row, Evidence(o, row, StatusOf(o, read)).status \notin Failures
  PROVE  \A level \in Touched(o, read) : read[level].status \notin Failures
<1>1. PICK st : st = StatusOf(o, read)
  OBVIOUS
<1>2. st # "ok" => Evidence(o, row, st).status = st
  BY DEF Evidence
<1>3. PICK failed : failed = {read[level].status : level \in Touched(o, read)} \cap Failures
  OBVIOUS
<1>4. failed # {} => st \in Failures
  BY <1>1, <1>3 DEF StatusOf
<1>5. failed = {}
  BY <1>1, <1>2, <1>4, StrategyFailures
<1> QED BY <1>3, <1>5

LEMMA FoundIsKept ==
  ASSUME StrategyInv, NEW i \in Isolates, NEW entry \in Found(i)
  PROVE  entry \in Entries /\ clock - entry.ts < StaleTtl
  BY DEF Found, FoundInMemory, FoundInKv, Entries, Age

\* What stood since the time of an entry that is found stood recently.
LEMMA HeldIsRecent ==
  ASSUME StrategyInv, NEW level, NEW ts \in Nat, clock - ts < StaleTtl
  PROVE  HeldSince(level, ts) \subseteq Recently(level)
<1>1. StaleTtl \in Nat /\ clock \in Nat
  BY StrategyNumbers DEF StrategyInv
<1>2. ASSUME NEW q \in past, q[3] >= ts PROVE clock - q[3] < StaleTtl
  <2>1. q[3] \in Nat
    BY DEF StrategyInv
  <2> QED BY <1>1, <1>2, <2>1
<1> QED BY <1>2 DEF HeldSince, Recently

LEMMA ReadsOf ==
  ASSUME NEW ts, NEW read \in ReadingsSince(ts), NEW level \in Levels
  PROVE  \/ read[level].status \notin Failures /\ read[level].content \in HeldSince(level, ts)
         \/ read[level].status \in Failures /\ read[level].content = NoContent
<1>1. PICK x : x = read[level]
  OBVIOUS
<1>2. x \in AnswersSince(level, ts)
  BY <1>1 DEF ReadingsSince
<1>3. \/ x.status = "ok" /\ x.content \in HeldSince(level, ts)
      \/ x.status \in Failures /\ x.content = NoContent
  BY <1>2 DEF AnswersSince
<1> QED BY <1>1, <1>3, StrategyFailures

LEMMA OwnLevels ==
  ASSUME StrategyInv
  PROVE  "repository" \in Levels /\ \A a \in Accounts : Options[a].level \in Levels
  BY StrategySites DEF StrategyInv, Levels, Accounts, Options

LEMMA WasTrueOfInv == StrategyInv => ShownWasTrue
<1> SUFFICES ASSUME StrategyInv, NEW i \in Isolates, NEW entry \in Found(i), NEW a \in Accounts,
                    entry.rows[a].evidence.status \notin Failures
             PROVE  \E repository \in Recently("repository"), own \in Recently(Options[a].level) :
                      entry.rows[a].current = Resolve(Options[a], [level \in Levels |->
                        [status |-> "ok", content |-> IF level = Options[a].level THEN own ELSE repository]])
  BY DEF ShownWasTrue
<1>1. ReadSince(entry) /\ clock - entry.ts < StaleTtl /\ entry.ts \in Nat
  BY FoundIsKept DEF StrategyInv, ReadSince
<1>2. entry.rows # Fallback
  <2>1. Fallback[a].evidence.status = "read_failed"
    BY DEF Fallback
  <2> QED BY <2>1, StrategyFailures
<1>3. PICK read \in ReadingsSince(entry.ts) : entry.rows = RowsOf(read)
  BY <1>1, <1>2 DEF ReadSince
<1>4. PICK o : o = Options[a]
  OBVIOUS
<1>5. /\ entry.rows[a].current = Resolve(o, read)
      /\ entry.rows[a].evidence = Evidence(o, Resolve(o, read), StatusOf(o, read))
  <2>1. entry.rows[a] = RowOf(a, read)
    BY <1>3 DEF RowsOf
  <2> QED BY <1>4, <2>1 DEF RowOf
<1>6. \A level \in Touched(o, read) : read[level].status \notin Failures
  BY <1>5, TouchedWasRead
<1>7. Touched(o, read) \subseteq {"repository", o.level} /\ "repository" \in Levels /\ o.level \in Levels
  BY <1>4, OwnLevels DEF Touched
<1>8. \A level \in Touched(o, read) : read[level].content \in Recently(level)
  <2>1. TAKE level \in Touched(o, read)
  <2>2. read[level].content \in HeldSince(level, entry.ts)
    BY <1>6, <1>7, ReadsOf
  <2> QED BY <1>1, <2>2, HeldIsRecent
<1>9. PICK repository : repository = IF "repository" \in Touched(o, read) THEN read["repository"].content ELSE github["repository"]
  OBVIOUS
<1>10. PICK own : own = IF o.level \in Touched(o, read) THEN read[o.level].content ELSE github[o.level]
  OBVIOUS
<1>11. repository \in Recently("repository") /\ own \in Recently(o.level)
  BY <1>8, <1>9, <1>10 DEF Recently
<1>12. PICK other : other = [level \in Levels |-> [status |-> "ok", content |-> IF level = o.level THEN own ELSE repository]]
  OBVIOUS
<1>13. \A level \in Touched(o, read) : Held(other, level) = Held(read, level)
  <2>1. TAKE level \in Touched(o, read)
  <2>2. Held(other, level) = IF level = o.level THEN own ELSE repository
    BY <1>7, <1>12 DEF Held
  <2>3. CASE level = o.level
    BY <1>10, <2>2, <2>3 DEF Held
  <2>4. CASE level # o.level
    <3>1. level = "repository"
      BY <1>7, <2>4
    <3> QED BY <1>9, <2>2, <2>4, <3>1 DEF Held
  <2> QED BY <2>3, <2>4
<1>14. Resolve(o, other) = Resolve(o, read)
  BY <1>13, ResolutionIsLocal
<1> QED BY <1>4, <1>5, <1>11, <1>12, <1>14

\* A row of an inventory, and a row of a target, come from an entry that matches.
LEMMA InventoryMatches ==
  ASSUME NEW o, NEW read, Resolve(o, read).source = "inventory"
  PROVE  \E e \in Held(read, "repository").inventory : Matches(o, e) /\ e.profile = Resolve(o, read).profile
<1>1. PICK e : e = IF o.uses THEN ServiceTarget(o, Held(read, "repository").inventory) ELSE Unset
  OBVIOUS
<1>2. FromVariables(o, Held(read, o.level)).source # "inventory"
  <2>1. PICK n : n = Blank
    OBVIOUS
  <2>2. n = [source |-> "none", profile |-> Unset, mode |-> Unset, enabled |-> Unset, resume |-> Unset]
    BY <2>1 DEF Blank
  <2>3. ASSUME NEW x, NEW y, NEW z PROVE [n EXCEPT !.source = "profile", !.profile = x, !.enabled = y, !.mode = z].source # "inventory"
    <3>1. PICK w : w = [n EXCEPT !.source = "profile", !.profile = x, !.enabled = y, !.mode = z]
      OBVIOUS
    <3>2. w.source = "profile"
      BY <2>2, <3>1
    <3> QED BY <3>1, <3>2
  <2>4. ASSUME NEW y PROVE [n EXCEPT !.source = "variables", !.enabled = y].source # "inventory"
    <3>1. PICK w : w = [n EXCEPT !.source = "variables", !.enabled = y]
      OBVIOUS
    <3>2. w.source = "variables"
      BY <2>2, <3>1
    <3> QED BY <3>1, <3>2
  <2> QED BY <2>1, <2>2, <2>3, <2>4 DEF FromVariables
<1>3. FromInventory(o, read).source = "inventory" /\ Resolve(o, read) = FromInventory(o, read)
  BY <1>2 DEF Resolve
<1>4. e # Unset
  <2>1. Blank.source = "none"
    BY DEF Blank
  <2> QED BY <1>1, <1>3, <2>1 DEF FromInventory
<1>5. e \in Held(read, "repository").inventory /\ Matches(o, e)
  <2>1. PICK found : found = {x \in Held(read, "repository").inventory : Matches(o, x)}
    OBVIOUS
  <2>2. Cardinality(found) = 1 /\ e = CHOOSE x \in found : TRUE
    BY <1>1, <1>4, <2>1 DEF ServiceTarget
  <2>3. found # {}
    BY <2>2, FS_EmptySet
  <2> QED BY <2>1, <2>2, <2>3
<1>6. FromInventory(o, read).profile = e.profile
  <2>1. PICK n : n = Blank
    OBVIOUS
  <2>2. n = [source |-> "none", profile |-> Unset, mode |-> Unset, enabled |-> Unset, resume |-> Unset]
    BY <2>1 DEF Blank
  <2>3. PICK v : v = IF SettingOf(e, "enabled") # Unset THEN SettingOf(e, "enabled") ELSE Held(read, o.level).enabled
    OBVIOUS
  <2>4. PICK y : y = [n EXCEPT !.source = "inventory", !.profile = e.profile, !.mode = e.mode, !.enabled = v]
    OBVIOUS
  <2>5. y.profile = e.profile
    BY <2>2, <2>4
  <2>6. FromInventory(o, read) = y
    BY <1>1, <1>3, <1>4, <2>1, <2>2, <2>3, <2>4 DEF FromInventory
  <2> QED BY <2>5, <2>6
<1> QED BY <1>3, <1>5, <1>6

LEMMA TargetMatches ==
  ASSUME NEW o, NEW read, Resolve(o, read).source = "target"
  PROVE  LET t == Held(read, o.level).target IN t # Unset /\ Matches(o, t) /\ t.profile = Resolve(o, read).profile
<1>1. PICK n : n = Blank
  OBVIOUS
<1>2. n = [source |-> "none", profile |-> Unset, mode |-> Unset, enabled |-> Unset, resume |-> Unset]
  BY <1>1 DEF Blank
<1>3. FromInventory(o, read).source = "inventory" \/ Resolve(o, read) = FromVariables(o, Held(read, o.level))
  BY DEF Resolve
<1>4. PICK c : c = Held(read, o.level)
  OBVIOUS
<1>5. Resolve(o, read) = FromVariables(o, c) /\ FromVariables(o, c).source = "target"
  BY <1>3, <1>4 DEF Resolve
<1>6. ASSUME NEW x, NEW y, NEW z PROVE [n EXCEPT !.source = "profile", !.profile = x, !.enabled = y, !.mode = z].source # "target"
  <2>1. PICK w : w = [n EXCEPT !.source = "profile", !.profile = x, !.enabled = y, !.mode = z]
    OBVIOUS
  <2>2. w.source = "profile"
    BY <1>2, <2>1
  <2> QED BY <2>1, <2>2
<1>7. ASSUME NEW y PROVE [n EXCEPT !.source = "variables", !.enabled = y].source # "target"
  <2>1. PICK w : w = [n EXCEPT !.source = "variables", !.enabled = y]
    OBVIOUS
  <2>2. w.source = "variables"
    BY <1>2, <2>1
  <2> QED BY <2>1, <2>2
<1>8. c.target # Unset /\ Matches(o, c.target) /\ c.target.profile # Unset
  BY <1>1, <1>2, <1>5, <1>6, <1>7 DEF FromVariables
<1>9. FromVariables(o, c).profile = c.target.profile
  BY <1>8 DEF FromVariables
<1> QED BY <1>4, <1>5, <1>8, <1>9

\* What a level is taken to hold has recently been held there, or it holds nothing.
LEMMA HeldWas ==
  ASSUME StrategyInv, NEW ts \in Nat, clock - ts < StaleTtl, NEW read \in ReadingsSince(ts), NEW level \in Levels
  PROVE  Held(read, level) \in Recently(level) \/ Held(read, level) = NoContent
<1>1. read[level].content \in HeldSince(level, ts) \/ read[level].content = NoContent
  BY ReadsOf
<1> QED BY <1>1, HeldIsRecent DEF Held

LEMMA IsOwnOfInv == StrategyInv => ShownIsOwn
<1> SUFFICES ASSUME StrategyInv, NEW i \in Isolates, NEW entry \in Found(i), NEW a \in Accounts,
                    entry.rows[a].current.source \in {"inventory", "target"}, Options[a].service # Unset
             PROVE  \E level \in Levels : \E c \in Recently(level) :
                      \E t \in c.inventory \cup ({c.target} \ {Unset}) :
                        /\ t.profile = entry.rows[a].current.profile
                        /\ Options[a].service \in t.services \/ t.services = {}
  BY DEF ShownIsOwn
<1>1. ReadSince(entry) /\ clock - entry.ts < StaleTtl /\ entry.ts \in Nat
  BY FoundIsKept DEF StrategyInv, ReadSince
<1>2. entry.rows # Fallback
  <2>1. Fallback[a].current.source = "none"
    BY DEF Fallback, Blank
  <2> QED BY <2>1
<1>3. PICK read \in ReadingsSince(entry.ts) : entry.rows = RowsOf(read)
  BY <1>1, <1>2 DEF ReadSince
<1>4. PICK o : o = Options[a]
  OBVIOUS
<1>5. entry.rows[a].current = Resolve(o, read)
  <2>1. entry.rows[a] = RowOf(a, read)
    BY <1>3 DEF RowsOf
  <2> QED BY <1>4, <2>1 DEF RowOf
<1>6. "repository" \in Levels /\ o.level \in Levels
  BY <1>4, OwnLevels
<1>7. \A t : Matches(o, t) => o.service \in t.services \/ t.services = {}
  BY <1>4 DEF Matches
<1>8. NoContent.inventory = {} /\ NoContent.target = Unset
  BY DEF NoContent
<1>9. CASE Resolve(o, read).source = "inventory"
  <2>1. PICK e \in Held(read, "repository").inventory : Matches(o, e) /\ e.profile = Resolve(o, read).profile
    BY <1>9, InventoryMatches
  <2>2. Held(read, "repository") \in Recently("repository")
    BY <1>1, <1>6, <1>8, <2>1, HeldWas
  <2> QED BY <1>4, <1>5, <1>6, <1>7, <2>1, <2>2
<1>10. CASE Resolve(o, read).source = "target"
  <2>1. PICK t : t = Held(read, o.level).target
    OBVIOUS
  <2>2. t # Unset /\ Matches(o, t) /\ t.profile = Resolve(o, read).profile
    BY <1>10, <2>1, TargetMatches
  <2>3. Held(read, o.level) \in Recently(o.level)
    BY <1>1, <1>6, <1>8, <2>1, <2>2, HeldWas
  <2> QED BY <1>4, <1>5, <1>6, <1>7, <2>1, <2>2, <2>3
<1> QED BY <1>5, <1>9, <1>10

\* The invariant among the parts of a run.
LEMMA StrategyAmongParts == PromotionSpec => [](part = "shown" => StrategyInv)
<1> DEFINE ShownInv == part = "shown" => StrategyInv
<1>1. PromotionInit => ShownInv
  BY StrategyStarts DEF PromotionInit
<1>2. ASSUME ShownInv, [PromotionNext]_<<part, allVars, strategyVars>> PROVE ShownInv'
  <2>1. CASE part = "shown"
    <3>1. part' = part /\ [StrategyNext]_strategyVars
      BY <1>2, <2>1 DEF PromotionNext
    <3> QED BY <1>2, <2>1, <3>1, StrategyKeeps
  <2>2. CASE part # "shown"
    BY <1>2, <2>2 DEF PromotionNext
  <2> QED BY <2>1, <2>2
<1> QED BY <1>1, <1>2, PTL DEF PromotionSpec

\* What the console shows without a reading error was in force within the last hour,
\* and is of the account's own deployment, whatever memories, KV, refreshes and failed
\* writes do (readCurrentStrategies), with any isolates, loads, sites and bounds.
THEOREM ConsoleShowsWhatWas == PromotionSpec => []ConsoleHolds
<1>1. (part = "shown" => StrategyInv) => ConsoleHolds
  BY WasTrueOfInv, IsOwnOfInv DEF ConsoleHolds
<1> QED BY <1>1, StrategyAmongParts, PTL

\* A resume that reaches GitHub is for a stopped configuration that was in force at some
\* moment since the operator asked for it (dispatchBinanceResume), however old what the
\* operator saw was and whatever changes between the read, the comparison and the dispatch.
THEOREM ConsoleActsOnWhatStood == PromotionSpec => []ResumesHold
<1>1. (part = "shown" => StrategyInv) => ResumesHold
  BY DEF StrategyInv, ResumeIsTrue, Warranted, ResumesHold, SentWasInForce
<1> QED BY <1>1, StrategyAmongParts, PTL

\* The same of a registry that accounts have been entered in before: the decisions
\* that are followed request by request among the runs of the applications.
THEOREM DecidesOnWhatWasSeen == PromotionSpec => DecidedAsSeen
<1> DEFINE SeenInv == part = "decide" => DecisionInv /\ NothingSeenYet
<1>1. PromotionInit => SeenInv
  <2>1. ASSUME PromotionInit, part = "decide" PROVE DecisionInv /\ NothingSeenYet
    <3>1. AppInit
      BY <2>1 DEF PromotionInit
    <3> QED BY <3>1, InitAppInv DEF AppInv, AppInit, NothingSeenYet
  <2> QED BY <2>1
<1>2. ASSUME SeenInv, [PromotionNext]_<<part, allVars, strategyVars>> PROVE SeenInv' /\ [part = "decide" => AcceptedStep]_vars
  <2>1. CASE part = "decide"
    <3>1. part' = part /\ [Next]_vars
      BY <1>2, <2>1 DEF PromotionNext, allVars
    <3>2. DecisionInv /\ TypeOK /\ NothingSeenYet
      BY <1>2, <2>1 DEF DecisionInv
    <3> QED BY <3>1, <3>2, NextDecisionInv, NextNothingSeenYet, NextAcceptsWhatWasSeen
  <2>2. CASE part # "decide"
    BY <1>2, <2>2 DEF PromotionNext
  <2> QED BY <2>1, <2>2
<1> QED BY <1>1, <1>2, PTL DEF PromotionSpec, DecidedAsSeen
=============================================================================
