--------------------------- MODULE AccountProofs ---------------------------
(* Theorems about the three parts of the accounts' Durable Object: the settings of
   accounts, research drafts, and diagnoses; for any accounts, pages, drafts, jobs,
   handlers and tasks.  And about the stop of longbridge/hk. *)
EXTENDS MCAccounts, HkStop, TLAPS

----------------------------------------------------------------------------
(* AccountSettings *)

\* An application names a revision the draft has had, and while the draft has it, the
\* content that was approved.
ApplicationsNameDrafts ==
  \A r \in Request : applications[r] # None =>
    LET draft == drafts[applications[r].key]
    IN /\ applications[r].draft \in 1..Revision(draft)
       /\ Revision(draft) = applications[r].draft =>
            /\ draft.identity = applications[r].identity
            /\ draft.overrides = [f \in {"strategy_profile"} |-> applications[r].new]

\* What a request holds of a row is the row, or an earlier revision of it.
Seen(held, row) == Revision(held) <= Revision(row) /\ (Revision(held) = Revision(row) => held = row)

PageHasSeen(h) ==
  pages[h] # None =>
    /\ pages[h].step = "save" =>
         /\ Seen(pages[h].draft, drafts[pages[h].key])
         /\ Seen(pages[h].declaration, declarations[pages[h].key])
    /\ pages[h].step \in {"save", "replace"} => authority # None /\ Seen(pages[h].authority, authority)
    /\ pages[h].step = "claim" => applications[pages[h].request] # None

PagesHaveSeen == \A h \in Page : PageHasSeen(h)

SettingsInv ==
  /\ SettingsTypeOK /\ EachTargetOnce /\ OneOpenApplication /\ ApplicationsNameDrafts /\ PagesHaveSeen

PageState == SavePage \cup ReplacePage \cup MirrorPage \cup ApprovalPage \cup ClaimPage \cup {None}

\* The pages of each kind, and the fields they have.
LEMMA PageKinds ==
  ASSUME NEW p \in PageState, p # None
  PROVE  /\ p.step = "save" => p \in SavePage
         /\ p.step = "replace" => p \in ReplacePage
         /\ p.step = "mirror" => p \in MirrorPage
         /\ p.step \in {"readback", "approve"} => p \in ApprovalPage
         /\ p.step = "claim" => p \in ClaimPage
BY DEF PageState, SavePage, ReplacePage, MirrorPage, ApprovalPage, ClaimPage

\* A row's revision counts from 1; there is no row at revision 0.
LEMMA RevisionOfRow ==
  /\ \A row \in DraftRow \cup {None} : Revision(row) \in Nat /\ (row # None <=> Revision(row) # 0)
  /\ \A row \in DeclarationRow \cup {None} : Revision(row) \in Nat /\ (row # None <=> Revision(row) # 0)
  /\ \A row \in AuthorityRow : Revision(row) = row.revision /\ Revision(row) \in Nat
BY SettingsNulls DEF Revision, DraftRow, DeclarationRow, AuthorityRow

\* The first read imports the authority, the others find it.
LEMMA EnsuredRow ==
  ASSUME SettingsTypeOK
  PROVE  /\ Ensured(kv) \in AuthorityRow \cup {None}
         /\ Ensured([state |-> "absent"]) \in AuthorityRow
         /\ authority # None => Ensured(kv) = authority /\ Ensured([state |-> "absent"]) = authority
<1>1. NoBinding \in Bindings
  <2>1. NoBinding \in [{} -> Preference]
    BY DEF NoBinding
  <2> QED BY <2>1 DEF Bindings
<1>2. /\ [revision |-> 0, bindings |-> NoBinding] \in AuthorityRow
      /\ kv.state \in {"absent", "blocked"} \/ [revision |-> 0, bindings |-> kv.bindings] \in AuthorityRow
  BY <1>1 DEF SettingsTypeOK, AuthorityRow
<1> QED BY <1>2 DEF SettingsTypeOK, Ensured

LEMMA SettingsInitially == SettingsInit => SettingsInv
<1> SUFFICES ASSUME SettingsInit PROVE SettingsInv
  OBVIOUS
<1>1. SettingsTypeOK
  BY SettingsInputs DEF SettingsInit, SettingsTypeOK
<1> QED BY <1>1 DEF SettingsInit, SettingsInv, EachTargetOnce, OneOpenApplication, OpenApplication,
       ApplicationsNameDrafts, PagesHaveSeen, PageHasSeen

\* The registry gives no target twice, whatever is imported, created or edited.
LEMMA RegistryKeeps ==
  ASSUME SettingsInv, RegistryStep
  PROVE  SettingsInv'
<1> USE DEF SettingsInv
<1>t. /\ registry.revision \in Nat /\ registry.items \in [Key -> Instance \cup {None}]
      /\ registry \in [revision : Nat, initialized : BOOLEAN, items : [Key -> Instance \cup {None}]]
  BY DEF SettingsTypeOK
<1>1. ASSUME NEW items \in [Key -> Instance \cup {None}], NEW b \in BOOLEAN, Commit(items, b),
             \A k, l \in Key : k # l /\ items[k] # None /\ items[l] # None
                                 => items[k].target # items[l].target
      PROVE  SettingsInv'
  <2>1. registry' = [revision |-> registry.revision + 1, initialized |-> b, items |-> items]
    BY <1>1 DEF Commit
  <2>2. registry' \in [revision : Nat, initialized : BOOLEAN, items : [Key -> Instance \cup {None}]]
    BY <1>t, <2>1
  <2>3. EachTargetOnce'
    BY <1>1, <2>1 DEF EachTargetOnce
  <2>4. UNCHANGED <<drafts, declarations, authority, applications, kv, pages>>
    BY <1>1 DEF Commit, settings
  <2> QED BY <2>2, <2>3, <2>4 DEF SettingsTypeOK, OneOpenApplication, OpenApplication,
         ApplicationsNameDrafts, PagesHaveSeen, PageHasSeen
<1>2. CASE Initialize
  <2> DEFINE items == [k \in Key |-> IF k \in Existing
        THEN [kind |-> "existing", target |-> TargetOf[k], environment |-> None,
              retired |-> FALSE, overlay |-> "disabled"]
        ELSE None]
  <2>1. items \in [Key -> Instance \cup {None}]
    BY SettingsTargets DEF Instance, Key
  <2>2. \A k, l \in Key : k # l /\ items[k] # None /\ items[l] # None => items[k].target # items[l].target
    BY SettingsTargets
  <2>3. Commit(items, TRUE)
    BY <1>2 DEF Initialize
  <2> QED BY <1>1, <2>1, <2>2, <2>3
<1>3. ASSUME NEW k \in DraftKey, NEW target \in Target, CreateInstance(k, target) PROVE SettingsInv'
  <2> DEFINE new == [kind |-> "draft", target |-> target, environment |-> None,
                     retired |-> FALSE, overlay |-> "disabled"]
             items == [registry.items EXCEPT ![k] = new]
  <2>1. new \in Instance /\ k \in Key
    BY DEF Instance, Key
  <2>2. items \in [Key -> Instance \cup {None}]
    BY <1>t, <2>1
  <2>3. \A i, j \in Key : i # j /\ items[i] # None /\ items[j] # None => items[i].target # items[j].target
    BY <1>t, <1>3, <2>1 DEF CreateInstance, Conflict, EachTargetOnce
  <2>4. Commit(items, TRUE)
    BY <1>3 DEF CreateInstance
  <2> QED BY <1>1, <2>2, <2>3, <2>4
<1>4. ASSUME NEW k \in DraftKey, NEW target \in Target, EditInstance(k, target) PROVE SettingsInv'
  <2> DEFINE items == [registry.items EXCEPT ![k].target = target]
  <2>1. k \in Key /\ registry.items[k] \in Instance
    BY <1>t, <1>4 DEF EditInstance, Key
  <2>2. items \in [Key -> Instance \cup {None}]
    BY <1>t, <2>1 DEF Instance
  <2>3. items[k].target = target /\ \A i \in Key \ {k} : items[i] = registry.items[i]
    BY <1>t, <2>1 DEF Instance
  <2>4. \A i, j \in Key : i # j /\ items[i] # None /\ items[j] # None => items[i].target # items[j].target
    BY <1>t, <1>4, <2>3 DEF EditInstance, EditConflict, EachTargetOnce
  <2>5. Commit(items, TRUE)
    BY <1>4 DEF EditInstance
  <2> QED BY <1>1, <2>2, <2>4, <2>5
<1>5. ASSUME NEW k \in Key, NEW items, registry.items[k] \in Instance, items[k] \in Instance,
             items \in [Key -> Instance \cup {None}], Commit(items, TRUE),
             items[k].target = registry.items[k].target,
             \A i \in Key \ {k} : items[i] = registry.items[i]
      PROVE  SettingsInv'
  <2>1. \A i, j \in Key : i # j /\ items[i] # None /\ items[j] # None => items[i].target # items[j].target
    BY <1>5, SettingsNulls DEF EachTargetOnce
  <2> QED BY <1>1, <1>5, <2>1
<1>6. ASSUME NEW k \in Key, RequestRetirement(k) PROVE SettingsInv'
  <2>1. registry.items[k] \in Instance
    BY <1>t, <1>6 DEF RequestRetirement
  <2> DEFINE items == [registry.items EXCEPT ![k].retired = TRUE]
  <2>2. /\ items \in [Key -> Instance \cup {None}] /\ items[k] \in Instance
        /\ items[k].target = registry.items[k].target
        /\ \A i \in Key \ {k} : items[i] = registry.items[i]
    BY <1>t, <2>1 DEF Instance
  <2>3. Commit(items, TRUE)
    BY <1>6 DEF RequestRetirement
  <2> QED BY <1>5, <2>1, <2>2, <2>3
<1>7. ASSUME NEW k \in Key, NEW e \in Environment, SetBrokerEnvironment(k, e) PROVE SettingsInv'
  <2>1. registry.items[k] \in Instance
    BY <1>t, <1>7 DEF SetBrokerEnvironment
  <2> DEFINE items == [registry.items EXCEPT ![k].environment = e]
  <2>2. /\ items \in [Key -> Instance \cup {None}] /\ items[k] \in Instance
        /\ items[k].target = registry.items[k].target
        /\ \A i \in Key \ {k} : items[i] = registry.items[i]
    BY <1>t, <2>1 DEF Instance
  <2>3. Commit(items, TRUE)
    BY <1>7 DEF SetBrokerEnvironment
  <2> QED BY <1>5, <2>1, <2>2, <2>3
<1>8. ASSUME NEW k \in Key, NEW o \in {"enabled", "disabled"}, SyncDefaults(k, o) PROVE SettingsInv'
  <2>1. registry.items[k] \in Instance
    BY <1>t, <1>8 DEF SyncDefaults
  <2> DEFINE items == [registry.items EXCEPT ![k].overlay = o]
  <2>2. /\ items \in [Key -> Instance \cup {None}] /\ items[k] \in Instance
        /\ items[k].target = registry.items[k].target
        /\ \A i \in Key \ {k} : items[i] = registry.items[i]
    BY <1>t, <2>1 DEF Instance
  <2>3. Commit(items, TRUE)
    BY <1>8 DEF SyncDefaults
  <2> QED BY <1>5, <2>1, <2>2, <2>3
<1> QED BY <1>2, <1>3, <1>4, <1>6, <1>7, <1>8 DEF RegistryStep

\* A read, or the end of a request: no row but the imported authority changes, and what
\* the requests hold is what there is.
LEMMA ReadKeeps ==
  ASSUME SettingsInv, UNCHANGED <<registry, drafts, declarations, applications>>,
         authority' \in AuthorityRow \cup {None}, authority # None => authority' = authority,
         kv'.state \in {"absent", "blocked"} \/ kv'.bindings \in Bindings,
         pages' \in [Page -> PageState],
         \A h \in Page : pages'[h] = pages[h] \/ PageHasSeen(h)'
  PROVE  SettingsInv'
<1> USE DEF SettingsInv
<1>1. SettingsTypeOK'
  BY DEF SettingsTypeOK, PageState
<1>2. ASSUME NEW h \in Page, pages'[h] = pages[h] PROVE PageHasSeen(h)'
  BY <1>2 DEF PagesHaveSeen, PageHasSeen
<1>3. PagesHaveSeen'
  BY <1>2 DEF PagesHaveSeen
<1> QED BY <1>1, <1>3 DEF EachTargetOnce, OneOpenApplication, OpenApplication, ApplicationsNameDrafts

\* The requests' pages, typed.
LEMMA PageTypes == ASSUME SettingsInv PROVE pages \in [Page -> PageState]
BY DEF SettingsInv, SettingsTypeOK, PageState

LEMMA IdentityTypes ==
  ASSUME SettingsTypeOK, NEW k \in Key, AccountExists(k)
  PROVE  Identity(k) \in IdentityRow
BY DEF SettingsTypeOK, AccountExists, Identity, Instance, IdentityRow

LEMMA ReadsKeep ==
  ASSUME SettingsInv,
         \/ ReadSettings
         \/ \E k \in Key : ReadControls(k)
         \/ \E h \in Page :
              \/ \E k \in Key, c \in Change : SaveRead(h, k, c)
              \/ Mirror(h) \/ GiveUp(h) \/ ApproveReadback(h)
              \/ \E D \in SUBSET Target : \E b \in [D -> Preference] : ReplaceRead(h, b)
              \/ \E r \in Request :
                   \/ \E k \in Key, old, new \in Profile, n \in 1..MaxDraft :
                        ApproveRead(h, r, k, old, new, n)
                   \/ \E run \in Run : ClaimRead(h, r, run)
  PROVE  SettingsInv'
<1>t. /\ SettingsTypeOK /\ pages \in [Page -> PageState]
      /\ kv.state \in {"absent", "blocked"} \/ kv.bindings \in Bindings
      /\ registry.revision \in Nat /\ authority \in AuthorityRow \cup {None}
  BY PageTypes DEF SettingsInv, SettingsTypeOK
<1>1. CASE ReadSettings
  BY <1>t, <1>1, EnsuredRow, ReadKeeps DEF ReadSettings
<1>2. ASSUME NEW k \in Key, ReadControls(k) PROVE SettingsInv'
  BY <1>t, <1>2, EnsuredRow, ReadKeeps DEF ReadControls, ReadWithoutLegacy
<1>3. ASSUME NEW h \in Page, NEW k \in Key, NEW c \in Change, SaveRead(h, k, c) PROVE SettingsInv'
  <2> DEFINE x == [step |-> "save", key |-> k, change |-> c, identity |-> Identity(k),
                   draft |-> drafts[k], declaration |-> declarations[k], authority |-> Ensured(kv)]
  <2>1. Ensured(kv) \in AuthorityRow /\ (authority # None => Ensured(kv) = authority)
    BY <1>t, <1>3, EnsuredRow DEF SaveRead
  <2>2. authority' = Ensured(kv) /\ pages' = [pages EXCEPT ![h] = x]
    BY <1>3 DEF SaveRead
  <2>3. UNCHANGED <<registry, drafts, declarations, applications, kv>>
    BY <1>3 DEF SaveRead
  <2>4. x \in SavePage
    BY <1>t, <1>3, <2>1, IdentityTypes DEF SaveRead, SettingsTypeOK, SavePage
  <2>5. PageHasSeen(h)'
    <3>1. pages'[h] = x
      BY <1>t, <2>2
    <3>2. Seen(x.draft, drafts[k]) /\ Seen(x.declaration, declarations[k]) /\ Seen(x.authority, authority')
      BY <1>t, <2>1, <2>2, RevisionOfRow DEF Seen, SettingsTypeOK
    <3> QED BY <2>1, <2>2, <2>3, <3>1, <3>2, SettingsNulls DEF PageHasSeen
  <2>6. pages' \in [Page -> PageState]
    BY <1>t, <2>2, <2>4 DEF PageState
  <2> QED BY <1>t, <2>1, <2>2, <2>3, <2>5, <2>6, ReadKeeps
<1>4. ASSUME NEW h \in Page, Mirror(h) PROVE SettingsInv'
  <2>1. pages[h] \in MirrorPage
    BY <1>t, <1>4, PageKinds DEF Mirror
  <2>2. kv'.bindings \in Bindings
    BY <1>4, <2>1 DEF Mirror, MirrorPage
  <2>3. pages' \in [Page -> PageState] /\ pages'[h] = None
    BY <1>t, <1>4 DEF Mirror, Drop, PageState
  <2> QED BY <1>t, <1>4, <2>2, <2>3, ReadKeeps DEF Mirror, Drop, settings, PageHasSeen
<1>5. ASSUME NEW h \in Page, GiveUp(h) PROVE SettingsInv'
  <2>1. pages' \in [Page -> PageState] /\ pages'[h] = None
    BY <1>t, <1>5 DEF GiveUp, Drop, PageState
  <2> QED BY <1>t, <1>5, <2>1, ReadKeeps DEF GiveUp, Drop, settings, PageHasSeen
<1>6. ASSUME NEW h \in Page, ApproveReadback(h) PROVE SettingsInv'
  <2>1. pages[h] \in ApprovalPage
    BY <1>t, <1>6, PageKinds DEF ApproveReadback
  <2>2. pages'[h] = [pages[h] EXCEPT !.step = "approve"] /\ pages'[h] \in ApprovalPage
    BY <1>t, <1>6, <2>1 DEF ApproveReadback, ApprovalPage
  <2>3. pages' \in [Page -> PageState] /\ \A g \in Page \ {h} : pages'[g] = pages[g]
    BY <1>t, <1>6, <2>2 DEF ApproveReadback, PageState
  <2>4. PageHasSeen(h)'
    BY <2>1, <2>2 DEF PageHasSeen, ApprovalPage
  <2> QED BY <1>t, <1>6, <2>3, <2>4, ReadKeeps DEF ApproveReadback, settings
<1>7. ASSUME NEW h \in Page, NEW D \in SUBSET Target, NEW b \in [D -> Preference], ReplaceRead(h, b)
      PROVE  SettingsInv'
  <2> DEFINE x == [step |-> "replace", bindings |-> b, authority |-> Ensured(kv)]
  <2>1. Ensured(kv) \in AuthorityRow /\ (authority # None => Ensured(kv) = authority)
    BY <1>t, <1>7, EnsuredRow DEF ReplaceRead
  <2>2. authority' = Ensured(kv) /\ pages' = [pages EXCEPT ![h] = x]
    BY <1>7 DEF ReplaceRead
  <2>3. UNCHANGED <<registry, drafts, declarations, applications, kv>>
    BY <1>7 DEF ReplaceRead
  <2>4. x \in ReplacePage
    BY <2>1 DEF ReplacePage, Bindings
  <2>5. pages'[h] = x /\ Seen(x.authority, authority')
    BY <1>t, <2>1, <2>2, RevisionOfRow DEF Seen
  <2>6. PageHasSeen(h)'
    BY <2>1, <2>2, <2>5, SettingsNulls DEF PageHasSeen
  <2>7. pages' \in [Page -> PageState]
    BY <1>t, <2>2, <2>4 DEF PageState
  <2> QED BY <1>t, <2>1, <2>2, <2>3, <2>6, <2>7, ReadKeeps
<1>8. ASSUME NEW h \in Page, NEW r \in Request, NEW k \in Key, NEW old \in Profile, NEW new \in Profile,
             NEW n \in 1..MaxDraft, ApproveRead(h, r, k, old, new, n)
      PROVE  SettingsInv'
  <2> DEFINE x == [step |-> "readback", request |-> r, key |-> k, identity |-> Identity(k),
                   instance |-> registry.revision, draft |-> n, old |-> old, new |-> new]
  <2>1. x \in ApprovalPage
    BY <1>t, <1>8, IdentityTypes DEF ApproveRead, ApprovalPage
  <2>2. pages' = [pages EXCEPT ![h] = x] \/ pages' = pages
    BY <1>8 DEF ApproveRead
  <2>3. pages' \in [Page -> PageState] /\ \A g \in Page : pages'[g] = pages[g] \/ pages'[g] = x
    BY <1>t, <2>1, <2>2 DEF PageState
  <2>4. \A g \in Page : pages'[g] = x => PageHasSeen(g)'
    BY DEF PageHasSeen
  <2> QED BY <1>t, <1>8, <2>3, <2>4, EnsuredRow, ReadKeeps DEF ApproveRead, ReadWithoutLegacy
<1>9. ASSUME NEW h \in Page, NEW r \in Request, NEW run \in Run, ClaimRead(h, r, run) PROVE SettingsInv'
  <2> DEFINE x == [step |-> "claim", request |-> r, run |-> run]
  <2>1. x \in ClaimPage
    BY DEF ClaimPage
  <2>2. pages' = [pages EXCEPT ![h] = x] \/ pages' = pages
    BY <1>9 DEF ClaimRead
  <2>3. pages' \in [Page -> PageState] /\ \A g \in Page : pages'[g] = pages[g] \/ pages'[g] = x
    BY <1>t, <2>1, <2>2 DEF PageState
  <2>4. \A g \in Page : pages'[g] = x => PageHasSeen(g)'
    BY <1>9 DEF ClaimRead, PageHasSeen
  <2> QED BY <1>t, <1>9, <2>3, <2>4, EnsuredRow, ReadKeeps DEF ClaimRead, ReadWithoutLegacy
<1> QED BY <1>1, <1>2, <1>3, <1>4, <1>5, <1>6, <1>7, <1>8, <1>9

\* What a row may become: itself, or its next revision.
GoesOn(row, next) == next = row \/ (next # None /\ Revision(next) = Revision(row) + 1)

\* What has been seen of a row has been seen of its next revision.
LEMMA SeenOfNext ==
  ASSUME NEW held, NEW row, NEW next, Revision(held) \in Nat, Revision(row) \in Nat,
         Seen(held, row), GoesOn(row, next)
  PROVE  Seen(held, next)
BY DEF Seen, GoesOn

LEMMA OverridesType ==
  ASSUME NEW current, NEW patch \in Patches,
         current \in UNION {[F -> Value] : F \in SUBSET Field}
  PROVE  Overridden(current, patch) \in UNION {[F -> Value] : F \in SUBSET Field}
<1>1. PICK F \in SUBSET Field : current \in [F -> Value]
  OBVIOUS
<1>2. PICK G \in SUBSET Field : patch \in [G -> Value \cup {None}]
  BY DEF Patches
<1> DEFINE H == {x \in DOMAIN current \cup DOMAIN patch : x \in DOMAIN patch => patch[x] # None}
<1>3. H \in SUBSET Field
  BY <1>1, <1>2
<1>4. Overridden(current, patch) \in [H -> Value]
  BY <1>1, <1>2 DEF Overridden
<1> QED BY <1>3, <1>4

LEMMA DraftGoesOn ==
  ASSUME SettingsInv, NEW p \in SavePage, "patch" \in p.change.has
  PROVE  /\ DraftAfter(p) \in DraftRow
         /\ GoesOn(drafts[p.key], DraftAfter(p))
<1>t. /\ p.key \in Key /\ p.identity \in IdentityRow /\ p.change.patch \in Patches
      /\ drafts[p.key] \in DraftRow \cup {None}
  BY SettingsInputs DEF SavePage, SettingsInv, SettingsTypeOK
<1> DEFINE row == drafts[p.key]
           base == IF Status(row, p.key) = "current" THEN row.overrides ELSE [f \in {} |-> None]
           overrides == Overridden(base, p.change.patch)
<1>1. Status(row, p.key) = "current" => row \in DraftRow
  BY <1>t DEF Status
<1>2. [f \in {} |-> None] \in UNION {[F -> Value] : F \in SUBSET Field}
  <2>1. [f \in {} |-> None] \in [{} -> Value] /\ {} \in SUBSET Field
    OBVIOUS
  <2> QED BY <2>1
<1>3. base \in UNION {[F -> Value] : F \in SUBSET Field}
  BY <1>1, <1>2 DEF DraftRow
<1>4. overrides \in UNION {[F -> Value] : F \in SUBSET Field}
  <2> HIDE DEF base
  <2> QED BY <1>t, <1>3, OverridesType
<1>5. DraftAfter(p) =
        IF Status(row, p.key) = "current" /\ overrides = row.overrides
        THEN row
        ELSE [revision |-> Revision(row) + 1, identity |-> p.identity, overrides |-> overrides]
  BY DEF DraftAfter
<1>6. Revision(row) \in Nat
  BY <1>t, RevisionOfRow
<1> HIDE DEF overrides, base
<1>7. LET next == [revision |-> Revision(row) + 1, identity |-> p.identity, overrides |-> overrides]
      IN next \in DraftRow /\ next.revision = Revision(row) + 1
  BY <1>t, <1>4, <1>6 DEF DraftRow
<1> HIDE DEF row
<1> QED BY <1>1, <1>5, <1>7, RevisionOfRow, SettingsNulls DEF GoesOn, Revision, row

LEMMA DeclarationGoesOn ==
  ASSUME SettingsInv, NEW p \in SavePage, "declaration" \in p.change.has
  PROVE  /\ DeclarationAfter(p) \in DeclarationRow
         /\ GoesOn(declarations[p.key], DeclarationAfter(p))
<1>t. /\ p.key \in Key /\ p.identity \in IdentityRow /\ p.change.declaration \in Declaration
      /\ declarations[p.key] \in DeclarationRow \cup {None}
  BY SettingsInputs DEF SavePage, SettingsInv, SettingsTypeOK
<1>1. PICK row : row = declarations[p.key]
  OBVIOUS
<1>2. PICK next : next = [revision |-> Revision(row) + 1, identity |-> p.identity,
                          value |-> p.change.declaration]
  OBVIOUS
<1>3. Revision(row) \in Nat
  BY <1>t, <1>1, RevisionOfRow
<1>4. next \in DeclarationRow /\ next.revision = Revision(row) + 1
  BY <1>t, <1>2, <1>3 DEF DeclarationRow
<1>5. DeclarationAfter(p) = next \/ (DeclarationAfter(p) = row /\ row # None)
  BY <1>1, <1>2 DEF DeclarationAfter, Status
<1> QED BY <1>t, <1>1, <1>4, <1>5, SettingsNulls DEF GoesOn, Revision

LEMMA AuthorityGoesOn ==
  ASSUME NEW row \in AuthorityRow, NEW bindings \in Bindings, NEW fresh \in BOOLEAN,
         NEW next \in Written(row, bindings, fresh)
  PROVE  next \in AuthorityRow /\ GoesOn(row, next)
<1>1. PICK n \in {0, 1} : /\ next = [revision |-> row.revision + n, bindings |-> bindings]
                          /\ n = 0 => bindings = row.bindings
  BY DEF Written
<1>2. next \in AuthorityRow
  BY <1>1 DEF AuthorityRow
<1>3. CASE n = 0
  BY <1>1, <1>3 DEF AuthorityRow, GoesOn
<1>4. CASE n = 1
  BY <1>1, <1>2, <1>4, SettingsNulls DEF AuthorityRow, GoesOn, Revision
<1> QED BY <1>2, <1>3, <1>4

LEMMA BindingsType ==
  ASSUME SettingsTypeOK, authority # None, NEW p \in SavePage, "risk" \in p.change.has
  PROVE  BindingsAfter(p) \in Bindings
<1>1. authority.bindings \in Bindings /\ p.identity.target \in Target
  BY DEF SettingsTypeOK, AuthorityRow, SavePage, IdentityRow
<1>2. p.change.risk \in Preference \cup {"clear"}
  BY SettingsInputs DEF SavePage
<1>3. PICK D \in SUBSET Target : authority.bindings \in [D -> Preference]
  BY <1>1 DEF Bindings
<1>4. CASE p.change.risk = "clear"
  <2>1. BindingsAfter(p) \in [D \ {p.identity.target} -> Preference]
    BY <1>3, <1>4 DEF BindingsAfter, WithoutTarget, Restrict
  <2> QED BY <2>1 DEF Bindings
<1>5. CASE p.change.risk # "clear"
  <2>1. BindingsAfter(p) \in [D \cup {p.identity.target} -> Preference]
    BY <1>2, <1>3, <1>5 DEF BindingsAfter, WithTarget
  <2> QED BY <1>1, <2>1 DEF Bindings
<1> QED BY <1>4, <1>5

\* A command that stores rows: each is what it was or its next revision.
LEMMA RowsGoOn ==
  ASSUME SettingsInv, UNCHANGED <<registry, kv, applications>>,
         drafts' \in [Key -> DraftRow \cup {None}],
         declarations' \in [Key -> DeclarationRow \cup {None}],
         authority' \in AuthorityRow \cup {None},
         \A k \in Key : GoesOn(drafts[k], drafts'[k]) /\ GoesOn(declarations[k], declarations'[k]),
         authority # None => authority' # None /\ GoesOn(authority, authority'),
         pages' \in [Page -> PageState],
         \A g \in Page : pages'[g] = pages[g] \/ pages'[g] \in MirrorPage \cup {None}
  PROVE  SettingsInv'
<1> USE DEF SettingsInv
<1>1. SettingsTypeOK'
  BY DEF SettingsTypeOK, PageState
<1>2. ApplicationsNameDrafts'
  <2> SUFFICES ASSUME NEW r \in Request, applications[r] # None
               PROVE  LET draft == drafts'[applications[r].key]
                      IN /\ applications[r].draft \in 1..Revision(draft)
                         /\ Revision(draft) = applications[r].draft =>
                              /\ draft.identity = applications[r].identity
                              /\ draft.overrides = [f \in {"strategy_profile"} |-> applications[r].new]
    BY DEF ApplicationsNameDrafts
  <2>1. PICK k \in Key : k = applications[r].key
    BY DEF SettingsTypeOK, ApplicationRow
  <2>2. Revision(drafts[k]) \in Nat /\ Revision(drafts'[k]) \in Nat
    BY RevisionOfRow DEF SettingsTypeOK
  <2>3. applications[r].draft \in 1..Revision(drafts[k])
    BY <2>1 DEF ApplicationsNameDrafts
  <2>4. CASE drafts'[k] = drafts[k]
    BY <2>1, <2>4 DEF ApplicationsNameDrafts
  <2>5. CASE Revision(drafts'[k]) = Revision(drafts[k]) + 1
    BY <2>1, <2>2, <2>3, <2>5
  <2> QED BY <2>4, <2>5 DEF GoesOn
<1>3. ASSUME NEW g \in Page PROVE PageHasSeen(g)'
  <2> SUFFICES ASSUME pages'[g] = pages[g], pages[g] # None
               PROVE  PageHasSeen(g)'
    BY PageKinds DEF PageHasSeen, MirrorPage
  <2>1. PageHasSeen(g) /\ pages[g] \in PageState
    BY PageTypes DEF PagesHaveSeen
  <2>2. CASE pages[g].step = "save"
    <3>1. PICK p \in SavePage : p = pages[g]
      BY <2>1, <2>2, PageKinds
    <3>2. /\ p.key \in Key /\ p.draft \in DraftRow \cup {None}
          /\ p.declaration \in DeclarationRow \cup {None} /\ p.authority \in AuthorityRow
      BY DEF SavePage
    <3>3. /\ Revision(p.draft) \in Nat /\ Revision(drafts[p.key]) \in Nat
          /\ Revision(p.declaration) \in Nat /\ Revision(declarations[p.key]) \in Nat
          /\ authority # None => Revision(authority) \in Nat
          /\ Revision(p.authority) \in Nat
      BY <3>2, RevisionOfRow DEF SettingsTypeOK
    <3>4. /\ Seen(p.draft, drafts[p.key]) /\ Seen(p.declaration, declarations[p.key])
          /\ authority # None /\ Seen(p.authority, authority)
      BY <2>1, <2>2, <3>1 DEF PageHasSeen
    <3>5. Seen(p.draft, drafts'[p.key]) /\ Seen(p.declaration, declarations'[p.key])
      BY <3>2, <3>3, <3>4, SeenOfNext
    <3>6. Seen(p.authority, authority') /\ authority' # None
      BY <3>3, <3>4, SeenOfNext
    <3> QED BY <2>2, <3>1, <3>5, <3>6 DEF PageHasSeen
  <2>3. CASE pages[g].step = "replace"
    <3>1. PICK p \in ReplacePage : p = pages[g]
      BY <2>1, <2>3, PageKinds
    <3>2. authority # None /\ Seen(p.authority, authority)
      BY <2>1, <2>3, <3>1 DEF PageHasSeen
    <3>3. Revision(p.authority) \in Nat /\ Revision(authority) \in Nat
      BY <3>2, RevisionOfRow DEF SettingsTypeOK, ReplacePage
    <3>4. Seen(p.authority, authority') /\ authority' # None
      BY <3>2, <3>3, SeenOfNext
    <3> QED BY <2>3, <3>1, <3>4 DEF PageHasSeen
  <2> QED BY <2>1, <2>2, <2>3 DEF PageHasSeen
<1> QED BY <1>1, <1>2, <1>3 DEF EachTargetOnce, OneOpenApplication, OpenApplication, PagesHaveSeen

\* What the command of a save does to the rows.
LEMMA SaveMoves ==
  ASSUME SettingsInv, NEW h \in Page, SaveSettings(h)
  PROVE  /\ pages[h] \in SavePage /\ authority # None
         /\ drafts' \in [Key -> DraftRow \cup {None}]
         /\ declarations' \in [Key -> DeclarationRow \cup {None}]
         /\ authority' \in AuthorityRow
         /\ \A k \in Key : /\ GoesOn(drafts[k], drafts'[k]) /\ GoesOn(declarations[k], declarations'[k])
                           /\ drafts'[k] # drafts[k] =>
                                k = pages[h].key /\ Revision(pages[h].draft) = Revision(drafts[k])
                           /\ declarations'[k] # declarations[k] =>
                                k = pages[h].key /\ Revision(pages[h].declaration) = Revision(declarations[k])
         /\ GoesOn(authority, authority')
         /\ authority' # authority => pages[h].authority.revision = authority.revision
         /\ pages' \in [Page -> PageState]
         /\ \A g \in Page : pages'[g] = pages[g] \/ pages'[g] \in MirrorPage \cup {None}
<1> USE DEF SettingsInv
<1>t. /\ SettingsTypeOK /\ pages \in [Page -> PageState]
      /\ drafts \in [Key -> DraftRow \cup {None}]
      /\ declarations \in [Key -> DeclarationRow \cup {None}]
      /\ authority \in AuthorityRow \cup {None}
  BY PageTypes DEF SettingsTypeOK
<1>1. PICK p : p = pages[h]
  OBVIOUS
<1>2. p \in SavePage /\ p.key \in Key
  BY <1>t, <1>1, PageKinds DEF SaveSettings, SavePage
<1>3. authority # None
  BY <1>1, <1>2, SettingsNulls DEF PagesHaveSeen, PageHasSeen, SavePage
<1>4. /\ drafts' \in [Key -> DraftRow \cup {None}]
      /\ \A k \in Key : /\ GoesOn(drafts[k], drafts'[k])
                        /\ drafts'[k] # drafts[k] =>
                             k = p.key /\ Revision(p.draft) = Revision(drafts[k])
  <2>1. CASE "patch" \in p.change.has
    <3>1. drafts' = [drafts EXCEPT ![p.key] = DraftAfter(p)] /\ Revision(p.draft) = Revision(drafts[p.key])
      BY <1>1, <2>1 DEF SaveSettings, DraftAccepts
    <3>2. DraftAfter(p) \in DraftRow /\ GoesOn(drafts[p.key], DraftAfter(p))
      BY <1>2, <2>1, DraftGoesOn
    <3> QED BY <1>t, <1>2, <3>1, <3>2 DEF GoesOn
  <2>2. CASE "patch" \notin p.change.has
    BY <1>t, <1>1, <2>2 DEF SaveSettings, GoesOn
  <2> QED BY <2>1, <2>2
<1>5. /\ declarations' \in [Key -> DeclarationRow \cup {None}]
      /\ \A k \in Key : /\ GoesOn(declarations[k], declarations'[k])
                        /\ declarations'[k] # declarations[k] =>
                             k = p.key /\ Revision(p.declaration) = Revision(declarations[k])
  <2>1. CASE "declaration" \in p.change.has
    <3>1. /\ declarations' = [declarations EXCEPT ![p.key] = DeclarationAfter(p)]
          /\ Revision(p.declaration) = Revision(declarations[p.key])
      BY <1>1, <2>1 DEF SaveSettings, DeclarationAccepts
    <3>2. DeclarationAfter(p) \in DeclarationRow /\ GoesOn(declarations[p.key], DeclarationAfter(p))
      BY <1>2, <2>1, DeclarationGoesOn
    <3> QED BY <1>t, <1>2, <3>1, <3>2 DEF GoesOn
  <2>2. CASE "declaration" \notin p.change.has
    BY <1>t, <1>1, <2>2 DEF SaveSettings, GoesOn
  <2> QED BY <2>1, <2>2
<1>6. /\ authority' \in AuthorityRow /\ GoesOn(authority, authority')
      /\ authority' # authority => p.authority.revision = authority.revision
      /\ pages' \in [Page -> PageState]
      /\ \A g \in Page : pages'[g] = pages[g] \/ pages'[g] \in MirrorPage \cup {None}
  <2>1. CASE "risk" \in p.change.has
    <3>1. BindingsAfter(p) \in Bindings
      BY <1>t, <1>2, <1>3, <2>1, BindingsType
    <3>2. authority' \in Written(authority, BindingsAfter(p), p.change.risk # "clear")
      BY <1>1, <2>1 DEF SaveSettings
    <3>3. (p.change.risk # "clear") \in BOOLEAN
      OBVIOUS
    <3>4. authority' \in AuthorityRow /\ GoesOn(authority, authority')
      BY <1>t, <1>3, <3>1, <3>2, <3>3, AuthorityGoesOn
    <3>5. pages' = [pages EXCEPT ![h] = [step |-> "mirror", bindings |-> BindingsAfter(p)]]
      BY <1>1, <2>1 DEF SaveSettings
    <3>6. [step |-> "mirror", bindings |-> BindingsAfter(p)] \in MirrorPage
      BY <3>1 DEF MirrorPage
    <3>7. p.authority.revision = authority.revision
      BY <1>1, <2>1 DEF SaveSettings, RiskAccepts
    <3> QED BY <1>t, <3>4, <3>5, <3>6, <3>7 DEF PageState
  <2>2. CASE "risk" \notin p.change.has
    BY <1>t, <1>1, <1>3, <2>2 DEF SaveSettings, Drop, GoesOn, PageState
  <2> QED BY <2>1, <2>2
<1> QED BY <1>1, <1>2, <1>3, <1>4, <1>5, <1>6

LEMMA ReplaceMoves ==
  ASSUME SettingsInv, NEW h \in Page, ReplaceBindings(h)
  PROVE  /\ pages[h] \in ReplacePage /\ authority # None
         /\ pages[h].authority.revision = authority.revision
         /\ authority' \in AuthorityRow /\ GoesOn(authority, authority')
         /\ pages' \in [Page -> PageState]
         /\ \A g \in Page : pages'[g] = pages[g] \/ pages'[g] \in MirrorPage \cup {None}
<1> USE DEF SettingsInv
<1>t. /\ SettingsTypeOK /\ pages \in [Page -> PageState] /\ authority \in AuthorityRow \cup {None}
  BY PageTypes DEF SettingsTypeOK
<1>1. PICK p : p = pages[h]
  OBVIOUS
<1>2. p \in ReplacePage
  BY <1>t, <1>1, PageKinds DEF ReplaceBindings
<1>3. authority # None
  BY <1>1, <1>2, SettingsNulls DEF PagesHaveSeen, PageHasSeen, ReplacePage
<1>4. /\ p.authority.revision = authority.revision /\ p.bindings \in Bindings
      /\ authority' \in Written(authority, p.bindings, DOMAIN p.bindings # {})
      /\ pages' = [pages EXCEPT ![h] = [step |-> "mirror", bindings |-> p.bindings]]
  BY <1>1, <1>2 DEF ReplaceBindings, ReplacePage
<1>5. (DOMAIN p.bindings # {}) \in BOOLEAN
  OBVIOUS
<1>6. authority' \in AuthorityRow /\ GoesOn(authority, authority')
  BY <1>t, <1>3, <1>4, <1>5, AuthorityGoesOn
<1>7. [step |-> "mirror", bindings |-> p.bindings] \in MirrorPage
  BY <1>4 DEF MirrorPage
<1> QED BY <1>t, <1>1, <1>2, <1>3, <1>4, <1>6, <1>7 DEF PageState

LEMMA WritesKeep ==
  ASSUME SettingsInv, NEW h \in Page, SaveSettings(h) \/ ReplaceBindings(h)
  PROVE  SettingsInv'
<1>1. CASE SaveSettings(h)
  <2>1. UNCHANGED <<registry, kv, applications>>
    BY <1>1 DEF SaveSettings
  <2> QED BY <1>1, <2>1, SaveMoves, RowsGoOn, SettingsNulls
<1>2. CASE ReplaceBindings(h)
  <2>1. UNCHANGED <<registry, kv, applications, drafts, declarations>>
    BY <1>2 DEF ReplaceBindings
  <2>2. /\ drafts \in [Key -> DraftRow \cup {None}]
        /\ declarations \in [Key -> DeclarationRow \cup {None}]
        /\ \A k \in Key : GoesOn(drafts[k], drafts[k]) /\ GoesOn(declarations[k], declarations[k])
    BY DEF SettingsInv, SettingsTypeOK, GoesOn
  <2> QED BY <1>2, <2>1, <2>2, ReplaceMoves, RowsGoOn, SettingsNulls
<1> QED BY <1>1, <1>2

\* An application that goes on keeps what was approved, and only an approved one moves.
Advances(row, next) ==
  /\ next \in ApplicationRow
  /\ \/ next = row
     \/ /\ row.status = "approved" /\ next.status \in {"invalidated", "claimed"}
        /\ next.key = row.key /\ next.identity = row.identity /\ next.instance = row.instance
        /\ next.draft = row.draft /\ next.old = row.old /\ next.new = row.new

\* A step of the applications' table: rows advance, and a new one is of the draft as it
\* is, the only open one of its account.
LEMMA TableKeeps ==
  ASSUME SettingsInv, UNCHANGED <<registry, drafts, declarations, authority, kv>>,
         applications' \in [Request -> ApplicationRow \cup {None}],
         \A r \in Request :
           applications[r] # None => Advances(applications[r], applications'[r]),
         \A r \in Request : applications[r] = None /\ applications'[r] # None =>
           LET row == applications'[r]
           IN /\ drafts[row.key] # None /\ drafts[row.key].revision = row.draft
              /\ drafts[row.key].identity = row.identity
              /\ drafts[row.key].overrides = [f \in {"strategy_profile"} |-> row.new]
              /\ \A q \in Request : q # r /\ applications'[q] # None /\ applications'[q].key = row.key =>
                                       applications'[q].status = "invalidated"
                                    \/ (applications[q] # None /\ ~OpenApplication(applications[q])),
         pages' \in [Page -> PageState],
         \A g \in Page : pages'[g] = pages[g] \/ pages'[g] = None
  PROVE  SettingsInv'
<1> USE DEF SettingsInv
<1>t. /\ applications \in [Request -> ApplicationRow \cup {None}]
      /\ drafts \in [Key -> DraftRow \cup {None}]
  BY DEF SettingsTypeOK
<1>1. SettingsTypeOK'
  BY DEF SettingsTypeOK, PageState
<1>2. OneOpenApplication'
  <2> SUFFICES ASSUME NEW q \in Request, NEW r \in Request, q # r,
                      OpenApplication(applications'[q]), OpenApplication(applications'[r]),
                      applications'[q].key = applications'[r].key
               PROVE  FALSE
    BY DEF OneOpenApplication
  <2>1. ASSUME NEW x \in Request, applications[x] # None, OpenApplication(applications'[x])
        PROVE  OpenApplication(applications[x]) /\ applications'[x].key = applications[x].key
    BY <1>t, <2>1 DEF Advances, OpenApplication
  <2>2. CASE applications[q] # None /\ applications[r] # None
    BY <2>1, <2>2 DEF OneOpenApplication
  <2>3. CASE applications[r] = None
    BY <2>1, <2>3 DEF OpenApplication
  <2>4. CASE applications[q] = None
    BY <2>1, <2>4 DEF OpenApplication
  <2> QED BY <2>2, <2>3, <2>4
<1>3. ApplicationsNameDrafts'
  <2> SUFFICES ASSUME NEW r \in Request, applications'[r] # None
               PROVE  LET draft == drafts[applications'[r].key]
                      IN /\ applications'[r].draft \in 1..Revision(draft)
                         /\ Revision(draft) = applications'[r].draft =>
                              /\ draft.identity = applications'[r].identity
                              /\ draft.overrides = [f \in {"strategy_profile"} |-> applications'[r].new]
    BY DEF ApplicationsNameDrafts
  <2>1. CASE applications[r] # None
    <3>1. /\ applications'[r].key = applications[r].key /\ applications'[r].draft = applications[r].draft
          /\ applications'[r].identity = applications[r].identity
          /\ applications'[r].new = applications[r].new
      BY <2>1 DEF Advances
    <3>2. ApplicationsNameDrafts
      OBVIOUS
    <3> HIDE DEF SettingsInv
    <3> QED BY ONLY <2>1, <3>1, <3>2, r \in Request DEF ApplicationsNameDrafts
  <2>2. CASE applications[r] = None
    <3>1. PICK row \in ApplicationRow : row = applications'[r]
      OBVIOUS
    <3>a. row.key \in Key
      BY <3>1 DEF ApplicationRow
    <3> HIDE DEF SettingsInv
    <3>b. drafts[row.key] # None /\ drafts[row.key].revision = row.draft
      BY <2>2, <3>1
    <3>c. /\ drafts[row.key].identity = row.identity
          /\ drafts[row.key].overrides = [f \in {"strategy_profile"} |-> row.new]
      BY <2>2, <3>1
    <3>2. /\ drafts[row.key] \in DraftRow /\ drafts[row.key].revision = row.draft
          /\ drafts[row.key].identity = row.identity
          /\ drafts[row.key].overrides = [f \in {"strategy_profile"} |-> row.new]
      BY <1>t, <3>a, <3>b, <3>c
    <3>3. Revision(drafts[row.key]) = row.draft /\ row.draft \in Nat \ {0}
      BY <3>2, SettingsNulls DEF Revision, DraftRow
    <3>4. Revision(drafts[row.key]) = row.draft /\ row.draft \in 1..Revision(drafts[row.key])
      BY <3>3
    <3> QED BY ONLY <3>1, <3>2, <3>4
  <2> QED BY <2>1, <2>2
<1>4. PagesHaveSeen'
  <2>1. \A r \in Request : applications[r] # None => applications'[r] # None
    BY SettingsNulls DEF Advances
  <2>2. \A g \in Page : pages[g] # None /\ pages[g].step = "claim" => pages[g].request \in Request
    BY PageTypes, PageKinds DEF ClaimPage
  <2> QED BY <2>1, <2>2 DEF PagesHaveSeen, PageHasSeen
<1> QED BY <1>1, <1>2, <1>3, <1>4 DEF EachTargetOnce

LEMMA ApproveMoves ==
  ASSUME SettingsInv, NEW h \in Page, Approve(h)
  PROVE  /\ applications' \in [Request -> ApplicationRow \cup {None}]
         /\ \A r \in Request :
              applications[r] # None => Advances(applications[r], applications'[r])
         /\ SettingsInv'
<1> USE DEF SettingsInv
<1>t. /\ SettingsTypeOK /\ pages \in [Page -> PageState]
      /\ applications \in [Request -> ApplicationRow \cup {None}]
      /\ drafts \in [Key -> DraftRow \cup {None}]
  BY PageTypes DEF SettingsTypeOK
<1>1. PICK p : p = pages[h]
  OBVIOUS
<1>2. p \in ApprovalPage
  BY <1>t, <1>1, PageKinds DEF Approve
<1>3. PICK rest : rest = AfterInvalidation(p)
  OBVIOUS
<1>4. PICK new : new = [status |-> "approved", key |-> p.key, identity |-> p.identity,
                        instance |-> p.instance, draft |-> p.draft, old |-> p.old, new |-> p.new,
                        run |-> None]
  OBVIOUS
<1>5. new \in ApplicationRow
  BY <1>2, <1>4 DEF ApprovalPage, ApplicationRow
<1>6. /\ applications[p.request] = None /\ p.request \in Request
      /\ applications' = [rest EXCEPT ![p.request] = new]
      /\ ~Pending(rest, p.key)
      /\ Identity(p.key) = p.identity /\ DraftIsOnly(p.key, p.draft, p.new)
      /\ UNCHANGED <<registry, drafts, declarations, authority, kv>>
      /\ pages' = [pages EXCEPT ![h] = None]
  BY <1>1, <1>2, <1>3, <1>4 DEF Approve, Drop, ApprovalPage
<1>7. rest = [r \in Request |->
                IF applications[r] # None
                THEN IF applications[r].key = p.key /\ applications[r].status = "approved"
                          /\ Stale(applications[r], p)
                     THEN [applications[r] EXCEPT !.status = "invalidated"]
                     ELSE applications[r]
                ELSE None]
  BY <1>3 DEF AfterInvalidation
<1>8. ASSUME NEW r \in Request, applications[r] # None
      PROVE  Advances(applications[r], rest[r])
  <2>1. PICK row \in ApplicationRow : row = applications[r]
    BY <1>t, <1>8
  <2>2. CASE rest[r] = row
    BY <2>1, <2>2 DEF Advances
  <2>3. CASE row.status = "approved" /\ rest[r] = [row EXCEPT !.status = "invalidated"]
    BY <2>1, <2>3 DEF Advances, ApplicationRow
  <2> QED BY <1>7, <1>8, <2>1, <2>2, <2>3
<1>9. \A r \in Request : applications[r] = None => rest[r] = None
  BY <1>7
<1>10. rest \in [Request -> ApplicationRow \cup {None}]
  <2>1. rest = [r \in Request |-> rest[r]]
    BY <1>7
  <2>2. \A r \in Request : rest[r] \in ApplicationRow \cup {None}
    BY <1>8, <1>9 DEF Advances
  <2> QED BY <2>1, <2>2
<1>11. /\ applications' \in [Request -> ApplicationRow \cup {None}]
       /\ applications'[p.request] = new /\ \A r \in Request \ {p.request} : applications'[r] = rest[r]
  BY <1>5, <1>6, <1>10
<1>12. \A r \in Request : applications[r] # None => Advances(applications[r], applications'[r])
  BY <1>6, <1>8, <1>11
<1>13. /\ drafts[p.key] # None /\ drafts[p.key].revision = p.draft /\ drafts[p.key].identity = p.identity
       /\ drafts[p.key].overrides = [f \in {"strategy_profile"} |-> p.new]
  BY <1>6 DEF DraftIsOnly, Status
<1>14. \A q \in Request : q # p.request /\ applications'[q] # None /\ applications'[q].key = p.key =>
          applications'[q].status = "invalidated"
  BY <1>6, <1>10, <1>11 DEF Pending, OpenApplication, ApplicationRow
<1>15. pages' \in [Page -> PageState] /\ \A g \in Page : pages'[g] = pages[g] \/ pages'[g] = None
  BY <1>t, <1>6 DEF PageState
<1>16. \A r \in Request : applications[r] = None /\ applications'[r] # None =>
         LET row == applications'[r]
         IN /\ drafts[row.key] # None /\ drafts[row.key].revision = row.draft
            /\ drafts[row.key].identity = row.identity
            /\ drafts[row.key].overrides = [f \in {"strategy_profile"} |-> row.new]
            /\ \A q \in Request : q # r /\ applications'[q] # None /\ applications'[q].key = row.key =>
                                     applications'[q].status = "invalidated"
                                  \/ (applications[q] # None /\ ~OpenApplication(applications[q]))
  <2> SUFFICES ASSUME NEW r \in Request, applications[r] = None, applications'[r] # None
               PROVE  r = p.request
    BY <1>4, <1>11, <1>13, <1>14
  <2> QED BY <1>9, <1>11
<1> QED BY <1>6, <1>11, <1>12, <1>15, <1>16, TableKeeps

LEMMA ClaimMoves ==
  ASSUME SettingsInv, NEW h \in Page, Claim(h)
  PROVE  /\ applications' \in [Request -> ApplicationRow \cup {None}]
         /\ \A r \in Request :
              applications[r] # None => Advances(applications[r], applications'[r])
         /\ SettingsInv'
<1> USE DEF SettingsInv
<1>t. /\ SettingsTypeOK /\ pages \in [Page -> PageState]
      /\ applications \in [Request -> ApplicationRow \cup {None}]
  BY PageTypes DEF SettingsTypeOK
<1>1. PICK p : p = pages[h]
  OBVIOUS
<1>2. p \in ClaimPage /\ p.request \in Request /\ p.run \in Run
  BY <1>t, <1>1, PageKinds DEF Claim, ClaimPage
<1>3. PICK row \in ApplicationRow : row = applications[p.request]
  BY <1>t, <1>1, <1>2, SettingsNulls DEF PagesHaveSeen, PageHasSeen, ClaimPage
<1>4. PICK next : next = [row EXCEPT !.status = "claimed", !.run = p.run]
  OBVIOUS
<1>5. /\ row.status = "approved"
      /\ applications' = [applications EXCEPT ![p.request].status = "claimed", ![p.request].run = p.run]
      /\ UNCHANGED <<registry, drafts, declarations, authority, kv>>
      /\ pages' = [pages EXCEPT ![h] = None]
  BY <1>1, <1>3 DEF Claim, Drop
<1>6. next \in ApplicationRow /\ Advances(row, next)
  BY <1>2, <1>4, <1>5 DEF Advances, ApplicationRow
<1>7. /\ applications' \in [Request -> ApplicationRow \cup {None}]
      /\ applications'[p.request] = next
      /\ \A r \in Request \ {p.request} : applications'[r] = applications[r]
  BY <1>t, <1>2, <1>3, <1>4, <1>5, <1>6
<1>8. \A r \in Request : applications[r] # None => Advances(applications[r], applications'[r])
  BY <1>t, <1>3, <1>6, <1>7 DEF Advances
<1>9. \A r \in Request : applications[r] = None => applications'[r] = None
  BY <1>3, <1>7, SettingsNulls
<1>10. pages' \in [Page -> PageState] /\ \A g \in Page : pages'[g] = pages[g] \/ pages'[g] = None
  BY <1>t, <1>5 DEF PageState
<1> QED BY <1>5, <1>7, <1>8, <1>9, <1>10, TableKeeps

\* The registry, the rows, and what requests hold between their read and their command:
\* a target belongs to one instance, an account has one open application, a revision
\* stands for one content, and what a request has seen is that revision's content.
THEOREM SettingsInvariant == SettingsSpec => []SettingsInv
<1>1. SettingsInv /\ [SettingsNext]_settingsVars => SettingsInv'
  <2> SUFFICES ASSUME SettingsInv, [SettingsNext]_settingsVars PROVE SettingsInv'
    OBVIOUS
  <2>1. CASE RegistryStep
    BY <2>1, RegistryKeeps
  <2>2. CASE SettingsStep
    BY <2>2, ReadsKeep, WritesKeep DEF SettingsStep
  <2>3. CASE ProfileStep
    BY <2>3, ReadsKeep, ApproveMoves, ClaimMoves DEF ProfileStep
  <2>4. CASE UNCHANGED settingsVars
    <3>1. UNCHANGED <<registry, drafts, declarations, authority, kv, applications, pages>>
      BY <2>4 DEF settingsVars
    <3> QED BY <3>1, PageTypes, ReadKeeps DEF SettingsInv, SettingsTypeOK
  <2> QED BY <2>1, <2>2, <2>3, <2>4 DEF SettingsNext
<1> QED BY <1>1, SettingsInitially, PTL DEF SettingsSpec

\* What the run checks of the settings, for any accounts, requests and changes
\* (runtimeInstanceConflict, approveAccountSettingsProfileApplication).
THEOREM SettingsTrue == SettingsSpec => []SettingsHold
<1>1. SettingsInv => SettingsHold
  BY DEF SettingsInv, SettingsHold, ApplicationsNameDrafts, RevisionMeansContent
<1> QED BY <1>1, SettingsInvariant, PTL

\* Whoever overwrites a draft, a declaration or the risk bindings has seen exactly that:
\* comparing revisions is comparing contents (saveAccountSettings).
THEOREM OverwritesOnlySeen == SettingsSpec => SavedAsSeen
<1>1. SettingsInv /\ [SettingsNext]_settingsVars => OverwritesAsSeen
  <2> SUFFICES ASSUME SettingsInv, [SettingsNext]_settingsVars PROVE OverwritesAsSeen
    OBVIOUS
  <2> USE DEF OverwritesAsSeen
  <2>t. SettingsTypeOK
    BY DEF SettingsInv
  <2>1. ASSUME NEW h \in Page, SaveSettings(h) PROVE OverwritesAsSeen
    <3>1. PICK p \in SavePage : p = pages[h]
      BY <2>1, SaveMoves
    <3>2. p # None /\ p.step = "save" /\ p.authority \in AuthorityRow
      BY SettingsNulls DEF SavePage
    <3>3. /\ Seen(p.draft, drafts[p.key]) /\ Seen(p.declaration, declarations[p.key])
          /\ Seen(p.authority, authority) /\ authority \in AuthorityRow
      BY <2>t, <3>1, <3>2 DEF SettingsInv, PagesHaveSeen, PageHasSeen, SettingsTypeOK
    <3>4. p.authority.revision = authority.revision => p.authority = authority
      BY <3>2, <3>3, RevisionOfRow DEF Seen
    <3> QED BY <2>1, <3>1, <3>2, <3>3, <3>4, SaveMoves DEF Seen
  <2>2. ASSUME NEW h \in Page, ReplaceBindings(h) PROVE OverwritesAsSeen
    <3>1. PICK p \in ReplacePage : p = pages[h]
      BY <2>2, ReplaceMoves
    <3>2. p # None /\ p.step = "replace" /\ p.authority \in AuthorityRow
      BY SettingsNulls DEF ReplacePage
    <3>3. Seen(p.authority, authority) /\ authority \in AuthorityRow
      BY <2>t, <3>1, <3>2 DEF SettingsInv, PagesHaveSeen, PageHasSeen, SettingsTypeOK
    <3>4. p.authority = authority
      BY <2>2, <3>1, <3>2, <3>3, RevisionOfRow, ReplaceMoves DEF Seen
    <3> QED BY <2>2, <3>1, <3>2, <3>4 DEF ReplaceBindings
  <2>3. CASE UNCHANGED <<drafts, declarations>> /\ (authority # None => authority' = authority)
    BY <2>3
  <2>4. CASE RegistryStep \/ UNCHANGED settingsVars
    BY <2>3, <2>4 DEF RegistryStep, Initialize, CreateInstance, EditInstance, RequestRetirement,
       SetBrokerEnvironment, SyncDefaults, Commit, settings, settingsVars
  <2>5. CASE SettingsStep
    BY <2>t, <2>1, <2>2, <2>3, <2>5, EnsuredRow DEF SettingsStep, ReadSettings, SaveRead, Mirror, GiveUp,
       ReplaceRead, settings
  <2>6. CASE ProfileStep
    <3>1. ASSUME NEW k \in Key, ReadControls(k) PROVE OverwritesAsSeen
      BY <2>t, <2>3, <3>1, EnsuredRow DEF ReadControls, ReadWithoutLegacy
    <3>2. ASSUME NEW h \in Page, NEW r \in Request, NEW k \in Key, NEW old \in Profile, NEW new \in Profile,
                 NEW n \in 1..MaxDraft, ApproveRead(h, r, k, old, new, n)
          PROVE  OverwritesAsSeen
      BY <2>t, <2>3, <3>2, EnsuredRow DEF ApproveRead, ReadWithoutLegacy
    <3>3. ASSUME NEW h \in Page, NEW r \in Request, NEW run \in Run, ClaimRead(h, r, run) PROVE OverwritesAsSeen
      BY <2>t, <2>3, <3>3, EnsuredRow DEF ClaimRead, ReadWithoutLegacy
    <3>4. ASSUME NEW h \in Page, ApproveReadback(h) \/ Approve(h) \/ Claim(h) PROVE OverwritesAsSeen
      BY <2>3, <3>4 DEF ApproveReadback, Approve, Claim, settings
    <3> QED BY <2>6, <3>1, <3>2, <3>3, <3>4 DEF ProfileStep
  <2> QED BY <2>4, <2>5, <2>6 DEF SettingsNext
<1>2. SettingsInv /\ [SettingsNext]_settingsVars => [OverwritesAsSeen]_settingsVars
  BY <1>1
<1> QED BY <1>2, SettingsInvariant, PTL DEF SettingsSpec, SavedAsSeen

\* An application keeps what was approved and moves once, to claimed or to invalidated
\* (approveAccountSettingsProfileApplication, claimAccountSettingsProfileApplication).
THEOREM ApplicationsAdvance == SettingsSpec => ApplicationsOnlyAdvance
<1> DEFINE Advance ==
      \A r \in Request :
        applications[r] # None =>
          /\ applications'[r] # None
          /\ [applications'[r] EXCEPT !.status = "approved", !.run = None]
               = [applications[r] EXCEPT !.status = "approved", !.run = None]
          /\ applications[r].status # "approved" => applications'[r] = applications[r]
<1>1. SettingsInv /\ [SettingsNext]_settingsVars => Advance
  <2> SUFFICES ASSUME SettingsInv, [SettingsNext]_settingsVars PROVE Advance
    OBVIOUS
  <2>t. applications \in [Request -> ApplicationRow \cup {None}]
    BY DEF SettingsInv, SettingsTypeOK
  <2>1. ASSUME NEW r \in Request, applications[r] # None, Advances(applications[r], applications'[r])
        PROVE  /\ applications'[r] # None
               /\ [applications'[r] EXCEPT !.status = "approved", !.run = None]
                    = [applications[r] EXCEPT !.status = "approved", !.run = None]
               /\ applications[r].status # "approved" => applications'[r] = applications[r]
    <3>1. PICK row \in ApplicationRow, next \in ApplicationRow :
            row = applications[r] /\ next = applications'[r]
      BY <2>t, <2>1 DEF Advances
    <3>2. [next EXCEPT !.status = "approved", !.run = None]
            = [row EXCEPT !.status = "approved", !.run = None]
      BY <2>1, <3>1 DEF Advances, ApplicationRow
    <3> QED BY <2>1, <3>1, <3>2, SettingsNulls DEF Advances
  <2>2. ASSUME NEW h \in Page, Approve(h) \/ Claim(h) PROVE Advance
    BY <2>1, <2>2, ApproveMoves, ClaimMoves
  <2>3. CASE UNCHANGED applications
    BY <2>3
  <2>4. CASE RegistryStep \/ UNCHANGED settingsVars
    BY <2>3, <2>4 DEF RegistryStep, Initialize, CreateInstance, EditInstance, RequestRetirement,
       SetBrokerEnvironment, SyncDefaults, Commit, settings, settingsVars
  <2>5. CASE SettingsStep
    BY <2>3, <2>5 DEF SettingsStep, ReadSettings, SaveRead, SaveSettings, Mirror, GiveUp, ReplaceRead,
       ReplaceBindings, settings
  <2>6. CASE ProfileStep
    <3>1. ASSUME NEW k \in Key, ReadControls(k) PROVE Advance
      BY <2>3, <3>1 DEF ReadControls
    <3>2. ASSUME NEW h \in Page, NEW r \in Request, NEW k \in Key, NEW old \in Profile, NEW new \in Profile,
                 NEW n \in 1..MaxDraft, ApproveRead(h, r, k, old, new, n)
          PROVE  Advance
      BY <2>3, <3>2 DEF ApproveRead
    <3>3. ASSUME NEW h \in Page, NEW r \in Request, NEW run \in Run, ClaimRead(h, r, run) PROVE Advance
      BY <2>3, <3>3 DEF ClaimRead
    <3>4. ASSUME NEW h \in Page, ApproveReadback(h) PROVE Advance
      BY <2>3, <3>4 DEF ApproveReadback, settings
    <3> HIDE DEF Advance
    <3> QED BY <2>2, <2>6, <3>1, <3>2, <3>3, <3>4 DEF ProfileStep
  <2> QED BY <2>4, <2>5, <2>6 DEF SettingsNext
<1>2. SettingsInv /\ [SettingsNext]_settingsVars => [Advance]_settingsVars
  BY <1>1
<1> QED BY <1>2, SettingsInvariant, PTL DEF SettingsSpec, ApplicationsOnlyAdvance

\* Both promises of the steps, as the run checks them.
THEOREM SettingsOnlyMoveOn == SettingsSpec => SettingsMoveOn
BY OverwritesOnlySeen, ApplicationsAdvance DEF SettingsMoveOn

----------------------------------------------------------------------------
(* Ux1Research *)

\* A job exists only where the workflow is deployed, and only for a draft that needs one.
JobsAreOfTheWorkflow ==
  slot.job # Nothing => config.mode = "github_actions" /\ Classify(slot.job.draft) = "calculate"

\* What a page's request holds, for what it is about to do: a preview to store is of its
\* draft, and with the workflow deployed it is one that needed no computation; a request
\* that posts a job knows it, and the job has not been posted.
PageIsSound(held) ==
  /\ held.config.mode = config.mode
  /\ held.at = "store" =>
       /\ held.preview # Nothing /\ held.preview.draft = held.draft
       /\ config.mode = "github_actions" =>
            Classify(held.draft) # "calculate" /\ held.preview.status \notin Computed
  /\ held.at = "calculate" => config.mode # "github_actions"
  /\ held.at = "begin" => config.mode = "github_actions" /\ Classify(held.draft) = "calculate"
  /\ held.at \in {"post", "dispatched", "rejected", "unknown"} =>
       slot.job # Nothing /\ held.job \in 1..slot.job.id
  /\ held.at = "post" => github[held.job] = 0

PagesAreSound ==
  /\ \A t \in Tab : tabs[t] # Nothing => PageIsSound(tabs[t])
  /\ \A t, u \in Tab :
       /\ tabs[t] # Nothing /\ tabs[t].at = "post"
       /\ tabs[u] # Nothing /\ tabs[u].at = "post" /\ tabs[u].job = tabs[t].job
       => t = u

\* A job is posted once, by the request that created it.
PostsAreOnce ==
  \A j \in Jobs : /\ github[j] <= 1
                  /\ slot.job = Nothing \/ j > slot.job.id => github[j] = 0

\* What a run is about to save was computed for the job it names.
AnswersAreSound ==
  \A a \in Attempt : answers[a] # Nothing =>
    /\ slot.job # Nothing /\ answers[a].job <= slot.job.id
    /\ answers[a].job = slot.job.id /\ answers[a].preview # Nothing =>
         /\ answers[a].preview.draft = slot.job.draft
         /\ answers[a].preview.evidence = slot.job.config.evidence
         /\ answers[a].preview.epoch = slot.job.config.epoch

ResearchInv ==
  /\ Ux1TypeOK
  /\ ResearchIsEarned
  /\ JobsAreOfTheWorkflow
  /\ PagesAreSound
  /\ PostsAreOnce
  /\ AnswersAreSound

\* What a calculator's answer is projected to is of the draft it was asked about.
LEMMA ProjectionsAreOfTheDraft ==
  ASSUME NEW d \in Draft, NEW p \in ProjectionsOf[d], p # Rejected
  PROVE  p \in Projection /\ p.draft = d
<1>1. PICK raw \in Raw : p = Projected(raw, d)
  BY DEF ProjectionsOf, Projections
<1>2. raw.evidence \in Evidence
  BY Ux1Inputs DEF RawResult, Evidence
<1>3. p = [draft |-> d,
           status |-> CASE raw.status # "ok" -> raw.status
                        [] raw.status = "ok" /\ ~raw.gain -> "no_advantage"
                        [] raw.status = "ok" /\ raw.gain /\ raw.real -> "no_action"
                        [] OTHER -> "computed",
           evidence |-> IF raw.status = "ok" THEN raw.evidence ELSE Nothing]
  BY <1>1 DEF Projected
<1>4. raw.status \in {"ok", "unsupported_scope", "missing_input"}
  BY <1>1, Ux1Inputs DEF Projected, RawResult
<1> QED BY <1>2, <1>3, <1>4 DEF Projection, PreviewStatus, Computed

\* A step of one page's request that changes nothing else.
LEMMA PageMoves ==
  ASSUME ResearchInv, UNCHANGED <<slot, config, answers, github>>,
         NEW t \in Tab, NEW next \in HeldByPage \cup {Nothing},
         tabs' = [tabs EXCEPT ![t] = next],
         next # Nothing => PageIsSound(next) /\ next.at # "post"
  PROVE  ResearchInv'
<1> USE DEF ResearchInv
<1>t. tabs \in [Tab -> HeldByPage \cup {Nothing}]
  BY DEF Ux1TypeOK
<1>1. Ux1TypeOK'
  BY <1>t DEF Ux1TypeOK
<1>2. (ResearchIsEarned /\ JobsAreOfTheWorkflow /\ PostsAreOnce /\ AnswersAreSound)'
  BY DEF ResearchIsEarned, OfThisDraft, OpenJobHidesTheRest, PreviewIsEarned, SameSlot, Blocks,
         JobsAreOfTheWorkflow, PostsAreOnce, AnswersAreSound
<1>3. PagesAreSound'
  <2>1. \A u \in Tab : tabs'[u] = IF u = t THEN next ELSE tabs[u]
    BY <1>t
  <2>2. \A held : PageIsSound(held)' <=> PageIsSound(held)
    BY DEF PageIsSound
  <2> QED BY <2>1, <2>2 DEF PagesAreSound, PageIsSound
<1> QED BY <1>1, <1>2, <1>3

\* A step that keeps which job the slot has: requests and runs give up or go on as they
\* were.
LEMMA SameJob ==
  ASSUME ResearchInv, UNCHANGED github,
         slot' \in Slot, slot'.revision > 0 => slot'.draft # Nothing,
         config' \in Config, config'.mode = config.mode,
         slot.job = Nothing => slot'.job = Nothing,
         slot.job # Nothing =>
           /\ slot'.job # Nothing /\ slot'.job.id = slot.job.id
           /\ slot'.job.draft = slot.job.draft /\ slot'.job.config = slot.job.config,
         tabs' \in [Tab -> HeldByPage \cup {Nothing}],
         \A t \in Tab : tabs'[t] = tabs[t] \/ tabs'[t] = Nothing,
         answers' \in [Attempt -> Answer \cup {Nothing}],
         \A a \in Attempt : answers'[a] = answers[a] \/ answers'[a] = Nothing,
         ResearchIsEarned'
  PROVE  ResearchInv'
<1> USE DEF ResearchInv
<1>1. Ux1TypeOK'
  BY DEF Ux1TypeOK
<1>2. JobsAreOfTheWorkflow'
  BY DEF JobsAreOfTheWorkflow
<1>3. PagesAreSound'
  <2>1. ASSUME NEW t \in Tab, tabs'[t] # Nothing PROVE PageIsSound(tabs[t])' /\ tabs'[t] = tabs[t]
    <3>1. PICK held \in HeldByPage : held = tabs[t] /\ held = tabs'[t]
      BY <2>1 DEF Ux1TypeOK
    <3>2. PageIsSound(held)
      BY <2>1, <3>1 DEF PagesAreSound
    <3>3. PageIsSound(held)'
      BY <3>2 DEF PageIsSound
    <3> QED BY <3>1, <3>3
  <2> QED BY <2>1 DEF PagesAreSound
<1>4. PostsAreOnce'
  BY DEF PostsAreOnce
<1>5. AnswersAreSound'
  BY DEF AnswersAreSound
<1> QED BY <1>1, <1>2, <1>3, <1>4, <1>5

\* A request that ends, or is done, forgets what it held.
LEMMA DoneForgets ==
  ASSUME Ux1TypeOK, NEW t \in Tab, Done(t)
  PROVE  /\ tabs' \in [Tab -> HeldByPage \cup {Nothing}]
         /\ \A u \in Tab : tabs'[u] = tabs[u] \/ tabs'[u] = Nothing
BY DEF Ux1TypeOK, Done

\* The slot without its preview shows no more than before.
LEMMA ClearKeeps ==
  ASSUME ResearchInv, NEW t \in Tab, NEW held \in HeldByPage, ClearPreview(held), Done(t),
         UNCHANGED <<config, answers, github>>
  PROVE  ResearchInv'
<1>1. PICK s \in Slot : s = slot
  BY DEF ResearchInv, Ux1TypeOK
<1>2. PICK s2 \in Slot : s2 = slot' /\ (s2 = s \/ s2 = [s EXCEPT !.preview = Nothing])
  BY <1>1 DEF ClearPreview, Slot
<1>3. /\ s2.job = s.job /\ s2.draft = s.draft /\ s2.revision = s.revision /\ s2.intent = s.intent
      /\ s2.preview = s.preview \/ s2.preview = Nothing
  BY <1>2 DEF Slot
<1>4. ResearchIsEarned'
  BY <1>1, <1>2, <1>3 DEF ResearchInv, ResearchIsEarned, OfThisDraft, OpenJobHidesTheRest,
     PreviewIsEarned, SameSlot, Blocks
<1>5. /\ config \in Config /\ answers \in [Attempt -> Answer \cup {Nothing}] /\ Ux1TypeOK
      /\ s.revision > 0 => s.draft # Nothing
  BY <1>1 DEF ResearchInv, Ux1TypeOK
<1> QED BY <1>1, <1>2, <1>3, <1>4, <1>5, DoneForgets, SameJob

\* What was earned stays earned while the slot and the mode stay.
LEMMA EarnedStays ==
  ASSUME ResearchInv, UNCHANGED slot, config'.mode = config.mode
  PROVE  ResearchIsEarned'
BY DEF ResearchInv, ResearchIsEarned, OfThisDraft, OpenJobHidesTheRest, PreviewIsEarned,
   SameSlot, Blocks

\* ux1_save.
LEMMA SaveDraftKeeps ==
  ASSUME ResearchInv, NEW d \in Draft, SaveDraft(d)
  PROVE  ResearchInv'
<1>1. PICK s \in Slot : s = slot
  BY DEF ResearchInv, Ux1TypeOK
<1>2. PICK s2 \in Slot :
        /\ s2 = slot'
        /\ s2.revision = s.revision + 1 /\ s2.draft = d /\ s2.job = s.job
        /\ s2.preview = Nothing /\ s2.intent = Nothing
  BY <1>1 DEF SaveDraft, Slot
<1>3. ResearchIsEarned'
  BY <1>1, <1>2 DEF ResearchIsEarned, OfThisDraft, OpenJobHidesTheRest, PreviewIsEarned, Slot
<1>4. slot'.job = slot.job /\ slot'.draft # Nothing
  BY <1>1, <1>2, Ux1Nulls DEF Slot
<1>5. /\ tabs' = tabs /\ answers' = answers /\ config' = config /\ github' = github /\ slot' \in Slot
      /\ tabs \in [Tab -> HeldByPage \cup {Nothing}] /\ config \in Config
      /\ answers \in [Attempt -> Answer \cup {Nothing}]
  BY <1>2 DEF SaveDraft, ResearchInv, Ux1TypeOK
<1> QED BY <1>3, <1>4, <1>5, SameJob

\* The handler of a preview chooses how it comes about.
LEMMA ReadForPreviewKeeps ==
  ASSUME ResearchInv, NEW t \in Tab, ReadForPreview(t)
  PROVE  ResearchInv'
<1>1. PICK s \in Slot : s = slot
  BY DEF ResearchInv, Ux1TypeOK
<1>2. s.draft \in Draft /\ s.revision \in Nat /\ config \in Config
  BY <1>1 DEF ReadForPreview, ResearchInv, Ux1TypeOK, Slot
<1> DEFINE local == Classify(s.draft) # "calculate"
           at == CASE local -> "store" [] ~local /\ config.mode = "github_actions" -> "begin"
                   [] OTHER -> "calculate"
           preview == IF local THEN LocalPreview(config) ELSE Nothing
           next == [at |-> at, revision |-> s.revision, draft |-> s.draft, config |-> config,
                    preview |-> preview, job |-> Nothing]
<1>3. tabs' = [tabs EXCEPT ![t] = next]
  BY <1>1 DEF ReadForPreview
<1>4. local => /\ LocalPreview(config) \in Preview /\ LocalPreview(config).draft = s.draft
               /\ LocalPreview(config).status \notin Computed
  BY <1>1, <1>2, Ux1Inputs
     DEF LocalPreview, Preview, PreviewStatus, Computed, Classify, Epochs
<1>5. preview \in Preview \cup {Nothing} /\ at \in {"store", "begin", "calculate"}
  BY <1>4
<1>6. next \in HeldByPage
  BY <1>2, <1>5 DEF HeldByPage
<1>7. PageIsSound(next)
  <2>1. CASE local
    <3>1. /\ next.at = "store" /\ next.preview = LocalPreview(config) /\ next.draft = s.draft
          /\ next.config = config
      <4>1. at = "store" /\ preview = LocalPreview(config)
        BY <2>1
      <4> HIDE DEF at, preview
      <4> QED BY <4>1
    <3>2. LocalPreview(config) # Nothing
      BY <1>4, <2>1, Ux1Nulls
    <3> HIDE DEF next
    <3> QED BY <1>4, <2>1, <3>1, <3>2 DEF PageIsSound
  <2>2. CASE ~local /\ config.mode = "github_actions"
    BY <2>2 DEF PageIsSound
  <2>3. CASE ~local /\ config.mode # "github_actions"
    BY <2>3 DEF PageIsSound
  <2> QED BY <2>1, <2>2, <2>3
<1>8. next.at # "post" /\ UNCHANGED <<slot, config, answers, github>>
  BY <1>5 DEF ReadForPreview
<1> QED BY <1>3, <1>6, <1>7, <1>8, PageMoves

\* The calculator of the local mode.
LEMMA CalculateKeeps ==
  ASSUME ResearchInv, NEW t \in Tab, Calculate(t)
  PROVE  ResearchInv'
<1>1. PICK s \in Slot, held \in HeldByPage : s = slot /\ held = tabs[t]
  BY DEF ResearchInv, Ux1TypeOK, Calculate
<1>2. PageIsSound(held) /\ held.at = "calculate"
  BY <1>1, Ux1Nulls DEF Calculate, ResearchInv, PagesAreSound
<1>3. CASE Done(t) /\ UNCHANGED slot
  BY <1>3, DoneForgets, SameJob, EarnedStays DEF Calculate, ResearchInv, Ux1TypeOK
<1>4. CASE Done(t) /\ ClearPreview(held)
  BY <1>1, <1>4, ClearKeeps DEF Calculate
<1>5. ASSUME NEW p \in ProjectionsOf[held.draft], p # Rejected,
             tabs' = [tabs EXCEPT ![t].at = "store",
                         ![t].preview = [draft |-> p.draft, status |-> p.status,
                                         evidence |-> p.evidence, epoch |-> held.config.epoch]],
             UNCHANGED slot
      PROVE  ResearchInv'
  <2>1. p \in Projection /\ p.draft = held.draft
    BY <1>1, <1>5, ProjectionsAreOfTheDraft DEF HeldByPage
  <2>2. PICK preview \in Preview :
          preview = [draft |-> p.draft, status |-> p.status, evidence |-> p.evidence,
                     epoch |-> held.config.epoch]
    BY <1>1, <2>1 DEF Preview, Projection, HeldByPage, Epochs
  <2>3. PICK next \in HeldByPage :
          next = [held EXCEPT !.at = "store", !.preview = preview]
    BY <1>1 DEF HeldByPage
  <2>4. tabs' = [tabs EXCEPT ![t] = next]
    BY <1>1, <1>5, <2>2, <2>3 DEF ResearchInv, Ux1TypeOK
  <2>5. PageIsSound(next) /\ next.at # "post"
    BY <1>2, <2>1, <2>2, <2>3, Ux1Nulls DEF PageIsSound, HeldByPage, Preview
  <2> QED BY <1>5, <2>4, <2>5, PageMoves DEF Calculate
<1> QED BY <1>1, <1>3, <1>4, <1>5 DEF Calculate

\* ux1_store_preview.
LEMMA StorePreviewKeeps ==
  ASSUME ResearchInv, NEW t \in Tab, StorePreview(t)
  PROVE  ResearchInv'
<1>1. PICK s \in Slot, held \in HeldByPage : s = slot /\ held = tabs[t]
  BY DEF ResearchInv, Ux1TypeOK, StorePreview
<1>2. PageIsSound(held) /\ held.at = "store"
  BY <1>1, Ux1Nulls DEF StorePreview, ResearchInv, PagesAreSound
<1>3. CASE slot' = slot
  BY <1>3, DoneForgets, SameJob, EarnedStays DEF StorePreview, ResearchInv, Ux1TypeOK
<1>4. CASE s.revision = held.revision /\ s.draft = held.draft /\ slot' = [s EXCEPT !.preview = held.preview]
  <2>1. held.preview \in Preview /\ held.preview.draft = s.draft
    BY <1>2, <1>4 DEF PageIsSound, HeldByPage
  <2>2. PICK s2 \in Slot :
          /\ s2 = slot' /\ s2.preview = held.preview
          /\ s2.revision = s.revision /\ s2.draft = s.draft /\ s2.intent = s.intent /\ s2.job = s.job
    BY <1>4, <2>1 DEF Slot
  <2>3. OfThisDraft'
    BY <1>1, <2>1, <2>2 DEF ResearchInv, ResearchIsEarned, OfThisDraft
  <2>4. OpenJobHidesTheRest'
    <3> SUFFICES ASSUME Blocks(s.job), s.revision = s.job.revision /\ s.draft = s.job.draft
                 PROVE  FALSE
      BY <2>2 DEF OpenJobHidesTheRest, SameSlot
    <3> QED BY <1>1, <1>2, <1>4
            DEF ResearchInv, JobsAreOfTheWorkflow, PageIsSound, Blocks
  <2>5. PreviewIsEarned'
    BY <1>2, <2>2 DEF StorePreview, PreviewIsEarned, PageIsSound
  <2> QED BY <1>1, <2>2, <2>3, <2>4, <2>5, DoneForgets, SameJob
          DEF StorePreview, ResearchInv, Ux1TypeOK, ResearchIsEarned
<1> QED BY <1>1, <1>3, <1>4 DEF StorePreview, HeldSlot

\* A deployment that is not connected.
LEMMA NotConnectedKeeps ==
  ASSUME ResearchInv, NEW t \in Tab, NotConnected(t)
  PROVE  ResearchInv'
<1>1. PICK held \in HeldByPage : held = tabs[t]
  BY DEF ResearchInv, Ux1TypeOK, NotConnected
<1> QED BY <1>1, ClearKeeps DEF NotConnected

\* ux1_begin_job: a new job hides what was there, and only its creator may post it.
LEMMA BeginJobKeeps ==
  ASSUME ResearchInv, NEW t \in Tab, BeginJob(t)
  PROVE  ResearchInv'
<1>1. PICK s \in Slot, held \in HeldByPage : s = slot /\ held = tabs[t]
  BY DEF ResearchInv, Ux1TypeOK, BeginJob
<1>2. PageIsSound(held) /\ held.at = "begin"
  BY <1>1, Ux1Nulls DEF BeginJob, ResearchInv, PagesAreSound
<1>3. CASE Done(t) /\ UNCHANGED slot
  BY <1>3, DoneForgets, SameJob, EarnedStays DEF BeginJob, ResearchInv, Ux1TypeOK
<1>4. CASE MayBegin(held) /\ ~(Done(t) /\ UNCHANGED slot)
  <2>1. s.draft = held.draft /\ s.revision = held.revision /\ ~Blocks(s.job)
    BY <1>1, <1>4 DEF MayBegin, HeldSlot
  <2>2. PICK j \in Job :
          /\ j = NewJob(held) /\ j.draft = held.draft /\ j.config = held.config /\ j.status = "queued"
          /\ j.id = IF s.job = Nothing THEN 1 ELSE s.job.id + 1
    <3>1. s.job # Nothing => s.job.id \in Jobs /\ s.job.id < MaxJob
      BY <1>1, <1>4 DEF BeginJob, Slot, Job
    <3>2. (IF s.job = Nothing THEN 1 ELSE s.job.id + 1) \in Jobs
      BY <3>1, Ux1Inputs DEF Jobs
    <3>3. s.revision \in Nat /\ held.draft \in Draft /\ held.config \in Config
      BY DEF Slot, HeldByPage
    <3>4. NewJob(held).id = IF s.job = Nothing THEN 1 ELSE s.job.id + 1
      BY <1>1 DEF NewJob
    <3>5. NewJob(held) \in Job
      BY <1>1, <2>1, <3>2, <3>3 DEF NewJob, Job
    <3>6. /\ NewJob(held).draft = held.draft /\ NewJob(held).config = held.config
          /\ NewJob(held).status = "queued"
      BY <1>1, <2>1 DEF NewJob
    <3> QED BY <3>4, <3>5, <3>6
  <2>3. PICK s2 \in Slot :
          /\ s2 = slot' /\ s2.job = j /\ s2.preview = Nothing /\ s2.intent = Nothing
          /\ s2.revision = s.revision /\ s2.draft = s.draft
    BY <1>1, <1>4, <2>2, ZenonT(60) DEF BeginJob, Slot
  <2>a. j.id \in Jobs
    BY DEF Job
  <2>b. PICK next \in HeldByPage : next = [held EXCEPT !.at = "post", !.job = j.id]
    BY <2>a DEF HeldByPage
  <2>4. next.at = "post" /\ next.job = j.id /\ next.config = held.config
    BY <2>b DEF HeldByPage
  <2>5. tabs' = [tabs EXCEPT ![t] = next]
    BY <1>1, <1>4, <2>2, <2>b DEF BeginJob, ResearchInv, Ux1TypeOK
  <2>6. UNCHANGED <<config, answers, github>>
    BY DEF BeginJob
  <2>7. Ux1TypeOK'
    BY <1>1, <2>3, <2>5, <2>6 DEF ResearchInv, Ux1TypeOK
  <2>8. ResearchIsEarned'
    BY <2>3, Ux1Nulls DEF ResearchIsEarned, OfThisDraft, OpenJobHidesTheRest, PreviewIsEarned
  <2>9. JobsAreOfTheWorkflow'
    BY <1>2, <2>2, <2>3, <2>6 DEF JobsAreOfTheWorkflow, PageIsSound
  <2>10. j # Nothing /\ j.id \in Jobs /\ (s.job # Nothing => s.job.id \in Jobs /\ s.job.id < j.id)
    BY <2>2, Ux1Nulls DEF Job, Slot, Jobs
  <2>11. github[j.id] = 0
    BY <1>1, <2>10 DEF ResearchInv, PostsAreOnce
  <2>12. PagesAreSound'
    <3>1. PageIsSound(next)'
      BY <1>2, <2>3, <2>4, <2>6, <2>10, <2>11 DEF PageIsSound, Jobs
    <3>2. ASSUME NEW u \in Tab, u # t, tabs[u] # Nothing
          PROVE  /\ PageIsSound(tabs[u])'
                 /\ tabs'[u] = tabs[u]
                 /\ tabs[u].at = "post" => tabs[u].job < j.id
      <4>1. PICK other \in HeldByPage : other = tabs[u] /\ other = tabs'[u]
        BY <2>5, <3>2 DEF ResearchInv, Ux1TypeOK
      <4>2. PageIsSound(other)
        BY <3>2, <4>1 DEF ResearchInv, PagesAreSound
      <4>3. PageIsSound(other)'
        BY <1>1, <2>3, <2>6, <2>10, <4>2 DEF PageIsSound, Jobs
      <4>4. other.at = "post" => other.job < j.id
        BY <1>1, <2>10, <4>2 DEF PageIsSound, Jobs
      <4> QED BY <4>1, <4>3, <4>4
    <3>3. tabs'[t] = next /\ \A u \in Tab : u # t => tabs'[u] = tabs[u]
      BY <2>5 DEF ResearchInv, Ux1TypeOK
    <3>4. j.id \in Nat
      BY <2>10 DEF Jobs
    <3>5. \A u \in Tab : tabs'[u] # Nothing => PageIsSound(tabs[u])'
      BY <3>1, <3>2, <3>3
    <3>6. \A u \in Tab : u # t /\ tabs'[u] # Nothing /\ tabs'[u].at = "post" => tabs'[u].job # j.id
      <4> SUFFICES ASSUME NEW u \in Tab, u # t, tabs[u] # Nothing, tabs[u].at = "post", tabs[u].job = j.id
                   PROVE  FALSE
        BY <3>3
      <4> QED BY <3>2, <3>4
    <3> QED BY <2>4, <3>3, <3>5, <3>6 DEF PagesAreSound, ResearchInv
  <2>13. PostsAreOnce'
    BY <1>1, <2>3, <2>6, <2>10 DEF ResearchInv, PostsAreOnce, Jobs
  <2>14. AnswersAreSound'
    <3>1. ASSUME NEW a \in Attempt, answers[a] # Nothing
          PROVE  answers[a].job <= j.id /\ answers[a].job # j.id
      <4>1. PICK r \in Answer : r = answers[a]
        BY <3>1 DEF ResearchInv, Ux1TypeOK
      <4>2. s.job # Nothing /\ r.job <= s.job.id /\ r.job \in Nat
        BY <1>1, <3>1, <4>1 DEF ResearchInv, AnswersAreSound, Answer, Jobs
      <4> QED BY <2>10, <4>1, <4>2 DEF Jobs
    <3> QED BY <2>3, <2>6, <2>10, <3>1 DEF AnswersAreSound
  <2> QED BY <2>7, <2>8, <2>9, <2>12, <2>13, <2>14 DEF ResearchInv
<1> QED BY <1>1, <1>3, <1>4 DEF BeginJob

\* The dispatch of a job: its creator posts it, and never again.
LEMMA PostJobKeeps ==
  ASSUME ResearchInv, NEW t \in Tab, PostJob(t)
  PROVE  ResearchInv'
<1>1. PICK s \in Slot, held \in HeldByPage : s = slot /\ held = tabs[t]
  BY DEF ResearchInv, Ux1TypeOK, PostJob
<1>2. PageIsSound(held) /\ held.at = "post" /\ held # Nothing
  BY <1>1, Ux1Nulls DEF PostJob, ResearchInv, PagesAreSound
<1>3. PICK o \in DispatchOutcomes :
        /\ github' = [github EXCEPT ![held.job] = @ + IF o.sent /\ o.answer # "rejected" THEN 1 ELSE 0]
        /\ tabs' = [tabs EXCEPT ![t].at = o.answer]
  BY <1>1 DEF PostJob
<1>4. o.answer \in {"dispatched", "rejected", "unknown"}
  BY DEF DispatchOutcomes, DispatchOutcome
<1>5. PICK next \in HeldByPage : next = [held EXCEPT !.at = o.answer]
  BY <1>4 DEF HeldByPage
<1>6. next.at = o.answer /\ next.job = held.job /\ next.config = held.config
  BY <1>5 DEF HeldByPage
<1>7. tabs' = [tabs EXCEPT ![t] = next]
  BY <1>1, <1>3, <1>5 DEF ResearchInv, Ux1TypeOK
<1>8. s.job # Nothing /\ held.job \in 1..s.job.id /\ s.job.id \in Jobs /\ held.job \in Jobs
  <2>1. s.job # Nothing /\ held.job \in 1..s.job.id
    BY <1>1, <1>2 DEF PageIsSound
  <2>2. s.job.id \in Jobs
    BY <2>1 DEF Slot, Job
  <2> QED BY <2>1, <2>2, Ux1Inputs DEF Jobs
<1>9. /\ github[held.job] = 0 /\ github'[held.job] \in {0, 1}
      /\ \A j \in Jobs : j # held.job => github'[j] = github[j]
      /\ github' \in [Jobs -> Nat]
  BY <1>2, <1>3, <1>8 DEF PageIsSound, ResearchInv, Ux1TypeOK
<1>10. UNCHANGED <<slot, config, answers>>
  BY DEF PostJob
<1>11. Ux1TypeOK'
  BY <1>7, <1>9, <1>10 DEF ResearchInv, Ux1TypeOK
<1>12. (ResearchIsEarned /\ JobsAreOfTheWorkflow /\ AnswersAreSound)'
  BY <1>10, EarnedStays DEF ResearchInv, JobsAreOfTheWorkflow, AnswersAreSound
<1>13. PostsAreOnce'
  BY <1>1, <1>8, <1>9, <1>10 DEF ResearchInv, PostsAreOnce, Jobs
<1>14. PagesAreSound'
  <2>1. PageIsSound(next)'
    BY <1>2, <1>4, <1>6, <1>10 DEF PageIsSound
  <2>2. tabs'[t] = next /\ \A u \in Tab : u # t => tabs'[u] = tabs[u]
    BY <1>7 DEF ResearchInv, Ux1TypeOK
  <2>3. ASSUME NEW u \in Tab, u # t, tabs[u] # Nothing
        PROVE  PageIsSound(tabs[u])' /\ tabs'[u] = tabs[u]
    <3>1. PICK other \in HeldByPage : other = tabs[u] /\ other = tabs'[u]
      BY <2>2, <2>3 DEF ResearchInv, Ux1TypeOK
    <3>2. PageIsSound(other)
      BY <2>3, <3>1 DEF ResearchInv, PagesAreSound
    <3>3. other.at = "post" => other.job \in Jobs /\ other.job # held.job
      <4> SUFFICES ASSUME other.at = "post"
                   PROVE  other.job \in Jobs /\ other.job # held.job
        OBVIOUS
      <4>1. other.job \in 1..s.job.id
        BY <1>1, <3>2 DEF PageIsSound
      <4>2. other.job \in Jobs
        BY <1>8, <4>1, Ux1Inputs DEF Jobs
      <4>3. other.job # held.job
        BY <1>1, <1>2, <2>3, <3>1 DEF ResearchInv, PagesAreSound
      <4> QED BY <4>2, <4>3
    <3>4. PageIsSound(other)'
      BY <1>9, <1>10, <3>2, <3>3 DEF PageIsSound
    <3> QED BY <3>1, <3>4
  <2>4. next.at # "post"
    BY <1>4, <1>6
  <2> QED BY <2>1, <2>2, <2>3, <2>4 DEF PagesAreSound, ResearchInv
<1> QED BY <1>11, <1>12, <1>13, <1>14 DEF ResearchInv

\* ux1_record_dispatch.
LEMMA RecordDispatchKeeps ==
  ASSUME ResearchInv, NEW t \in Tab, RecordDispatch(t)
  PROVE  ResearchInv'
<1>1. PICK s \in Slot, held \in HeldByPage : s = slot /\ held = tabs[t]
  BY DEF ResearchInv, Ux1TypeOK, RecordDispatch
<1>2. PageIsSound(held) /\ held.at \in {"dispatched", "rejected", "unknown"}
  BY <1>1, Ux1Nulls DEF RecordDispatch, ResearchInv, PagesAreSound
<1>3. CASE slot' = slot
  BY <1>3, DoneForgets, SameJob, EarnedStays DEF RecordDispatch, ResearchInv, Ux1TypeOK
<1>4. CASE slot' # slot
  <2>1. PICK j \in Job : j = s.job /\ j # Nothing
    BY <1>1, <1>2 DEF PageIsSound, Slot
  <2>2. PICK j2 \in Job :
          /\ j2 = Recorded(j, held.at)
          /\ j2.id = j.id /\ j2.draft = j.draft /\ j2.config = j.config /\ j2.revision = j.revision
          /\ j2.status = j.status \/ j.status = "queued"
    <3>1. PICK status \in {"queued", "running", "unknown", "failed", "succeeded"} :
            /\ status = CASE j.status = "queued" /\ held.at = "rejected" -> "failed"
                          [] j.status = "queued" /\ held.at = "unknown" -> "unknown"
                          [] OTHER -> j.status
            /\ status = j.status \/ j.status = "queued"
      BY DEF Job
    <3>2. Recorded(j, held.at) = [j EXCEPT !.dispatch = held.at, !.status = status]
      BY <3>1 DEF Recorded
    <3>3. PICK j2 \in Job : j2 = [j EXCEPT !.dispatch = held.at, !.status = status]
      BY <1>2 DEF Job
    <3>4. /\ j2.id = j.id /\ j2.draft = j.draft /\ j2.config = j.config /\ j2.revision = j.revision
          /\ j2.status = status
      BY <3>3 DEF Job
    <3> QED BY <3>1, <3>2, <3>3, <3>4
  <2>3. PICK s2 \in Slot :
          /\ s2 = slot' /\ s2.job = j2 /\ s2.preview = s.preview
          /\ s2.revision = s.revision /\ s2.draft = s.draft /\ s2.intent = s.intent
    BY <1>1, <1>4, <2>1, <2>2 DEF RecordDispatch, Slot
  <2>4. OfThisDraft'
    BY <1>1, <2>3 DEF ResearchInv, ResearchIsEarned, OfThisDraft
  <2>5. Blocks(j2) => Blocks(j)
    BY <2>1, <2>2 DEF Blocks
  <2>6. OpenJobHidesTheRest'
    BY <1>1, <2>1, <2>2, <2>3, <2>5 DEF ResearchInv, ResearchIsEarned, OpenJobHidesTheRest, SameSlot, Blocks
  <2>7. PreviewIsEarned'
    BY <1>1, <2>1, <2>2, <2>3 DEF ResearchInv, ResearchIsEarned, PreviewIsEarned, SameSlot, RecordDispatch
  <2>8. ResearchIsEarned' /\ j2 # Nothing
    BY <2>4, <2>6, <2>7, Ux1Nulls DEF ResearchIsEarned
  <2> QED BY <1>1, <2>1, <2>2, <2>3, <2>8, DoneForgets, SameJob DEF RecordDispatch, ResearchInv, Ux1TypeOK
<1> QED BY <1>3, <1>4

\* POST /api/ux1/intent and ux1_save_intent.
LEMMA IntentKeeps ==
  ASSUME ResearchInv, NEW t \in Tab, ReadForIntent(t) \/ SaveIntent(t)
  PROVE  ResearchInv'
<1>1. PICK s \in Slot : s = slot
  BY DEF ResearchInv, Ux1TypeOK
<1>2. CASE ReadForIntent(t)
  <2> DEFINE next == [at |-> "intent", revision |-> s.revision, draft |-> s.draft, config |-> config,
                      preview |-> Nothing, job |-> Nothing]
  <2>1. s.draft \in Draft /\ s.revision \in Nat /\ config \in Config
    BY <1>1, <1>2 DEF ReadForIntent, ResearchInv, Ux1TypeOK, Slot
  <2>2. next \in HeldByPage
    BY <2>1 DEF HeldByPage
  <2>3. PageIsSound(next) /\ next.at # "post"
    BY DEF PageIsSound
  <2> QED BY <1>1, <1>2, <2>2, <2>3, PageMoves DEF ReadForIntent
<1>3. CASE SaveIntent(t) /\ slot' = slot
  BY <1>3, DoneForgets, SameJob, EarnedStays DEF SaveIntent, ResearchInv, Ux1TypeOK
<1>4. CASE SaveIntent(t) /\ slot' # slot
  <2>1. PICK held \in HeldByPage : held = tabs[t]
    BY <1>4 DEF ResearchInv, Ux1TypeOK, SaveIntent
  <2>2. s.draft \in Draft /\ s.preview # Nothing
    BY <1>1, <1>4, <2>1 DEF SaveIntent, HeldSlot, HeldByPage
  <2>3. PICK receipt \in IntentReceipt : receipt = [revision |-> s.revision, draft |-> s.draft]
    BY <2>2 DEF IntentReceipt, Slot
  <2>4. PICK s2 \in Slot :
          /\ s2 = slot' /\ s2.intent = receipt /\ s2.preview = s.preview
          /\ s2.revision = s.revision /\ s2.draft = s.draft /\ s2.job = s.job
    BY <1>1, <1>4, <2>1, <2>3 DEF SaveIntent, Slot
  <2>5. ResearchIsEarned'
    BY <1>1, <1>4, <2>2, <2>3, <2>4
       DEF ResearchInv, ResearchIsEarned, OfThisDraft, OpenJobHidesTheRest, PreviewIsEarned, SameSlot, Blocks,
           SaveIntent
  <2> QED BY <1>1, <1>4, <2>4, <2>5, DoneForgets, SameJob DEF SaveIntent, ResearchInv, Ux1TypeOK
<1> QED BY <1>2, <1>3, <1>4

\* A request dies, or a deployment changes what it binds.
LEMMA AroundItKeeps ==
  ASSUME ResearchInv, \/ \E t \in Tab : RequestDies(t)
                      \/ \E c \in Config : Deploy(c)
                      \/ UNCHANGED ux1Vars
  PROVE  ResearchInv'
<1>1. ASSUME NEW t \in Tab, RequestDies(t) PROVE ResearchInv'
  BY <1>1, DoneForgets, SameJob, EarnedStays DEF RequestDies, ResearchInv, Ux1TypeOK
<1>2. ASSUME NEW c \in Config, Deploy(c) PROVE ResearchInv'
  BY <1>2, SameJob, EarnedStays DEF Deploy, ResearchInv, Ux1TypeOK
<1>3. CASE UNCHANGED ux1Vars
  <2>1. UNCHANGED <<slot, config, tabs, answers, github>>
    BY <1>3 DEF ux1Vars
  <2> QED BY <2>1, SameJob, EarnedStays DEF ResearchInv, Ux1TypeOK
<1> QED BY <1>1, <1>2, <1>3

\* POST /api/ux1/jobs/claim.
LEMMA ClaimJobKeeps ==
  ASSUME ResearchInv, NEW a \in Attempt, ClaimJob(a)
  PROVE  ResearchInv'
<1>1. PICK s \in Slot, j \in Job : s = slot /\ j = s.job /\ j # Nothing
  BY DEF ResearchInv, Ux1TypeOK, ClaimJob, Slot
<1>2. PICK j2 \in Job :
        /\ j2 = [j EXCEPT !.status = "running", !.run = a]
        /\ j2.id = j.id /\ j2.draft = j.draft /\ j2.config = j.config /\ j2.revision = j.revision
  <2>1. PICK j2 \in Job : j2 = [j EXCEPT !.status = "running", !.run = a]
    BY DEF Job
  <2> QED BY <2>1 DEF Job
<1>3. slot' = [s EXCEPT !.job = j2]
  <2>1. slot' = [s EXCEPT !.job = [[j EXCEPT !.status = "running"] EXCEPT !.run = a]]
    BY <1>1 DEF ClaimJob, Slot
  <2> QED BY <1>2, <2>1
<1>4. PICK s2 \in Slot :
        /\ s2 = slot' /\ s2.job = j2 /\ s2.preview = s.preview
        /\ s2.revision = s.revision /\ s2.draft = s.draft /\ s2.intent = s.intent
  BY <1>3 DEF Slot
<1>5. Blocks(j) /\ j2 # Nothing /\ j.status # "succeeded"
  BY <1>1, Ux1Nulls DEF ClaimJob, Blocks
<1>6. OfThisDraft'
  BY <1>1, <1>4 DEF ResearchInv, ResearchIsEarned, OfThisDraft
<1>7. OpenJobHidesTheRest'
  BY <1>1, <1>2, <1>4, <1>5 DEF ResearchInv, ResearchIsEarned, OpenJobHidesTheRest, SameSlot
<1>8. PreviewIsEarned'
  BY <1>1, <1>4, <1>5 DEF ResearchInv, ResearchIsEarned, PreviewIsEarned, ClaimJob
<1>9. ResearchIsEarned'
  BY <1>6, <1>7, <1>8 DEF ResearchIsEarned
<1> QED BY <1>1, <1>2, <1>4, <1>5, <1>9, SameJob DEF ClaimJob, ResearchInv, Ux1TypeOK

\* The handler of a result looks up the job and projects what was computed for it.
LEMMA ReadForResultKeeps ==
  ASSUME ResearchInv, NEW a \in Attempt, ReadForResult(a)
  PROVE  ResearchInv'
<1>1. PICK s \in Slot, j \in Job : s = slot /\ j = s.job /\ j # Nothing
  BY DEF ResearchInv, Ux1TypeOK, ReadForResult, Slot
<1>2. PICK p : /\ p = Rejected \/ (/\ p \in ProjectionsOf[j.draft] /\ p # Rejected
                                   /\ p.evidence = j.config.evidence)
               /\ answers' = [answers EXCEPT ![a] =
                    [job |-> j.id, error |-> p = Rejected,
                     preview |-> IF p = Rejected \/ JobConfigStale(j, config) THEN Nothing
                                 ELSE [draft |-> p.draft, status |-> p.status, evidence |-> p.evidence,
                                       epoch |-> j.config.epoch],
                     result |-> p]]
  BY <1>1 DEF ReadForResult
<1>3. j.draft \in Draft /\ j.config \in Config /\ j.id \in Jobs
  BY DEF Job
<1>4. p # Rejected => p \in Projection /\ p.draft = j.draft /\ p.evidence = j.config.evidence
  BY <1>2, <1>3, ProjectionsAreOfTheDraft
<1> DEFINE computed == [draft |-> p.draft, status |-> p.status, evidence |-> p.evidence,
                        epoch |-> j.config.epoch]
<1>5. p # Rejected => /\ computed \in Preview /\ computed.draft = j.draft
                      /\ computed.evidence = j.config.evidence /\ computed.epoch = j.config.epoch
  BY <1>3, <1>4 DEF Preview, Projection, Epochs
<1>6. PICK preview \in Preview \cup {Nothing} :
        /\ preview = IF p = Rejected \/ JobConfigStale(j, config) THEN Nothing ELSE computed
        /\ preview # Nothing => /\ preview.draft = j.draft
                                /\ preview.evidence = j.config.evidence /\ preview.epoch = j.config.epoch
  BY <1>5
<1> HIDE DEF computed
<1>7. PICK r \in Answer : /\ r = [job |-> j.id, error |-> p = Rejected, preview |-> preview, result |-> p]
                          /\ r.job = j.id /\ r.preview = preview
  <2>1. PICK error \in BOOLEAN : error = (p = Rejected)
    OBVIOUS
  <2>2. p \in Projection \cup {Rejected}
    BY <1>4
  <2>3. [job |-> j.id, error |-> error, preview |-> preview, result |-> p] \in Answer
    BY <1>3, <2>2 DEF Answer
  <2> QED BY <2>1, <2>3
<1>8. answers' = [answers EXCEPT ![a] = r] /\ UNCHANGED <<slot, config, tabs, github>>
  BY <1>2, <1>6, <1>7 DEF ReadForResult, computed
<1>9. Ux1TypeOK'
  BY <1>8 DEF ResearchInv, Ux1TypeOK
<1>10. (ResearchIsEarned /\ JobsAreOfTheWorkflow /\ PostsAreOnce)'
  BY <1>8, EarnedStays DEF ResearchInv, JobsAreOfTheWorkflow, PostsAreOnce
<1>11. PagesAreSound'
  <2>1. \A held : PageIsSound(held)' <=> PageIsSound(held)
    BY <1>8 DEF PageIsSound
  <2> QED BY <1>8, <2>1 DEF ResearchInv, PagesAreSound
<1>12. AnswersAreSound'
  <2>1. answers'[a] = r /\ \A b \in Attempt : b # a => answers'[b] = answers[b]
    BY <1>8 DEF ResearchInv, Ux1TypeOK
  <2>2. j.id <= j.id
    BY <1>3 DEF Jobs
  <2> QED BY <1>1, <1>6, <1>7, <1>8, <2>1, <2>2 DEF ResearchInv, AnswersAreSound
<1> QED BY <1>9, <1>10, <1>11, <1>12 DEF ResearchInv

\* ux1_finish_job: the first result ends the job and earns its preview.
LEMMA FinishJobKeeps ==
  ASSUME ResearchInv, NEW a \in Attempt, FinishJob(a)
  PROVE  ResearchInv'
<1>1. PICK s \in Slot, r \in Answer : s = slot /\ r = answers[a] /\ r # Nothing
  BY DEF ResearchInv, Ux1TypeOK, FinishJob
<1>2. /\ answers' \in [Attempt -> Answer \cup {Nothing}]
      /\ \A b \in Attempt : answers'[b] = answers[b] \/ answers'[b] = Nothing
      /\ config' = config /\ tabs' = tabs /\ github' = github
  BY DEF FinishJob, ResearchInv, Ux1TypeOK
<1>3. CASE slot' = slot
  BY <1>2, <1>3, SameJob, EarnedStays DEF ResearchInv, Ux1TypeOK
<1>4. CASE slot' # slot
  <2>1. PICK j \in Job : j = s.job /\ j # Nothing
    BY <1>1 DEF ResearchInv, AnswersAreSound, Slot
  <2>2. /\ j.id = r.job /\ j.status = "running"
        /\ slot' = [slot EXCEPT !.job = Finished(@, r),
                      !.preview = CASE SameSlot(slot.job) /\ r.error -> Nothing
                                    [] SameSlot(slot.job) /\ ~r.error /\ r.preview # Nothing -> r.preview
                                    [] OTHER -> @,
                      !.intent = IF SameSlot(slot.job) /\ r.error THEN Nothing ELSE @]
    BY <1>1, <1>4, <2>1 DEF FinishJob
  <2>3. PICK j2 \in Job :
          /\ j2 = Finished(j, r)
          /\ j2.id = j.id /\ j2.draft = j.draft /\ j2.config = j.config /\ j2.revision = j.revision
          /\ j2.status = IF r.error THEN "failed" ELSE "succeeded"
    <3>1. PICK status \in {"failed", "succeeded"} : status = IF r.error THEN "failed" ELSE "succeeded"
      OBVIOUS
    <3>2. PICK result \in Projection \cup {Rejected} : result = r.result
      BY DEF Answer
    <3>3. PICK j2 \in Job : j2 = [j EXCEPT !.status = status, !.result = result]
      BY DEF Job
    <3>4. /\ j2.id = j.id /\ j2.draft = j.draft /\ j2.config = j.config /\ j2.revision = j.revision
          /\ j2.status = status
      BY <3>3 DEF Job
    <3> QED BY <3>1, <3>2, <3>3, <3>4 DEF Finished
  <2>4. PICK preview \in Preview \cup {Nothing} :
          /\ preview = CASE SameSlot(j) /\ r.error -> Nothing
                         [] SameSlot(j) /\ ~r.error /\ r.preview # Nothing -> r.preview
                         [] OTHER -> s.preview
          /\ \/ preview = Nothing
             \/ SameSlot(j) /\ ~r.error /\ preview = r.preview
             \/ preview = s.preview
    BY DEF Slot, Answer
  <2>5. PICK intent \in IntentReceipt \cup {Nothing} :
          /\ intent = IF SameSlot(j) /\ r.error THEN Nothing ELSE s.intent
          /\ intent = Nothing \/ intent = s.intent
    BY DEF Slot
  <2>6. slot' = [s EXCEPT !.job = j2, !.preview = preview, !.intent = intent]
    BY <1>1, <2>1, <2>2, <2>3, <2>4, <2>5
  <2>7. PICK s2 \in Slot : s2 = [s EXCEPT !.job = j2, !.preview = preview, !.intent = intent]
    BY DEF Slot
  <2>8. /\ s2 = slot' /\ s2.job = j2 /\ s2.preview = preview /\ s2.intent = intent
        /\ s2.revision = s.revision /\ s2.draft = s.draft
    BY <2>6, <2>7 DEF Slot
  <2>9. j2 # Nothing /\ ~Blocks(j2)
    BY <2>3, Ux1Nulls DEF Blocks
  <2>10. r.preview # Nothing => /\ r.preview.draft = j.draft
                                /\ r.preview.evidence = j.config.evidence
                                /\ r.preview.epoch = j.config.epoch
    BY <1>1, <2>1, <2>2 DEF ResearchInv, AnswersAreSound
  <2>11. OfThisDraft'
    BY <1>1, <2>4, <2>5, <2>8, <2>10 DEF ResearchInv, ResearchIsEarned, OfThisDraft, SameSlot
  <2>12. OpenJobHidesTheRest'
    BY <2>8, <2>9 DEF OpenJobHidesTheRest
  <2>13. PreviewIsEarned'
    <3> SUFFICES ASSUME config.mode = "github_actions", preview # Nothing, preview.status \in Computed
                 PROVE  /\ j2.status = "succeeded" /\ s.revision = j2.revision /\ s.draft = j2.draft
                        /\ preview.evidence = j2.config.evidence /\ preview.epoch = j2.config.epoch
      BY <1>2, <2>8 DEF PreviewIsEarned, SameSlot
    <3>1. preview # s.preview
      BY <1>1, <2>1, <2>2 DEF ResearchInv, ResearchIsEarned, PreviewIsEarned
    <3> QED BY <1>1, <2>3, <2>4, <2>10, <3>1 DEF SameSlot
  <2> QED BY <1>1, <1>2, <2>1, <2>3, <2>8, <2>9, <2>11, <2>12, <2>13, SameJob
          DEF ResearchInv, Ux1TypeOK, ResearchIsEarned
<1> QED BY <1>3, <1>4

----------------------------------------------------------------------------
\* The slot's invariant holds, for any pages, drafts, deployments, calculators and runs.
THEOREM ResearchInvariant == Ux1Spec => []ResearchInv
<1>1. Ux1Init => ResearchInv
  <2> SUFFICES ASSUME Ux1Init PROVE ResearchInv
    OBVIOUS
  <2>1. Ux1TypeOK
    BY DEF Ux1Init, Ux1TypeOK, Slot
  <2>2. ResearchIsEarned
    BY DEF Ux1Init, ResearchIsEarned, OfThisDraft, OpenJobHidesTheRest, PreviewIsEarned
  <2>3. JobsAreOfTheWorkflow /\ PagesAreSound /\ PostsAreOnce /\ AnswersAreSound
    BY DEF Ux1Init, JobsAreOfTheWorkflow, PagesAreSound, PostsAreOnce, AnswersAreSound
  <2> QED BY <2>1, <2>2, <2>3 DEF ResearchInv
<1>2. ResearchInv /\ [Ux1Next]_ux1Vars => ResearchInv'
  <2> SUFFICES ASSUME ResearchInv, [Ux1Next]_ux1Vars PROVE ResearchInv'
    OBVIOUS
  <2>1. ASSUME NEW d \in Draft, SaveDraft(d) PROVE ResearchInv'
    BY <2>1, SaveDraftKeeps
  <2>2. ASSUME NEW t \in Tab, ReadForPreview(t) \/ Calculate(t) \/ StorePreview(t) \/ NotConnected(t)
        PROVE  ResearchInv'
    BY <2>2, ReadForPreviewKeeps, CalculateKeeps, StorePreviewKeeps, NotConnectedKeeps
  <2>3. ASSUME NEW t \in Tab, BeginJob(t) \/ PostJob(t) \/ RecordDispatch(t)
        PROVE  ResearchInv'
    BY <2>3, BeginJobKeeps, PostJobKeeps, RecordDispatchKeeps
  <2>4. ASSUME NEW t \in Tab, ReadForIntent(t) \/ SaveIntent(t) \/ RequestDies(t)
        PROVE  ResearchInv'
    BY <2>4, IntentKeeps, AroundItKeeps
  <2>5. ASSUME NEW a \in Attempt, ClaimJob(a) \/ ReadForResult(a) \/ FinishJob(a)
        PROVE  ResearchInv'
    BY <2>5, ClaimJobKeeps, ReadForResultKeeps, FinishJobKeeps
  <2>6. CASE (\E c \in Config : Deploy(c)) \/ UNCHANGED ux1Vars
    BY <2>6, AroundItKeeps
  <2> QED BY <2>1, <2>2, <2>3, <2>4, <2>5, <2>6 DEF Ux1Next
<1> QED BY <1>1, <1>2, PTL DEF Ux1Spec

\* The slot never shows more than its research has produced.
THEOREM ResearchEarned == Ux1Spec => []ResearchIsEarned
<1>1. ResearchInv => ResearchIsEarned
  BY DEF ResearchInv
<1> QED BY <1>1, ResearchInvariant, PTL

\* What a step may do to the job that is there, field by field.
GoesOnAs(j, next) ==
  \/ next.id # j.id /\ ~Blocks(j)
  \/ /\ next.id = j.id
     /\ j.run # Nothing => next.run = j.run
     /\ ~Blocks(j) => next.status = j.status /\ next.result = j.result

LEMMA JobGoesOn ==
  ASSUME ResearchInv, Ux1Next, slot.job # Nothing, slot'.job # slot.job
  PROVE  GoesOnAs(slot.job, slot'.job)
<1>1. PICK s \in Slot, j \in Job : s = slot /\ j = s.job /\ j # Nothing
  BY DEF ResearchInv, Ux1TypeOK, Slot
<1>2. ASSUME UNCHANGED slot PROVE FALSE
  BY <1>2
<1>3. ASSUME NEW x, slot' = [s EXCEPT !.preview = x] PROVE FALSE
  BY <1>1, <1>3 DEF Slot
<1>4. ASSUME NEW held, ClearPreview(held) PROVE FALSE
  BY <1>1, <1>2, <1>3, <1>4 DEF ClearPreview
<1>5. ASSUME NEW d \in Draft, SaveDraft(d) PROVE FALSE
  BY <1>1, <1>5 DEF SaveDraft
<1>6. ASSUME NEW t \in Tab, ReadForPreview(t) \/ Calculate(t) \/ StorePreview(t) \/ NotConnected(t)
      PROVE  FALSE
  BY <1>1, <1>2, <1>3, <1>4, <1>6 DEF ReadForPreview, Calculate, StorePreview, NotConnected
<1>7. ASSUME NEW t \in Tab, BeginJob(t) PROVE GoesOnAs(slot.job, slot'.job)
  <2>1. MayBegin(tabs[t])
    BY <1>2, <1>7 DEF BeginJob
  <2>2. slot' = [slot EXCEPT !.job = NewJob(tabs[t]), !.preview = Nothing, !.intent = Nothing]
    BY <1>2, <1>7 DEF BeginJob
  <2>3. slot'.job = NewJob(tabs[t])
    BY <1>1, <2>2 DEF Slot
  <2>4. NewJob(tabs[t]).id = j.id + 1
    BY <1>1 DEF NewJob
  <2>5. j.id + 1 # j.id
    BY DEF Job, Jobs
  <2> QED BY <1>1, <2>1, <2>3, <2>4, <2>5 DEF MayBegin, GoesOnAs
<1>8. ASSUME NEW t \in Tab, RecordDispatch(t) PROVE GoesOnAs(slot.job, slot'.job)
  <2>1. PICK x : slot' = [s EXCEPT !.job = Recorded(@, x)]
    BY <1>1, <1>2, <1>8 DEF RecordDispatch
  <2>2. slot'.job = Recorded(j, x)
    BY <1>1, <2>1 DEF Slot
  <2>3. Recorded(j, x).id = j.id /\ Recorded(j, x).run = j.run /\ Recorded(j, x).result = j.result
    BY DEF Recorded, Job
  <2>4. j.status # "queued" => Recorded(j, x).status = j.status
    BY DEF Recorded, Job
  <2> QED BY <1>1, <2>2, <2>3, <2>4 DEF GoesOnAs, Blocks
<1>9. ASSUME NEW t \in Tab, PostJob(t) \/ ReadForIntent(t) \/ RequestDies(t) PROVE FALSE
  BY <1>2, <1>9 DEF PostJob, ReadForIntent, RequestDies
<1>10. ASSUME NEW t \in Tab, SaveIntent(t) PROVE FALSE
  BY <1>1, <1>2, <1>10 DEF SaveIntent, Slot
<1>11. ASSUME NEW a \in Attempt, ClaimJob(a) PROVE GoesOnAs(slot.job, slot'.job)
  <2>1. slot'.job = [[j EXCEPT !.status = "running"] EXCEPT !.run = a]
    BY <1>1, <1>11 DEF ClaimJob, Slot
  <2>2. slot'.job.id = j.id
    BY <2>1 DEF Job
  <2> QED BY <1>1, <1>11, <2>2 DEF ClaimJob, GoesOnAs, Blocks
<1>12. ASSUME NEW a \in Attempt, FinishJob(a) PROVE GoesOnAs(slot.job, slot'.job)
  <2>1. PICK r : r = answers[a] /\ j.status = "running" /\ slot'.job = Finished(j, r)
    BY <1>1, <1>2, <1>12 DEF FinishJob, Slot
  <2>2. Finished(j, r).id = j.id /\ Finished(j, r).run = j.run
    BY DEF Finished, Job
  <2> QED BY <1>1, <2>1, <2>2 DEF GoesOnAs, Blocks
<1>13. ASSUME NEW a \in Attempt, ReadForResult(a) PROVE FALSE
  BY <1>2, <1>13 DEF ReadForResult
<1>14. ASSUME NEW c \in Config, Deploy(c) PROVE FALSE
  BY <1>2, <1>14 DEF Deploy
<1> QED BY <1>5, <1>6, <1>7, <1>8, <1>9, <1>10, <1>11, <1>12, <1>13, <1>14 DEF Ux1Next

\* A job keeps its run, ends once, is not replaced while it is open and is posted once.
THEOREM JobsEndOnce == Ux1Spec => JobEndsOnce
<1>1. ResearchInv /\ ResearchInv' /\ [Ux1Next]_ux1Vars => [JobStep]_ux1Vars
  <2> SUFFICES ASSUME ResearchInv, ResearchInv', Ux1Next PROVE JobStep
    OBVIOUS
  <2>1. \A j \in Jobs : github'[j] <= 1
    BY DEF ResearchInv, PostsAreOnce
  <2>2. slot.job # Nothing /\ slot'.job # slot.job => GoesOnAs(slot.job, slot'.job)
    BY JobGoesOn
  <2> QED BY <2>1, <2>2 DEF JobStep, GoesOnAs
<1> QED BY <1>1, ResearchInvariant, PTL DEF Ux1Spec, JobEndsOnce

----------------------------------------------------------------------------
(* AccountDiagnosis *)

\* A diagnosis that is resolved has its receipt, which is only stored for a task that was
\* sent; a recheck was asked for after a success that nobody had cancelled before.
RowIsSound(row, counts) ==
  /\ row.status \in {"succeeded", "failed"} => row.native # Nil /\ row.native.receipt # Nil
  /\ row.native # Nil /\ row.native.receipt # Nil => row.dispatch = "sent"
  /\ row.recheck # "not_requested" \/ counts.recheck > 0 =>
       /\ row.status = "succeeded" /\ row.native # Nil /\ row.native.receipt # Nil
       /\ ~row.native.cancelRequested
  /\ counts.cancel > 0 => row.native # Nil /\ row.native.cancelSent
  /\ counts.post <= 1 /\ counts.cancel <= 1 /\ counts.recheck <= 1

\* What a handler relies on, of the task it works on, when it goes on.
HandlerIsSound(w, row, counts) ==
  /\ row # Nil
  /\ w.at # "intent" => row.native # Nil
  /\ w.at \in {"intent", "post"} => counts.post = 0
  /\ w.at \in {"post", "fetch", "evaluate", "save", "hold"} => w.held # Nil
  /\ w.at = "evaluate" =>
       w.record # Nil /\ (w.record.status = "completed" => w.record.output # Nil)
  /\ w.at = "save" =>
       /\ w.status # Nil
       /\ w.status \in {"succeeded", "failed"} => w.held.receipt # Nil
       /\ w.status = "succeeded" => ~w.held.cancelRequested
  /\ w.at = "recheck" =>
       /\ counts.recheck = 0 /\ row.status = "succeeded"
       /\ row.native.receipt # Nil /\ ~row.native.cancelRequested

\* Of two handlers only one may send the task, and only one may ask for its recheck.
Rivals(v, w) ==
  \/ v.at \in {"intent", "post"} /\ w.at \in {"intent", "post"}
  \/ v.at = "recheck" /\ w.at = "recheck"

IsOpen(row) == row # Nil /\ row.status \in {"queued", "running", "unknown"}

DiagnosisInv ==
  /\ DiagnosisTypeOK
  /\ \A t \in Task : tasks[t] # Nil => RowIsSound(tasks[t], sent[t])
  /\ \A t \in Task : tasks[t] = Nil => sent[t] = [post |-> 0, cancel |-> 0, recheck |-> 0]
  /\ \A t, u \in Task : IsOpen(tasks[t]) /\ IsOpen(tasks[u]) => t = u
  /\ \A h \in Handler : work[h] # Nil =>
       HandlerIsSound(work[h], tasks[work[h].task], sent[work[h].task])
  /\ \A g, h \in Handler :
       work[g] # Nil /\ work[h] # Nil /\ work[g].task = work[h].task /\ Rivals(work[g], work[h]) => g = h

\* Handler h works on task t, and leaves the row, the counts and what it then holds.
MovesOn(h, t, row, counts, w) ==
  /\ tasks' = [tasks EXCEPT ![t] = row] /\ sent' = [sent EXCEPT ![t] = counts]
  /\ work' = [work EXCEPT ![h] = w] /\ expired' = expired
  /\ native' \in [Task -> ServiceTask \cup {Nil}]
  /\ \A u \in Task : native'[u] # Nil /\ native'[u].status = "completed" => native'[u].output # Nil

\* A step of one handler on one task: what it leaves is sound, and so is what the other
\* handlers of that task rely on.
LEMMA HandlerMoves ==
  ASSUME DiagnosisInv, NEW h \in Handler, NEW t \in Task, NEW row \in DiagnosisTask, NEW counts \in Counts,
         NEW w \in HeldByHandler \cup {Nil},
         MovesOn(h, t, row, counts, w),
         RowIsSound(row, counts),
         IsOpen(row) => \A u \in Task : IsOpen(tasks[u]) => u = t,
         w # Nil => w.task = t /\ HandlerIsSound(w, row, counts),
         \A g \in Handler : g # h /\ work[g] # Nil /\ work[g].task = t =>
           HandlerIsSound(work[g], row, counts) /\ (w # Nil => ~Rivals(work[g], w))
  PROVE  DiagnosisInv'
<1>t. DiagnosisTypeOK
  BY DEF DiagnosisInv
<1>1. row # Nil
  BY DiagnosisNulls
<1>2. DiagnosisTypeOK'
  BY <1>t DEF DiagnosisTypeOK, MovesOn
<1>3. /\ \A u \in Task : tasks'[u] = IF u = t THEN row ELSE tasks[u]
      /\ \A u \in Task : sent'[u] = IF u = t THEN counts ELSE sent[u]
      /\ \A g \in Handler : work'[g] = IF g = h THEN w ELSE work[g]
  BY <1>t DEF DiagnosisTypeOK, MovesOn
<1>4. \A u \in Task : tasks'[u] # Nil => RowIsSound(tasks'[u], sent'[u])
  BY <1>3 DEF DiagnosisInv
<1>5. \A u \in Task : tasks'[u] = Nil => sent'[u] = [post |-> 0, cancel |-> 0, recheck |-> 0]
  BY <1>1, <1>3 DEF DiagnosisInv
<1>6. \A u, v \in Task : IsOpen(tasks'[u]) /\ IsOpen(tasks'[v]) => u = v
  BY <1>3 DEF DiagnosisInv
<1>7. \A g \in Handler : work'[g] # Nil =>
        HandlerIsSound(work'[g], tasks'[work'[g].task], sent'[work'[g].task])
  <2> SUFFICES ASSUME NEW g \in Handler, work'[g] # Nil
               PROVE  HandlerIsSound(work'[g], tasks'[work'[g].task], sent'[work'[g].task])
    OBVIOUS
  <2>1. PICK x \in HeldByHandler : x = work'[g]
    BY <1>2 DEF DiagnosisTypeOK
  <2>2. x.task \in Task
    BY DEF HeldByHandler
  <2>3. HandlerIsSound(x, tasks'[x.task], sent'[x.task])
    BY <1>3, <2>1, <2>2 DEF DiagnosisInv
  <2> QED BY <2>1, <2>3
<1>8. \A f, g \in Handler :
        work'[f] # Nil /\ work'[g] # Nil /\ work'[f].task = work'[g].task /\ Rivals(work'[f], work'[g])
        => f = g
  <2> SUFFICES ASSUME NEW f \in Handler, NEW g \in Handler, f # g, work'[f] # Nil, work'[g] # Nil,
                      work'[f].task = work'[g].task, Rivals(work'[f], work'[g])
               PROVE  FALSE
    OBVIOUS
  <2>1. Rivals(work'[g], work'[f])
    BY DEF Rivals
  <2>2. CASE f # h /\ g # h
    BY <1>3, <2>2 DEF DiagnosisInv
  <2>3. CASE f = h
    BY <1>3, <2>1, <2>3
  <2>4. CASE g = h
    BY <1>3, <2>4
  <2> QED BY <2>2, <2>3, <2>4
<1> QED BY <1>2, <1>4, <1>5, <1>6, <1>7, <1>8 DEF DiagnosisInv

\* What a task may become under the handlers that are at work on it.
RowGoesOn(row, next) ==
  /\ next # Nil
  /\ row.native # Nil => next.native # Nil
  /\ row.native # Nil /\ row.native.receipt # Nil =>
       /\ next.status = row.status /\ next.native.receipt # Nil
       /\ next.native.cancelRequested = row.native.cancelRequested

LEMMA HandlerStays ==
  ASSUME NEW w, NEW row, NEW next, NEW counts, NEW after,
         HandlerIsSound(w, row, counts), RowGoesOn(row, next),
         w.at \in {"intent", "post"} => after.post = counts.post,
         w.at = "recheck" => after.recheck = counts.recheck
  PROVE  HandlerIsSound(w, next, after)
BY DEF HandlerIsSound, RowGoesOn

\* The same, of a step that leaves the counts, or raises them for what no other handler
\* is about to do.
LEMMA TaskMoves ==
  ASSUME DiagnosisInv, NEW h \in Handler, work[h] # Nil, NEW t \in Task, t = work[h].task,
         NEW row \in DiagnosisTask, NEW counts \in Counts, NEW w \in HeldByHandler \cup {Nil},
         MovesOn(h, t, row, counts, w),
         RowIsSound(row, counts), RowGoesOn(tasks[t], row),
         IsOpen(row) => IsOpen(tasks[t]),
         w # Nil => w.task = t /\ HandlerIsSound(w, row, counts),
         counts.post = sent[t].post \/ work[h].at \in {"intent", "post"},
         counts.recheck = sent[t].recheck \/ work[h].at = "recheck",
         w # Nil /\ w.at = "post" => work[h].at = "intent",
         w # Nil => w.at # "intent",
         w # Nil /\ w.at = "recheck" => tasks[t].native = Nil \/ tasks[t].native.receipt = Nil
  PROVE  DiagnosisInv'
<1>1. \A g \in Handler : g # h /\ work[g] # Nil /\ work[g].task = t =>
        /\ HandlerIsSound(work[g], tasks[t], sent[t])
        /\ ~Rivals(work[g], work[h])
  BY DEF DiagnosisInv
<1>2. \A g \in Handler : g # h /\ work[g] # Nil /\ work[g].task = t =>
        HandlerIsSound(work[g], row, counts)
  BY <1>1, HandlerStays DEF Rivals
<1>3. ASSUME NEW g \in Handler, g # h, work[g] # Nil, work[g].task = t, w # Nil
      PROVE  ~Rivals(work[g], w)
  BY <1>1, <1>3 DEF Rivals, HandlerIsSound
<1>4. IsOpen(row) => \A u \in Task : IsOpen(tasks[u]) => u = t
  BY DEF DiagnosisInv
<1>5. \A g \in Handler : g # h /\ work[g] # Nil /\ work[g].task = t =>
        HandlerIsSound(work[g], row, counts) /\ (w # Nil => ~Rivals(work[g], w))
  BY <1>2, <1>3
<1>6. w # Nil => w.task = t /\ HandlerIsSound(w, row, counts)
  OBVIOUS
<1> QED BY <1>4, <1>5, <1>6, HandlerMoves

\* What is known of a handler at work, and of its task.
LEMMA AtWork ==
  ASSUME DiagnosisInv, NEW h \in Handler, work[h] # Nil, NEW t, t = work[h].task
  PROVE  /\ work[h] \in HeldByHandler /\ t \in Task
         /\ tasks[t] \in DiagnosisTask /\ tasks[t] # Nil /\ sent[t] \in Counts
         /\ tasks[t].native \in NativeTask \cup {Nil}
         /\ HandlerIsSound(work[h], tasks[t], sent[t]) /\ RowIsSound(tasks[t], sent[t])
<1>t. DiagnosisTypeOK
  BY DEF DiagnosisInv
<1>1. work[h] \in HeldByHandler
  BY <1>t DEF DiagnosisTypeOK
<1>2. t \in Task
  BY <1>1 DEF HeldByHandler
<1>3. HandlerIsSound(work[h], tasks[t], sent[t])
  BY DEF DiagnosisInv
<1>4. tasks[t] # Nil
  BY <1>3 DEF HandlerIsSound
<1>5. tasks[t] \in DiagnosisTask /\ sent[t] \in Counts
  BY <1>t, <1>2, <1>4 DEF DiagnosisTypeOK
<1>6. tasks[t].native \in NativeTask \cup {Nil}
  BY <1>5 DEF DiagnosisTask
<1>7. RowIsSound(tasks[t], sent[t])
  BY <1>2, <1>4 DEF DiagnosisInv
<1> QED BY <1>1, <1>2, <1>3, <1>4, <1>5, <1>6, <1>7

\* Where a handler may go without holding anything of its task.
LEMMA GoesTo ==
  ASSUME DiagnosisInv, NEW h \in Handler, work[h] # Nil,
         NEW at \in {"stop", "recheck", "recheck sent", "recheck unknown", "mark sent", "mark unknown"},
         Goto(h, at)
  PROVE  \E w \in HeldByHandler :
           /\ work' = [work EXCEPT ![h] = w] /\ w.at = at /\ w.task = work[h].task
           /\ \A row, counts : row # Nil /\ row.native # Nil /\ at # "recheck" => HandlerIsSound(w, row, counts)
<1>1. PICK v \in HeldByHandler : v = work[h]
  BY AtWork
<1>2. PICK w \in HeldByHandler :
        w = [v EXCEPT !.at = at, !.held = Nil, !.record = Nil, !.status = Nil, !.late = FALSE]
  BY DEF HeldByHandler
<1>3. w.at = at /\ w.task = v.task
  BY <1>2 DEF HeldByHandler
<1>4. work' = [work EXCEPT ![h] = w]
  BY <1>1, <1>2 DEF Goto
<1>5. \A row, counts : row # Nil /\ row.native # Nil /\ at # "recheck" => HandlerIsSound(w, row, counts)
  BY <1>3 DEF HandlerIsSound
<1> QED BY <1>1, <1>3, <1>4, <1>5

\* A step that only changes what one handler holds.
LEMMA HandlerGoes ==
  ASSUME DiagnosisInv, NEW h \in Handler, work[h] # Nil, NEW t, t = work[h].task,
         NEW w \in HeldByHandler \cup {Nil}, work' = [work EXCEPT ![h] = w],
         UNCHANGED <<tasks, expired, native, sent>>,
         w # Nil =>
           /\ w.task = t /\ HandlerIsSound(w, tasks[t], sent[t])
           /\ w.at \notin {"intent", "post", "recheck"}
  PROVE  DiagnosisInv'
<1>1. t \in Task /\ tasks[t] \in DiagnosisTask /\ sent[t] \in Counts /\ RowIsSound(tasks[t], sent[t])
  BY AtWork
<1>2. DiagnosisTypeOK
  BY DEF DiagnosisInv
<1>3. MovesOn(h, t, tasks[t], sent[t], w)
  BY <1>1, <1>2 DEF MovesOn, DiagnosisTypeOK
<1>4. RowGoesOn(tasks[t], tasks[t])
  BY <1>1, DiagnosisNulls DEF RowGoesOn
<1> QED BY <1>1, <1>3, <1>4, TaskMoves

LEMMA HandlerDiesKeeps ==
  ASSUME DiagnosisInv, NEW h \in Handler, HandlerDies(h)
  PROVE  DiagnosisInv'
BY HandlerGoes DEF HandlerDies, Leave

LEMMA FetchKeeps ==
  ASSUME DiagnosisInv, NEW h \in Handler, Fetch(h)
  PROVE  DiagnosisInv'
<1>w. work[h] # Nil /\ work[h].at = "fetch" /\ UNCHANGED <<tasks, expired, native, sent>>
  BY DEF Fetch
<1>t. PICK t \in Task : t = work[h].task
  BY <1>w, AtWork
<1>v. PICK v \in HeldByHandler : v = work[h]
  BY <1>w, AtWork
<1>1. HandlerIsSound(v, tasks[t], sent[t])
  BY <1>w, <1>t, <1>v, AtWork
<1>2. CASE work' = [work EXCEPT ![h].at = "hold"]
  <2>1. PICK w \in HeldByHandler : w = [v EXCEPT !.at = "hold"]
    BY DEF HeldByHandler
  <2>2. w.at = "hold" /\ w.task = v.task /\ w.held = v.held
    BY <2>1 DEF HeldByHandler
  <2>3. work' = [work EXCEPT ![h] = w]
    BY <1>2, <1>v, <2>1
  <2>4. HandlerIsSound(w, tasks[t], sent[t])
    BY <1>1, <1>w, <1>v, <2>2 DEF HandlerIsSound
  <2> QED BY <1>w, <1>t, <1>v, <2>2, <2>3, <2>4, HandlerGoes
<1>3. CASE /\ native[t] # Nil
           /\ work' = [work EXCEPT ![h].at = "evaluate", ![h].record = native[t]]
  <2>t. DiagnosisTypeOK
    BY DEF DiagnosisInv
  <2>n. PICK n \in ServiceTask : n = native[t] /\ (n.status = "completed" => n.output # Nil)
    BY <1>3, <2>t DEF DiagnosisTypeOK
  <2>1. PICK w \in HeldByHandler : w = [v EXCEPT !.at = "evaluate", !.record = n]
    BY DEF HeldByHandler
  <2>2. w.at = "evaluate" /\ w.task = v.task /\ w.held = v.held /\ w.record = n /\ n # Nil
    BY <2>1, DiagnosisNulls DEF HeldByHandler
  <2>3. work' = [work EXCEPT ![h] = w]
    BY <1>3, <1>v, <2>1, <2>n
  <2>4. HandlerIsSound(w, tasks[t], sent[t])
    BY <1>1, <1>w, <1>v, <2>2, <2>n DEF HandlerIsSound
  <2> QED BY <1>w, <1>t, <1>v, <2>2, <2>3, <2>4, HandlerGoes
<1> QED BY <1>2, <1>3, <1>t DEF Fetch

LEMMA CreateKeeps ==
  ASSUME DiagnosisInv, NEW h \in Handler, Create(h)
  PROVE  DiagnosisInv'
<1>t. DiagnosisTypeOK
  BY DEF DiagnosisInv
<1>1. PICK t \in Task :
        /\ tasks[t] = Nil
        /\ tasks' = [tasks EXCEPT ![t] =
             [status |-> "queued", dispatch |-> "pending", recheck |-> "not_requested", native |-> Nil]]
        /\ work' = [work EXCEPT ![h] =
             [at |-> "intent", task |-> t, creator |-> TRUE, cancel |-> FALSE,
              held |-> Nil, record |-> Nil, status |-> Nil, late |-> FALSE]]
  BY DEF Create
<1>2. MayCreate /\ UNCHANGED <<expired, native, sent>> /\ work[h] = Nil
  BY DEF Create
<1>3. PICK row \in DiagnosisTask :
        row = [status |-> "queued", dispatch |-> "pending", recheck |-> "not_requested", native |-> Nil]
  BY DEF DiagnosisTask, Known
<1>4. PICK w \in HeldByHandler :
        w = [at |-> "intent", task |-> t, creator |-> TRUE, cancel |-> FALSE,
             held |-> Nil, record |-> Nil, status |-> Nil, late |-> FALSE]
  BY DEF HeldByHandler
<1>5. sent[t] = [post |-> 0, cancel |-> 0, recheck |-> 0] /\ sent[t] \in Counts
  BY <1>t, <1>1 DEF DiagnosisInv, DiagnosisTypeOK
<1>6. MovesOn(h, t, row, sent[t], w)
  BY <1>t, <1>1, <1>2, <1>3, <1>4 DEF MovesOn, DiagnosisTypeOK
<1>7. RowIsSound(row, sent[t])
  BY <1>3, <1>5 DEF RowIsSound
<1>8. \A u \in Task : IsOpen(tasks[u]) => u = t
  BY <1>2 DEF MayCreate, Open, IsOpen
<1>9. w.task = t /\ HandlerIsSound(w, row, sent[t])
  BY <1>3, <1>4, <1>5, DiagnosisNulls DEF HandlerIsSound
<1>10. \A g \in Handler : work[g] # Nil => work[g].task # t
  BY <1>1, AtWork
<1> QED BY <1>5, <1>6, <1>7, <1>8, <1>9, <1>10, HandlerMoves

LEMMA NativeIntentKeeps ==
  ASSUME DiagnosisInv, NEW h \in Handler, Intent(h)
  PROVE  DiagnosisInv'
<1>t. DiagnosisTypeOK
  BY DEF DiagnosisInv
<1>w. work[h] # Nil /\ work[h].at = "intent" /\ UNCHANGED <<expired, native, sent>>
  BY DEF Intent
<1>i. PICK t \in Task : t = work[h].task
  BY <1>w, AtWork
<1>v. PICK v \in HeldByHandler : v = work[h]
  BY <1>w, AtWork
<1>o. PICK old \in DiagnosisTask : old = tasks[t] /\ old # Nil
  BY <1>w, <1>i, AtWork
<1>n. PICK n \in NativeTask :
        n = [taskId |-> FALSE, claim |-> Nil, phase |-> "intent", output |-> Nil,
             receipt |-> Nil, cancelRequested |-> FALSE, cancelSent |-> FALSE]
  BY DEF NativeTask
<1>1. /\ old.native = Nil /\ old.status = "queued" /\ old.dispatch = "pending"
      /\ tasks' = [tasks EXCEPT ![t].native = n]
      /\ work' = [work EXCEPT ![h].at = "post", ![h].held = n]
  BY <1>i, <1>o, <1>n DEF Intent
<1>2. PICK row \in DiagnosisTask : row = [old EXCEPT !.native = n]
  BY DEF DiagnosisTask
<1>3. PICK w \in HeldByHandler : w = [v EXCEPT !.at = "post", !.held = n]
  BY DEF HeldByHandler
<1>4. /\ row.native = n /\ row.status = "queued" /\ row.dispatch = "pending" /\ row.recheck = old.recheck
      /\ row # Nil /\ n # Nil /\ n.receipt = Nil
  BY <1>1, <1>2, <1>n, DiagnosisNulls DEF DiagnosisTask
<1>5. w.at = "post" /\ w.task = t /\ w.held = n
  BY <1>3, <1>v, <1>i DEF HeldByHandler
<1>6. sent[t] \in Counts /\ RowIsSound(old, sent[t]) /\ HandlerIsSound(v, old, sent[t])
  BY <1>w, <1>i, <1>v, <1>o, AtWork
<1>7. tasks' = [tasks EXCEPT ![t] = row] /\ work' = [work EXCEPT ![h] = w]
  BY <1>1, <1>2, <1>3, <1>o, <1>v
<1>8. MovesOn(h, t, row, sent[t], w)
  BY <1>t, <1>w, <1>6, <1>7 DEF MovesOn, DiagnosisTypeOK
<1>9. RowIsSound(row, sent[t])
  BY <1>1, <1>4, <1>6 DEF RowIsSound, Counts
<1>10. HandlerIsSound(w, row, sent[t])
  BY <1>w, <1>v, <1>4, <1>5, <1>6 DEF HandlerIsSound
<1>11. RowGoesOn(tasks[t], row) /\ (IsOpen(row) => IsOpen(tasks[t]))
  BY <1>o, <1>1, <1>4 DEF RowGoesOn, IsOpen
<1> QED BY <1>w, <1>i, <1>5, <1>6, <1>8, <1>9, <1>10, <1>11, TaskMoves

LEMMA PostTaskKeeps ==
  ASSUME DiagnosisInv, NEW h \in Handler, PostTask(h)
  PROVE  DiagnosisInv'
<1>t. DiagnosisTypeOK
  BY DEF DiagnosisInv
<1>w. work[h] # Nil /\ work[h].at = "post" /\ UNCHANGED <<tasks, expired>>
  BY DEF PostTask
<1>i. PICK t \in Task : t = work[h].task
  BY <1>w, AtWork
<1>v. PICK v \in HeldByHandler : v = work[h]
  BY <1>w, AtWork
<1>o. /\ tasks[t] \in DiagnosisTask /\ tasks[t] # Nil /\ sent[t] \in Counts
      /\ RowIsSound(tasks[t], sent[t]) /\ HandlerIsSound(v, tasks[t], sent[t])
  BY <1>w, <1>i, <1>v, AtWork
<1>n. tasks[t].native # Nil /\ v.held # Nil /\ sent[t].post = 0
  BY <1>w, <1>v, <1>o DEF HandlerIsSound
<1>1. CASE Goto(h, "stop") /\ UNCHANGED <<native, sent>>
  <2>1. PICK w \in HeldByHandler :
          /\ work' = [work EXCEPT ![h] = w] /\ w.at = "stop" /\ w.task = work[h].task
          /\ HandlerIsSound(w, tasks[t], sent[t])
    BY <1>1, <1>w, <1>o, <1>n, GoesTo
  <2> QED BY <1>1, <1>w, <1>i, <2>1, HandlerGoes
<1>q. PICK q \in ServiceTask : q = [status |-> "queued", claim |-> Nil, output |-> Nil]
  BY DEF ServiceTask
<1>2. CASE /\ sent' = [sent EXCEPT ![t].post = @ + 1]
           /\ \/ UNCHANGED native /\ Goto(h, "mark unknown")
              \/ /\ native' = [native EXCEPT ![t] = q]
                 /\ \/ Goto(h, "mark unknown")
                    \/ work' = [work EXCEPT ![h].at = "evaluate", ![h].record = native'[t]]
  <2>b. PICK before \in Counts : before = sent[t]
    BY <1>o
  <2>c. PICK counts \in Counts : counts = [before EXCEPT !.post = @ + 1]
    <3>1. before.post + 1 \in Nat
      BY DEF Counts
    <3> QED BY <3>1 DEF Counts
  <2>d. counts.post = 1 /\ counts.cancel = sent[t].cancel /\ counts.recheck = sent[t].recheck
    BY <2>b, <2>c, <1>n DEF Counts
  <2>r. RowIsSound(tasks[t], counts)
    BY <1>o, <2>d DEF RowIsSound
  <2>s. sent' = [sent EXCEPT ![t] = counts]
    BY <1>2, <2>b, <2>c
  <2>x. native' = native \/ native' = [native EXCEPT ![t] = q]
    BY <1>2
  <2>n. /\ native' \in [Task -> ServiceTask \cup {Nil}]
        /\ \A u \in Task : native'[u] # Nil /\ native'[u].status = "completed" => native'[u].output # Nil
    <3>1. CASE native' = native
      BY <1>t, <3>1 DEF DiagnosisTypeOK
    <3>2. CASE native' = [native EXCEPT ![t] = q]
      BY <1>t, <1>q, <3>2 DEF DiagnosisTypeOK
    <3> QED BY <2>x, <3>1, <3>2
  <2>m. ASSUME NEW w \in HeldByHandler, work' = [work EXCEPT ![h] = w], w.task = t,
               w.at \in {"mark unknown", "evaluate"}, HandlerIsSound(w, tasks[t], counts)
        PROVE  DiagnosisInv'
    <3>1. MovesOn(h, t, tasks[t], counts, w)
      BY <1>t, <1>w, <2>m, <2>n, <2>s DEF MovesOn, DiagnosisTypeOK
    <3>2. RowGoesOn(tasks[t], tasks[t])
      BY <1>o DEF RowGoesOn
    <3> QED BY <1>w, <1>i, <1>o, <2>d, <2>r, <2>m, <3>1, <3>2, TaskMoves
  <2>1. CASE Goto(h, "mark unknown")
    <3>1. PICK w \in HeldByHandler :
            /\ work' = [work EXCEPT ![h] = w] /\ w.at = "mark unknown" /\ w.task = work[h].task
            /\ HandlerIsSound(w, tasks[t], counts)
      BY <2>1, <1>w, <1>o, <1>n, GoesTo
    <3> QED BY <1>i, <2>m, <3>1
  <2>2. CASE work' = [work EXCEPT ![h].at = "evaluate", ![h].record = q]
    <3>1. PICK w \in HeldByHandler : w = [v EXCEPT !.at = "evaluate", !.record = q]
      BY DEF HeldByHandler
    <3>2. w.at = "evaluate" /\ w.task = t /\ w.record = q /\ w.held = v.held
      BY <3>1, <1>v, <1>i DEF HeldByHandler
    <3>3. work' = [work EXCEPT ![h] = w]
      BY <2>2, <3>1, <1>v
    <3>4. HandlerIsSound(w, tasks[t], counts)
      BY <1>o, <1>n, <1>q, <3>2, DiagnosisNulls DEF HandlerIsSound
    <3> QED BY <2>m, <3>2, <3>3, <3>4
  <2> QED
    <3>1. native' = [native EXCEPT ![t] = q] => native'[t] = q
      BY <1>t DEF DiagnosisTypeOK
    <3> QED BY <1>2, <3>1, <2>1, <2>2
<1> QED BY <1>1, <1>2, <1>i, <1>q DEF PostTask

LEMMA ReadTaskKeeps ==
  ASSUME DiagnosisInv, NEW h \in Handler, ReadTask(h)
  PROVE  DiagnosisInv'
<1>t. DiagnosisTypeOK
  BY DEF DiagnosisInv
<1>1. PICK t \in Task, cancel \in BOOLEAN, at \in {"stop", "fetch"} :
        /\ tasks[t] # Nil /\ tasks[t].native # Nil
        /\ work' = [work EXCEPT ![h] =
             [at |-> at, task |-> t, creator |-> FALSE, cancel |-> cancel,
              held |-> tasks[t].native, record |-> Nil, status |-> Nil, late |-> FALSE]]
  BY DEF ReadTask
<1>2. work[h] = Nil /\ UNCHANGED <<tasks, expired, native, sent>>
  BY DEF ReadTask
<1>3. /\ tasks[t] \in DiagnosisTask /\ sent[t] \in Counts /\ RowIsSound(tasks[t], sent[t])
  BY <1>t, <1>1 DEF DiagnosisInv, DiagnosisTypeOK
<1>4. PICK n \in NativeTask : n = tasks[t].native /\ n # Nil
  BY <1>1, <1>3 DEF DiagnosisTask
<1>5. PICK w \in HeldByHandler :
        w = [at |-> at, task |-> t, creator |-> FALSE, cancel |-> cancel,
             held |-> n, record |-> Nil, status |-> Nil, late |-> FALSE]
  BY DEF HeldByHandler
<1>6. w.task = t /\ HandlerIsSound(w, tasks[t], sent[t]) /\ w.at \in {"stop", "fetch"}
  BY <1>1, <1>4, <1>5 DEF HandlerIsSound
<1>7. MovesOn(h, t, tasks[t], sent[t], w)
  BY <1>t, <1>1, <1>2, <1>4, <1>5 DEF MovesOn, DiagnosisTypeOK
<1>8. IsOpen(tasks[t]) => \A u \in Task : IsOpen(tasks[u]) => u = t
  BY DEF DiagnosisInv
<1>9. \A g \in Handler : g # h /\ work[g] # Nil /\ work[g].task = t =>
        HandlerIsSound(work[g], tasks[t], sent[t]) /\ ~Rivals(work[g], w)
  BY <1>6, AtWork DEF Rivals
<1> QED BY <1>3, <1>6, <1>7, <1>8, <1>9, HandlerMoves

LEMMA StopKeeps ==
  ASSUME DiagnosisInv, NEW h \in Handler, Stop(h)
  PROVE  DiagnosisInv'
<1>t. DiagnosisTypeOK
  BY DEF DiagnosisInv
<1>w. work[h] # Nil /\ work[h].at = "stop" /\ UNCHANGED <<expired, native>>
  BY DEF Stop
<1>i. PICK t \in Task : t = work[h].task
  BY <1>w, AtWork
<1>v. PICK v \in HeldByHandler : v = work[h]
  BY <1>w, AtWork
<1>o. PICK old \in DiagnosisTask : old = tasks[t] /\ old # Nil
  BY <1>w, <1>i, AtWork
<1>b. PICK before \in Counts : before = sent[t]
  BY <1>w, <1>i, AtWork
<1>1. RowIsSound(old, before) /\ HandlerIsSound(v, old, before)
  BY <1>w, <1>i, <1>v, <1>o, <1>b, AtWork
<1>2. old.native # Nil
  BY <1>w, <1>v, <1>1 DEF HandlerIsSound
<1>3. PICK n \in NativeTask : n = old.native /\ n # Nil
  BY <1>2 DEF DiagnosisTask
<1>4. PICK e \in BOOLEAN : e = (n.cancelSent \/ n.taskId)
  BY DEF NativeTask
<1>5. PICK m \in NativeTask : m = [n EXCEPT !.cancelRequested = TRUE, !.cancelSent = e, !.phase = "hold"]
  BY DEF NativeTask
<1>6. m.cancelRequested = TRUE /\ m.cancelSent = e /\ m.receipt = n.receipt /\ m # Nil
  BY <1>5, DiagnosisNulls DEF NativeTask
<1>7. m = [n EXCEPT !.cancelRequested = TRUE, !.cancelSent = @ \/ n.taskId, !.phase = "hold"]
  BY <1>4, <1>5
<1>r. PICK r \in DiagnosisTask :
        r = [old EXCEPT !.status = "unknown", !.recheck = "not_requested", !.native = m]
  BY DEF DiagnosisTask, Known
<1>s. r.status = "unknown" /\ r.recheck = "not_requested" /\ r.native = m
  BY <1>r DEF DiagnosisTask
<1>8. PICK row \in DiagnosisTask : row = IF n.receipt # Nil THEN old ELSE r
  OBVIOUS
<1>c. Cancelled(old) = row
  BY <1>3, <1>7, <1>r, <1>8 DEF Cancelled
<1>9. /\ row # Nil
      /\ n.receipt # Nil => row = old
      /\ n.receipt = Nil =>
           row.status = "unknown" /\ row.recheck = "not_requested" /\ row.native = m
  BY <1>s, <1>8, DiagnosisNulls
<1>10. row.native \in NativeTask /\ row.native # Nil
  BY <1>3, <1>6, <1>9
<1>p. PICK counts \in Counts :
        IF SendsCancel(old) THEN counts = [before EXCEPT !.cancel = @ + 1] ELSE counts = before
  <2>1. before.cancel + 1 \in Nat
    BY DEF Counts
  <2> QED BY <2>1 DEF Counts
<1>d. /\ counts.post = before.post /\ counts.recheck = before.recheck
      /\ counts.cancel = IF SendsCancel(old) THEN before.cancel + 1 ELSE before.cancel
  BY <1>p DEF Counts
<1>e. SendsCancel(old) <=> n.receipt = Nil /\ n.taskId /\ ~n.cancelSent
  BY <1>3 DEF SendsCancel
<1>11. RowIsSound(row, counts)
  <2>1. CASE n.receipt # Nil
    <3>1. counts.cancel = before.cancel /\ row = old
      BY <2>1, <1>d, <1>e, <1>9
    <3> QED BY <3>1, <1>1, <1>d DEF RowIsSound
  <2>2. CASE n.receipt = Nil
    <3>1. before.recheck = 0
      BY <2>2, <1>1, <1>3 DEF RowIsSound, Counts
    <3>2. before.cancel \in Nat /\ (before.cancel > 0 => n.cancelSent) /\ before.cancel <= 1
      BY <1>1, <1>3 DEF RowIsSound, Counts
    <3>3. (counts.cancel > 0 => e) /\ counts.cancel <= 1
      <4>1. CASE e
        BY <2>2, <3>2, <4>1, <1>d, <1>e, <1>4
      <4>2. CASE ~e
        <5>1. ~n.cancelSent /\ ~SendsCancel(old)
          BY <4>2, <1>e, <1>4
        <5> QED BY <5>1, <3>2, <4>2, <1>d
      <4> QED BY <4>1, <4>2
    <3>4. before.post <= 1
      BY <1>1 DEF RowIsSound
    <3> QED BY <2>2, <3>1, <3>3, <3>4, <1>d, <1>6, <1>9, <1>10 DEF RowIsSound
  <2> QED BY <2>1, <2>2
<1>12. RowGoesOn(old, row)
  BY <1>3, <1>9, <1>10 DEF RowGoesOn
<1>13. IsOpen(row) => IsOpen(old)
  <2>1. CASE n.receipt # Nil
    BY <2>1, <1>9
  <2>2. CASE n.receipt = Nil
    <3>1. old.status \notin {"succeeded", "failed"}
      BY <2>2, <1>1, <1>3 DEF RowIsSound
    <3> QED BY <3>1, <1>o DEF IsOpen, DiagnosisTask, Known
  <2> QED BY <2>1, <2>2
<1>14. tasks' = [tasks EXCEPT ![t] = row] /\ sent' = [sent EXCEPT ![t] = counts]
  <2>1. tasks' = [tasks EXCEPT ![t] = row]
    BY <1>i, <1>o, <1>c DEF Stop
  <2>2. CASE SendsCancel(old)
    <3>1. sent' = [sent EXCEPT ![t].cancel = @ + 1] /\ counts = [before EXCEPT !.cancel = @ + 1]
      BY <2>2, <1>i, <1>o, <1>p DEF Stop
    <3> QED BY <2>1, <3>1, <1>b
  <2>3. CASE ~SendsCancel(old)
    <3>1. sent' = sent /\ counts = sent[t]
      BY <2>3, <1>i, <1>o, <1>b, <1>p DEF Stop
    <3> QED BY <2>1, <3>1, <1>t DEF DiagnosisTypeOK
  <2> QED BY <2>1, <2>2, <2>3
<1>m. ASSUME NEW w \in HeldByHandler \cup {Nil}, work' = [work EXCEPT ![h] = w],
             w # Nil => w.task = t /\ w.at \in {"fetch", "mark sent"} /\ HandlerIsSound(w, row, counts)
      PROVE  DiagnosisInv'
  <2>1. MovesOn(h, t, row, counts, w)
    BY <1>t, <1>w, <1>14, <1>m DEF MovesOn, DiagnosisTypeOK
  <2> QED BY <2>1, <1>w, <1>i, <1>o, <1>b, <1>d, <1>9, <1>11, <1>12, <1>13, <1>m, TaskMoves
<1>15. \/ Goto(h, "mark sent")
       \/ work' = [work EXCEPT ![h].at = "fetch", ![h].held = row.native]
       \/ Leave(h)
  BY <1>i, <1>o, <1>c DEF Stop
<1>16. CASE Goto(h, "mark sent")
  <2>1. PICK w \in HeldByHandler :
          /\ work' = [work EXCEPT ![h] = w] /\ w.at = "mark sent" /\ w.task = work[h].task
          /\ HandlerIsSound(w, row, counts)
    BY <1>16, <1>w, <1>9, <1>10, GoesTo
  <2> QED BY <1>i, <1>m, <2>1
<1>17. CASE work' = [work EXCEPT ![h].at = "fetch", ![h].held = row.native]
  <2>1. PICK k \in NativeTask : k = row.native /\ k # Nil
    BY <1>10
  <2>2. PICK w \in HeldByHandler : w = [v EXCEPT !.at = "fetch", !.held = k]
    BY DEF HeldByHandler
  <2>3. w.at = "fetch" /\ w.task = t /\ w.held = k
    BY <2>2, <1>v, <1>i DEF HeldByHandler
  <2>4. work' = [work EXCEPT ![h] = w]
    BY <1>17, <1>v, <2>1, <2>2
  <2>5. HandlerIsSound(w, row, counts)
    BY <1>9, <1>10, <2>1, <2>3 DEF HandlerIsSound
  <2> QED BY <1>m, <2>3, <2>4, <2>5
<1>18. CASE Leave(h)
  BY <1>18, <1>m DEF Leave
<1> QED BY <1>15, <1>16, <1>17, <1>18

\* What a handler makes of a record: an end has its receipt, and a success had no
\* cancellation against it.
LEMMA ReadAsIs ==
  ASSUME NEW n \in NativeTask, NEW record \in ServiceTask, NEW late \in BOOLEAN, NEW cancel \in BOOLEAN,
         record.status = "completed" => record.output # Nil,
         NEW r, r = ReadAs(n, record, late, cancel)
  PROVE  /\ r.native \in NativeTask /\ r.status \in Known
         /\ r.status \in {"succeeded", "failed"} => r.native.receipt # Nil
         /\ r.status = "succeeded" => ~r.native.cancelRequested
<1> DEFINE hold == \/ record.status = "outcome_unknown"
                   \/ (cancel \/ late \/ n.cancelRequested \/ n.cancelSent) /\ record.status # "cancelled"
<1>1. PICK claim \in WorkerAttempt \cup {Nil} : claim = record.claim
  BY DEF ServiceTask
<1>2. PICK known \in NativeTask : known = [n EXCEPT !.taskId = TRUE, !.claim = claim]
  BY DEF NativeTask
<1>3. known.cancelRequested = n.cancelRequested
  BY <1>2 DEF NativeTask
<1>4. known = [n EXCEPT !.taskId = TRUE, !.claim = record.claim]
  BY <1>1, <1>2
<1>5. CASE hold
  <2>1. PICK m \in NativeTask : m = [known EXCEPT !.phase = "hold"]
    BY DEF NativeTask
  <2>2. r = [status |-> "unknown", native |-> m]
    BY <1>4, <1>5, <2>1 DEF ReadAs
  <2> QED BY <2>2 DEF Known
<1>6. CASE ~hold /\ record.status \in {"queued", "running"}
  <2>1. PICK m \in NativeTask : m = [known EXCEPT !.phase = "pending"]
    BY DEF NativeTask
  <2>2. r = [status |-> record.status, native |-> m]
    BY <1>4, <1>6, <2>1 DEF ReadAs
  <2> QED BY <1>6, <2>2 DEF Known
<1>7. CASE ~hold /\ record.status = "completed"
  <2>1. PICK output \in Output : output = record.output
    BY <1>7 DEF ServiceTask
  <2>2. output \in Known /\ <<claim, output>> \in (WorkerAttempt \cup {Nil}) \X Known
    BY <2>1, DiagnosisInputs DEF Known
  <2>3. PICK m \in NativeTask :
          m = [known EXCEPT !.phase = "terminal", !.output = output, !.receipt = <<claim, output>>]
    BY <2>2 DEF NativeTask
  <2>4. m.receipt = <<claim, output>> /\ m.cancelRequested = n.cancelRequested
    BY <1>3, <2>3 DEF NativeTask
  <2>5. r = [status |-> output, native |-> m]
    BY <1>1, <1>4, <1>7, <2>1, <2>3 DEF ReadAs
  <2>6. ~n.cancelRequested
    BY <1>7
  <2> QED BY <2>2, <2>4, <2>5, <2>6, DiagnosisNulls
<1>8. CASE ~hold /\ record.status \notin {"queued", "running", "completed"}
  <2>1. <<claim, "failed">> \in (WorkerAttempt \cup {Nil}) \X Known
    BY DEF Known
  <2>2. PICK m \in NativeTask : m = [known EXCEPT !.phase = "terminal", !.receipt = <<claim, "failed">>]
    BY <2>1 DEF NativeTask
  <2>3. m.receipt = <<claim, "failed">>
    BY <2>2 DEF NativeTask
  <2>4. r = [status |-> "failed", native |-> m]
    BY <1>1, <1>4, <1>8, <2>2 DEF ReadAs
  <2> QED BY <2>1, <2>3, <2>4, DiagnosisNulls DEF Known
<1> QED BY <1>5, <1>6, <1>7, <1>8

LEMMA EvaluateKeeps ==
  ASSUME DiagnosisInv, NEW h \in Handler, Evaluate(h)
  PROVE  DiagnosisInv'
<1>t. DiagnosisTypeOK
  BY DEF DiagnosisInv
<1>w. work[h] # Nil /\ work[h].at = "evaluate" /\ UNCHANGED <<tasks, expired, native, sent>>
  BY DEF Evaluate
<1>i. PICK t \in Task : t = work[h].task
  BY <1>w, AtWork
<1>v. PICK v \in HeldByHandler : v = work[h]
  BY <1>w, AtWork
<1>1. HandlerIsSound(v, tasks[t], sent[t]) /\ tasks[t] # Nil
  BY <1>w, <1>i, <1>v, AtWork
<1>2. v.held # Nil /\ v.record # Nil /\ tasks[t].native # Nil
  BY <1>w, <1>v, <1>1 DEF HandlerIsSound
<1>3. PICK n \in NativeTask, record \in ServiceTask, cancel \in BOOLEAN :
        n = v.held /\ record = v.record /\ cancel = v.cancel
  BY <1>2 DEF HeldByHandler
<1>4. record.status = "completed" => record.output # Nil
  BY <1>w, <1>v, <1>1, <1>3 DEF HandlerIsSound
<1>5. expired[t] \in BOOLEAN
  BY <1>t DEF DiagnosisTypeOK
<1>6. PICK late \in BOOLEAN :
        \/ Goto(h, "mark unknown") \/ Goto(h, "stop") \/ Leave(h)
        \/ work' = [work EXCEPT ![h].at = "save", ![h].held = ReadAs(n, record, late, cancel).native,
                       ![h].record = Nil, ![h].status = ReadAs(n, record, late, cancel).status,
                       ![h].late = late]
  BY <1>i, <1>v, <1>3, <1>5 DEF Evaluate
<1>7. ASSUME NEW at \in {"mark unknown", "stop"}, Goto(h, at)
      PROVE  DiagnosisInv'
  <2>1. PICK w \in HeldByHandler :
          /\ work' = [work EXCEPT ![h] = w] /\ w.at = at /\ w.task = work[h].task
          /\ HandlerIsSound(w, tasks[t], sent[t])
    <3>1. at \in {"stop", "recheck", "recheck sent", "recheck unknown", "mark sent", "mark unknown"}
      BY <1>7
    <3>2. at # "recheck"
      BY <1>7
    <3> QED BY <3>1, <3>2, <1>7, <1>w, <1>1, <1>2, GoesTo
  <2> QED BY <1>w, <1>i, <2>1, HandlerGoes
<1>8. CASE Leave(h)
  BY <1>8, <1>w, <1>i, HandlerGoes DEF Leave
<1>9. CASE work' = [work EXCEPT ![h].at = "save", ![h].held = ReadAs(n, record, late, cancel).native,
                       ![h].record = Nil, ![h].status = ReadAs(n, record, late, cancel).status,
                       ![h].late = late]
  <2>r. PICK r : r = ReadAs(n, record, late, cancel)
    OBVIOUS
  <2>1. /\ r.native \in NativeTask /\ r.status \in Known
        /\ r.status \in {"succeeded", "failed"} => r.native.receipt # Nil
        /\ r.status = "succeeded" => ~r.native.cancelRequested
    BY <1>4, <2>r, ReadAsIs
  <2>2. PICK m \in NativeTask, status \in Known : m = r.native /\ status = r.status
    BY <2>1
  <2>3. PICK w \in HeldByHandler :
          w = [v EXCEPT !.at = "save", !.held = m, !.record = Nil, !.status = status, !.late = late]
    BY DEF HeldByHandler
  <2>4. w.at = "save" /\ w.task = t /\ w.held = m /\ w.status = status
    BY <2>3, <1>v, <1>i DEF HeldByHandler
  <2>5. work' = [work EXCEPT ![h] = w]
    BY <1>9, <1>v, <2>r, <2>2, <2>3
  <2>6. HandlerIsSound(w, tasks[t], sent[t])
    BY <1>1, <1>2, <2>1, <2>2, <2>4, DiagnosisNulls DEF HandlerIsSound
  <2> QED BY <1>w, <1>i, <2>4, <2>5, <2>6, HandlerGoes
<1> QED BY <1>6, <1>7, <1>8, <1>9

\* What a save leaves of a sound row, when nothing contradicts it.
LEMMA SavedIs ==
  ASSUME NEW old \in DiagnosisTask, NEW n \in NativeTask, n = old.native, n # Nil, NEW next \in NativeTask,
         NEW status \in Known, NEW before \in Counts, RowIsSound(old, before),
         ~Contradicts(old.native, next),
         status \in {"succeeded", "failed"} => next.receipt # Nil,
         status = "succeeded" => ~next.cancelRequested
  PROVE  \E row \in DiagnosisTask :
           /\ row = Saved(old, next, status) /\ row.native # Nil
           /\ RowIsSound(row, before) /\ RowGoesOn(old, row) /\ (IsOpen(row) => IsOpen(old))
           /\ n.receipt = Nil => row.status = status /\ row.native = next
<1>1. CASE n.receipt # Nil
  <2>1. old = Saved(old, next, status)
    BY <1>1 DEF Saved
  <2>2. RowGoesOn(old, old)
    BY DiagnosisNulls DEF RowGoesOn
  <2> QED BY <1>1, <2>1, <2>2
<1>2. CASE n.receipt = Nil
  <2>1. PICK again \in {"not_requested", "pending", "sent", "unknown"} :
          again = IF status = "succeeded" THEN "pending" ELSE old.recheck
    BY DEF DiagnosisTask
  <2>2. PICK row \in DiagnosisTask :
          row = [old EXCEPT !.native = next, !.status = status, !.dispatch = "sent", !.recheck = again]
    BY DEF DiagnosisTask
  <2>3. row = Saved(old, next, status)
    BY <1>2, <2>1, <2>2 DEF Saved
  <2>4. /\ row.native = next /\ row.status = status /\ row.dispatch = "sent" /\ row.recheck = again
        /\ row # Nil /\ next # Nil
    BY <2>2, DiagnosisNulls DEF DiagnosisTask
  <2>5. old.recheck = "not_requested" /\ before.recheck = 0 /\ old.status \notin {"succeeded", "failed"}
    BY <1>2 DEF RowIsSound, Counts
  <2>6. before.cancel > 0 => next.cancelSent
    BY DEF RowIsSound, Contradicts
  <2>7. again # "not_requested" => status = "succeeded"
    BY <2>1, <2>5
  <2>8. RowIsSound(row, before)
    BY <2>4, <2>5, <2>6, <2>7 DEF RowIsSound
  <2>9. RowGoesOn(old, row)
    BY <1>2, <2>4 DEF RowGoesOn
  <2>10. IsOpen(old)
    BY <2>5, DiagnosisNulls DEF IsOpen, DiagnosisTask, Known
  <2> QED BY <2>3, <2>4, <2>8, <2>9, <2>10
<1> QED BY <1>1, <1>2

LEMMA SaveKeeps ==
  ASSUME DiagnosisInv, NEW h \in Handler, Save(h)
  PROVE  DiagnosisInv'
<1>t. DiagnosisTypeOK
  BY DEF DiagnosisInv
<1>w. work[h] # Nil /\ work[h].at = "save" /\ UNCHANGED <<expired, native, sent>>
  BY DEF Save
<1>i. PICK t \in Task : t = work[h].task
  BY <1>w, AtWork
<1>v. PICK v \in HeldByHandler : v = work[h]
  BY <1>w, AtWork
<1>o. PICK old \in DiagnosisTask : old = tasks[t] /\ old # Nil
  BY <1>w, <1>i, AtWork
<1>b. PICK before \in Counts : before = sent[t]
  BY <1>w, <1>i, AtWork
<1>1. RowIsSound(old, before) /\ HandlerIsSound(v, old, before)
  BY <1>w, <1>i, <1>v, <1>o, <1>b, AtWork
<1>2. /\ old.native # Nil /\ v.held # Nil /\ v.status # Nil
      /\ v.status \in {"succeeded", "failed"} => v.held.receipt # Nil
      /\ v.status = "succeeded" => ~v.held.cancelRequested
  BY <1>w, <1>v, <1>1 DEF HandlerIsSound
<1>3. PICK n \in NativeTask, next \in NativeTask, status \in Known :
        n = old.native /\ n # Nil /\ next = v.held /\ status = v.status
  BY <1>2 DEF HeldByHandler, DiagnosisTask
<1>g. ASSUME NEW at \in {"stop", "mark sent", "mark unknown"}, Goto(h, at), NEW row, row # Nil, row.native # Nil
      PROVE  \E w \in HeldByHandler :
               /\ work' = [work EXCEPT ![h] = w] /\ w.at = at /\ w.task = t
               /\ HandlerIsSound(w, row, before)
  <2>1. at \in {"stop", "recheck", "recheck sent", "recheck unknown", "mark sent", "mark unknown"}
    BY <1>g
  <2>2. at # "recheck"
    BY <1>g
  <2> QED BY <2>1, <2>2, <1>g, <1>w, <1>i, GoesTo
<1>4. CASE Refused(t, next, status)
  <2>1. UNCHANGED tasks /\ (Goto(h, "mark unknown") \/ Leave(h))
    BY <1>4, <1>i, <1>v, <1>3 DEF Save
  <2>2. CASE Goto(h, "mark unknown")
    <3>1. PICK w \in HeldByHandler :
            /\ work' = [work EXCEPT ![h] = w] /\ w.at = "mark unknown" /\ w.task = t
            /\ HandlerIsSound(w, old, before)
      BY <2>2, <1>g, <1>o, <1>2
    <3> QED BY <2>1, <1>w, <1>i, <1>o, <1>b, <3>1, HandlerGoes
  <2>3. CASE Leave(h)
    BY <2>1, <2>3, <1>w, <1>i, HandlerGoes DEF Leave
  <2> QED BY <2>1, <2>2, <2>3
<1>5. CASE ~Refused(t, next, status)
  <2>1. ~Contradicts(old.native, next)
    BY <1>5, <1>o DEF Refused
  <2>2. PICK row \in DiagnosisTask :
          /\ row = Saved(old, next, status) /\ row.native # Nil
          /\ RowIsSound(row, before) /\ RowGoesOn(old, row) /\ (IsOpen(row) => IsOpen(old))
          /\ n.receipt = Nil => row.status = status /\ row.native = next
    BY <2>1, <1>1, <1>2, <1>3, SavedIs
  <2>3. row # Nil
    BY DiagnosisNulls
  <2>4. tasks' = [tasks EXCEPT ![t] = row]
    BY <1>5, <1>i, <1>v, <1>o, <1>3, <2>2 DEF Save
  <2>5. sent' = [sent EXCEPT ![t] = before]
    BY <1>t, <1>w, <1>b DEF DiagnosisTypeOK
  <2>m. ASSUME NEW w \in HeldByHandler \cup {Nil}, work' = [work EXCEPT ![h] = w],
               w # Nil => /\ w.task = t /\ HandlerIsSound(w, row, before) /\ w.at \notin {"intent", "post"}
                          /\ w.at = "recheck" => n.receipt = Nil
        PROVE  DiagnosisInv'
    <3>1. MovesOn(h, t, row, before, w)
      BY <1>t, <1>w, <2>4, <2>5, <2>m DEF MovesOn, DiagnosisTypeOK
    <3> QED BY <3>1, <1>w, <1>i, <1>o, <1>b, <1>3, <2>2, <2>m, TaskMoves
  <2>6. \/ \E at \in {"stop", "mark sent"} : Goto(h, at)
        \/ /\ Goto(h, "recheck")
           /\ next.receipt # Nil /\ status = "succeeded" /\ n.receipt = Nil
        \/ Leave(h)
    <3>1. DEFINE terminal == next.receipt # Nil
                 changed == n.receipt = Nil
    <3>2. CASE (v.cancel \/ v.late \/ next.cancelRequested) /\ ~terminal
      BY <1>5, <3>2, <1>i, <1>v, <1>o, <1>3 DEF Save
    <3>3. CASE /\ ~((v.cancel \/ v.late \/ next.cancelRequested) /\ ~terminal)
               /\ terminal /\ status = "succeeded" /\ changed
      BY <1>5, <3>3, <1>i, <1>v, <1>o, <1>3 DEF Save
    <3>4. CASE /\ ~((v.cancel \/ v.late \/ next.cancelRequested) /\ ~terminal)
               /\ ~(terminal /\ status = "succeeded" /\ changed)
      BY <1>5, <3>4, <1>i, <1>v, <1>o, <1>3 DEF Save
    <3> QED BY <3>2, <3>3, <3>4
  <2>7. ASSUME NEW at \in {"stop", "mark sent"}, Goto(h, at)
        PROVE  DiagnosisInv'
    <3>1. PICK w \in HeldByHandler :
            /\ work' = [work EXCEPT ![h] = w] /\ w.at = at /\ w.task = t
            /\ HandlerIsSound(w, row, before)
      BY <2>7, <1>g, <2>2, <2>3
    <3> QED BY <2>7, <2>m, <3>1
  <2>8. CASE Goto(h, "recheck") /\ next.receipt # Nil /\ status = "succeeded" /\ n.receipt = Nil
    <3>1. PICK w \in HeldByHandler :
            work' = [work EXCEPT ![h] = w] /\ w.at = "recheck" /\ w.task = t
      BY <2>8, <1>w, <1>i, GoesTo
    <3>2. before.recheck = 0
      BY <2>8, <1>1, <1>3 DEF RowIsSound, Counts
    <3>3. HandlerIsSound(w, row, before)
      BY <2>2, <2>3, <2>8, <3>1, <3>2, <1>2, <1>3 DEF HandlerIsSound
    <3> QED BY <2>8, <2>m, <3>1, <3>3
  <2>9. CASE Leave(h)
    BY <2>9, <2>m DEF Leave
  <2> QED BY <2>6, <2>7, <2>8, <2>9
<1> QED BY <1>4, <1>5

LEMMA RecheckKeeps ==
  ASSUME DiagnosisInv, NEW h \in Handler, Recheck(h)
  PROVE  DiagnosisInv'
<1>t. DiagnosisTypeOK
  BY DEF DiagnosisInv
<1>w. work[h] # Nil /\ work[h].at = "recheck" /\ UNCHANGED <<tasks, expired, native>>
  BY DEF Recheck
<1>i. PICK t \in Task : t = work[h].task
  BY <1>w, AtWork
<1>v. PICK v \in HeldByHandler : v = work[h]
  BY <1>w, AtWork
<1>o. PICK old \in DiagnosisTask : old = tasks[t] /\ old # Nil
  BY <1>w, <1>i, AtWork
<1>b. PICK before \in Counts : before = sent[t]
  BY <1>w, <1>i, AtWork
<1>1. RowIsSound(old, before) /\ HandlerIsSound(v, old, before)
  BY <1>w, <1>i, <1>v, <1>o, <1>b, AtWork
<1>2. /\ before.recheck = 0 /\ old.status = "succeeded" /\ old.native # Nil
      /\ old.native.receipt # Nil /\ ~old.native.cancelRequested
  BY <1>w, <1>v, <1>1 DEF HandlerIsSound
<1>c. PICK counts \in Counts : counts = [before EXCEPT !.recheck = @ + 1]
  <2>1. before.recheck + 1 \in Nat
    BY DEF Counts
  <2> QED BY <2>1 DEF Counts
<1>d. counts.recheck = 1 /\ counts.post = before.post /\ counts.cancel = before.cancel
  BY <1>c, <1>2 DEF Counts
<1>3. RowIsSound(old, counts)
  BY <1>1, <1>2, <1>d DEF RowIsSound
<1>4. sent' = [sent EXCEPT ![t] = counts]
  BY <1>i, <1>b, <1>c DEF Recheck
<1>5. PICK at \in {"recheck sent", "recheck unknown"} : Goto(h, at)
  BY DEF Recheck
<1>6. at \in {"stop", "recheck", "recheck sent", "recheck unknown", "mark sent", "mark unknown"} /\ at # "recheck"
  BY <1>5
<1>7. PICK w \in HeldByHandler :
        /\ work' = [work EXCEPT ![h] = w] /\ w.at = at /\ w.task = work[h].task
        /\ HandlerIsSound(w, old, counts)
  BY <1>5, <1>6, <1>w, <1>o, <1>2, GoesTo
<1>8. MovesOn(h, t, old, counts, w)
  BY <1>t, <1>w, <1>o, <1>4, <1>7 DEF MovesOn, DiagnosisTypeOK
<1>9. RowGoesOn(old, old)
  BY <1>o DEF RowGoesOn
<1> QED BY <1>w, <1>i, <1>o, <1>b, <1>d, <1>3, <1>5, <1>7, <1>8, <1>9, TaskMoves

LEMMA MarkRecheckKeeps ==
  ASSUME DiagnosisInv, NEW h \in Handler, MarkRecheck(h)
  PROVE  DiagnosisInv'
<1>t. DiagnosisTypeOK
  BY DEF DiagnosisInv
<1>w. /\ work[h] # Nil /\ work[h].at \in {"recheck sent", "recheck unknown"}
      /\ UNCHANGED <<expired, native, sent>>
  BY DEF MarkRecheck
<1>i. PICK t \in Task : t = work[h].task
  BY <1>w, AtWork
<1>v. PICK v \in HeldByHandler : v = work[h]
  BY <1>w, AtWork
<1>o. PICK old \in DiagnosisTask : old = tasks[t] /\ old # Nil
  BY <1>w, <1>i, AtWork
<1>b. PICK before \in Counts : before = sent[t]
  BY <1>w, <1>i, AtWork
<1>1. RowIsSound(old, before) /\ HandlerIsSound(v, old, before)
  BY <1>w, <1>i, <1>v, <1>o, <1>b, AtWork
<1>2. old.native # Nil
  BY <1>w, <1>v, <1>1 DEF HandlerIsSound
<1>3. PICK mark \in {"sent", "unknown"} : tasks' = [tasks EXCEPT ![t].recheck = IF @ = "pending" THEN mark ELSE @]
  BY <1>i DEF MarkRecheck
<1>4. PICK again \in {"not_requested", "pending", "sent", "unknown"} :
        again = IF old.recheck = "pending" THEN mark ELSE old.recheck
  BY DEF DiagnosisTask
<1>5. PICK row \in DiagnosisTask : row = [old EXCEPT !.recheck = again]
  BY DEF DiagnosisTask
<1>6. /\ row.recheck = again /\ row.status = old.status /\ row.native = old.native /\ row.dispatch = old.dispatch
      /\ row # Nil
  BY <1>5, DiagnosisNulls DEF DiagnosisTask
<1>7. again # "not_requested" => old.recheck # "not_requested"
  BY <1>4
<1>8. RowIsSound(row, before) /\ RowGoesOn(old, row) /\ (IsOpen(row) => IsOpen(old))
  BY <1>o, <1>1, <1>6, <1>7 DEF RowIsSound, RowGoesOn, IsOpen
<1>9. tasks' = [tasks EXCEPT ![t] = row] /\ sent' = [sent EXCEPT ![t] = before]
  BY <1>t, <1>w, <1>o, <1>b, <1>3, <1>4, <1>5 DEF DiagnosisTypeOK
<1>m. ASSUME NEW w \in HeldByHandler \cup {Nil}, work' = [work EXCEPT ![h] = w],
             w # Nil => w.task = t /\ w.at = "mark sent" /\ HandlerIsSound(w, row, before)
      PROVE  DiagnosisInv'
  <2>1. MovesOn(h, t, row, before, w)
    BY <1>t, <1>w, <1>9, <1>m DEF MovesOn, DiagnosisTypeOK
  <2> QED BY <2>1, <1>w, <1>i, <1>o, <1>b, <1>8, <1>m, TaskMoves
<1>10. CASE Goto(h, "mark sent")
  <2>1. PICK w \in HeldByHandler :
          /\ work' = [work EXCEPT ![h] = w] /\ w.at = "mark sent" /\ w.task = work[h].task
          /\ HandlerIsSound(w, row, before)
    BY <1>10, <1>w, <1>2, <1>6, GoesTo
  <2> QED BY <1>i, <1>m, <2>1
<1>11. CASE Leave(h)
  BY <1>11, <1>m DEF Leave
<1> QED BY <1>10, <1>11 DEF MarkRecheck

LEMMA HoldKeeps ==
  ASSUME DiagnosisInv, NEW h \in Handler, Hold(h)
  PROVE  DiagnosisInv'
<1>t. DiagnosisTypeOK
  BY DEF DiagnosisInv
<1>w. work[h] # Nil /\ work[h].at = "hold" /\ UNCHANGED <<expired, native, sent>> /\ Leave(h)
  BY DEF Hold
<1>i. PICK t \in Task : t = work[h].task
  BY <1>w, AtWork
<1>v. PICK v \in HeldByHandler : v = work[h]
  BY <1>w, AtWork
<1>o. PICK old \in DiagnosisTask : old = tasks[t] /\ old # Nil
  BY <1>w, <1>i, AtWork
<1>b. PICK before \in Counts : before = sent[t]
  BY <1>w, <1>i, AtWork
<1>1. RowIsSound(old, before) /\ HandlerIsSound(v, old, before)
  BY <1>w, <1>i, <1>v, <1>o, <1>b, AtWork
<1>2. old.native # Nil /\ v.held # Nil
  BY <1>w, <1>v, <1>1 DEF HandlerIsSound
<1>3. PICK n \in NativeTask, k \in NativeTask : n = old.native /\ n # Nil /\ k = v.held
  BY <1>2 DEF HeldByHandler, DiagnosisTask
<1>4. PICK next \in NativeTask : next = [k EXCEPT !.phase = "hold"]
  BY DEF NativeTask
<1>5. tasks' = IF Refused(t, next, "unknown") THEN tasks ELSE [tasks EXCEPT ![t] = Saved(@, next, "unknown")]
  BY <1>i, <1>v, <1>3, <1>4 DEF Hold
<1>6. CASE Refused(t, next, "unknown")
  BY <1>5, <1>6, <1>w, <1>i, HandlerGoes DEF Leave
<1>7. CASE ~Refused(t, next, "unknown")
  <2>1. ~Contradicts(old.native, next)
    BY <1>7, <1>o DEF Refused
  <2>2. PICK row \in DiagnosisTask :
          /\ row = Saved(old, next, "unknown")
          /\ RowIsSound(row, before) /\ RowGoesOn(old, row) /\ (IsOpen(row) => IsOpen(old))
    <3>1. "unknown" \in Known /\ "unknown" \notin {"succeeded", "failed"}
      BY DEF Known
    <3> QED BY <2>1, <3>1, <1>1, <1>3, SavedIs
  <2>3. tasks' = [tasks EXCEPT ![t] = row] /\ sent' = [sent EXCEPT ![t] = before]
    BY <1>t, <1>w, <1>o, <1>b, <1>5, <1>7, <2>2 DEF DiagnosisTypeOK
  <2>4. work' = [work EXCEPT ![h] = Nil]
    BY <1>w DEF Leave
  <2>5. MovesOn(h, t, row, before, Nil)
    BY <1>t, <1>w, <2>3, <2>4 DEF MovesOn, DiagnosisTypeOK
  <2> QED BY <2>2, <2>5, <1>w, <1>i, <1>o, <1>b, TaskMoves
<1> QED BY <1>6, <1>7

LEMMA MarkDispatchKeeps ==
  ASSUME DiagnosisInv, NEW h \in Handler, MarkDispatch(h)
  PROVE  DiagnosisInv'
<1>t. DiagnosisTypeOK
  BY DEF DiagnosisInv
<1>w. /\ work[h] # Nil /\ work[h].at \in {"mark sent", "mark unknown"}
      /\ UNCHANGED <<expired, native, sent>> /\ Leave(h)
  BY DEF MarkDispatch
<1>i. PICK t \in Task : t = work[h].task
  BY <1>w, AtWork
<1>v. PICK v \in HeldByHandler : v = work[h]
  BY <1>w, AtWork
<1>o. PICK old \in DiagnosisTask : old = tasks[t] /\ old # Nil
  BY <1>w, <1>i, AtWork
<1>b. PICK before \in Counts : before = sent[t]
  BY <1>w, <1>i, AtWork
<1>1. RowIsSound(old, before) /\ HandlerIsSound(v, old, before)
  BY <1>w, <1>i, <1>v, <1>o, <1>b, AtWork
<1>2. old.native # Nil
  BY <1>w, <1>v, <1>1 DEF HandlerIsSound
<1>3. PICK n \in NativeTask : n = old.native /\ n # Nil
  BY <1>2 DEF DiagnosisTask
<1>m. ASSUME NEW row \in DiagnosisTask, tasks' = [tasks EXCEPT ![t] = row],
             RowIsSound(row, before), RowGoesOn(old, row), IsOpen(row) => IsOpen(old)
      PROVE  DiagnosisInv'
  <2>1. sent' = [sent EXCEPT ![t] = before] /\ work' = [work EXCEPT ![h] = Nil]
    BY <1>t, <1>w, <1>b DEF DiagnosisTypeOK, Leave
  <2>2. MovesOn(h, t, row, before, Nil)
    BY <1>t, <1>w, <1>m, <2>1 DEF MovesOn, DiagnosisTypeOK
  <2> QED BY <2>2, <1>w, <1>i, <1>o, <1>b, <1>m, TaskMoves
<1>4. CASE old.dispatch # "pending"
  <2>1. tasks' = [tasks EXCEPT ![t] = old]
    BY <1>4, <1>t, <1>i, <1>o DEF MarkDispatch, DiagnosisTypeOK
  <2>2. RowGoesOn(old, old)
    BY <1>o DEF RowGoesOn
  <2> QED BY <2>1, <2>2, <1>1, <1>m
<1>5. CASE old.dispatch = "pending"
  <2>1. n.receipt = Nil
    BY <1>5, <1>1, <1>3 DEF RowIsSound
  <2>2. old.status \notin {"succeeded", "failed"} /\ old.recheck = "not_requested" /\ before.recheck = 0
    BY <2>1, <1>1, <1>3 DEF RowIsSound, Counts
  <2>3. IsOpen(old)
    BY <2>2, <1>o DEF IsOpen, DiagnosisTask, Known
  <2>4. CASE work[h].at = "mark sent"
    <3>1. PICK row \in DiagnosisTask : row = [old EXCEPT !.dispatch = "sent"]
      BY DEF DiagnosisTask
    <3>2. /\ row.dispatch = "sent" /\ row.status = old.status /\ row.native = n /\ row.recheck = old.recheck
          /\ row # Nil
      BY <3>1, <1>3, DiagnosisNulls DEF DiagnosisTask
    <3>3. tasks' = [tasks EXCEPT ![t] = row]
      BY <1>5, <2>4, <1>i, <1>o, <3>1 DEF MarkDispatch
    <3>4. RowIsSound(row, before) /\ RowGoesOn(old, row)
      BY <3>2, <1>1, <1>3 DEF RowIsSound, RowGoesOn
    <3> QED BY <2>3, <3>3, <3>4, <1>m
  <2>5. CASE work[h].at = "mark unknown"
    <3>1. PICK m \in NativeTask : m = [n EXCEPT !.phase = "hold"]
      BY DEF NativeTask
    <3>2. m.receipt = Nil /\ m.cancelSent = n.cancelSent /\ m # Nil
      BY <3>1, <2>1, DiagnosisNulls DEF NativeTask
    <3>3. PICK row \in DiagnosisTask : row = [old EXCEPT !.dispatch = "unknown", !.status = "unknown", !.native = m]
      BY DEF DiagnosisTask, Known
    <3>4. row.status = "unknown" /\ row.native = m /\ row.recheck = old.recheck /\ row # Nil
      BY <3>3, DiagnosisNulls DEF DiagnosisTask
    <3>5. tasks' = [tasks EXCEPT ![t] = row]
      <4>1. tasks' = [tasks EXCEPT ![t] = DispatchLost(old)]
        BY <1>5, <2>5, <1>i, <1>o DEF MarkDispatch
      <4>2. DispatchLost(old) = row
        BY <1>3, <3>1, <3>3 DEF DispatchLost
      <4> QED BY <4>1, <4>2
    <3>6. RowIsSound(row, before) /\ RowGoesOn(old, row)
      BY <2>1, <2>2, <3>2, <3>4, <1>1, <1>3 DEF RowIsSound, RowGoesOn
    <3> QED BY <2>3, <3>5, <3>6, <1>m
  <2> QED BY <1>w, <2>4, <2>5
<1> QED BY <1>4, <1>5

LEMMA ExpireKeeps ==
  ASSUME DiagnosisInv, NEW t \in Task, Expire(t)
  PROVE  DiagnosisInv'
<1>1. DiagnosisTypeOK'
  BY DEF DiagnosisInv, DiagnosisTypeOK, Expire
<1>2. tasks' = tasks /\ sent' = sent /\ work' = work
  BY DEF Expire
<1> QED BY <1>1, <1>2 DEF DiagnosisInv

LEMMA ServeKeeps ==
  ASSUME DiagnosisInv, NEW t \in Task, Serve(t)
  PROVE  DiagnosisInv'
<1>t. DiagnosisTypeOK
  BY DEF DiagnosisInv
<1>1. tasks' = tasks /\ sent' = sent /\ work' = work /\ expired' = expired
  BY DEF Serve
<1>2. PICK n \in ServiceTask : n = native[t] /\ n.status \in {"queued", "running"}
  BY <1>t DEF DiagnosisTypeOK, Serve
<1>3. \E m \in ServiceTask :
        native' = [native EXCEPT ![t] = m] /\ (m.status = "completed" => m.output # Nil)
  <2>1. CASE \E c \in WorkerAttempt : native' = [native EXCEPT ![t].status = "running", ![t].claim = c]
    <3>1. PICK c \in WorkerAttempt : native' = [native EXCEPT ![t].status = "running", ![t].claim = c]
      BY <2>1
    <3>2. PICK m \in ServiceTask : m = [n EXCEPT !.status = "running", !.claim = c]
      BY DEF ServiceTask
    <3>3. m.status = "running"
      BY <3>2 DEF ServiceTask
    <3> QED BY <3>1, <3>2, <3>3, <1>2
  <2>2. CASE \E o \in Output : native' = [native EXCEPT ![t].status = "completed", ![t].output = o]
    <3>1. PICK o \in Output : native' = [native EXCEPT ![t].status = "completed", ![t].output = o]
      BY <2>2
    <3>2. PICK m \in ServiceTask : m = [n EXCEPT !.status = "completed", !.output = o]
      BY DEF ServiceTask
    <3>3. m.output = o /\ o # Nil
      BY <3>2, DiagnosisNulls DEF ServiceTask
    <3> QED BY <3>1, <3>2, <3>3, <1>2
  <2>3. CASE \E status \in {"outcome_unknown", "cancelled"} : native' = [native EXCEPT ![t].status = status]
    <3>1. PICK status \in {"outcome_unknown", "cancelled"} : native' = [native EXCEPT ![t].status = status]
      BY <2>3
    <3>2. PICK m \in ServiceTask : m = [n EXCEPT !.status = status]
      BY DEF ServiceTask
    <3>3. m.status = status
      BY <3>2 DEF ServiceTask
    <3> QED BY <3>1, <3>2, <3>3, <1>2
  <2> QED BY <2>1, <2>2, <2>3 DEF Serve
<1>4. DiagnosisTypeOK'
  BY <1>t, <1>1, <1>3 DEF DiagnosisTypeOK
<1> QED BY <1>1, <1>4 DEF DiagnosisInv

\* The inductive invariant: at the start, and under every step.
LEMMA DiagnosisStarts == DiagnosisInit => DiagnosisInv
<1> SUFFICES ASSUME DiagnosisInit PROVE DiagnosisInv
  OBVIOUS
<1>1. DiagnosisTypeOK
  BY DEF DiagnosisInit, DiagnosisTypeOK, Counts
<1> QED BY <1>1 DEF DiagnosisInit, DiagnosisInv, IsOpen

LEMMA DiagnosisKept == DiagnosisInv /\ [DiagnosisNext]_diagnosisVars => DiagnosisInv'
<1> SUFFICES ASSUME DiagnosisInv, [DiagnosisNext]_diagnosisVars PROVE DiagnosisInv'
  OBVIOUS
<1>1. ASSUME NEW h \in Handler,
             \/ Create(h) \/ Intent(h) \/ PostTask(h) \/ ReadTask(h) \/ Stop(h) \/ Fetch(h) \/ Evaluate(h)
             \/ Save(h) \/ Recheck(h) \/ MarkRecheck(h) \/ Hold(h) \/ MarkDispatch(h) \/ HandlerDies(h)
      PROVE  DiagnosisInv'
  BY <1>1, CreateKeeps, NativeIntentKeeps, PostTaskKeeps, ReadTaskKeeps, StopKeeps, FetchKeeps, EvaluateKeeps,
     SaveKeeps, RecheckKeeps, MarkRecheckKeeps, HoldKeeps, MarkDispatchKeeps, HandlerDiesKeeps
<1>2. ASSUME NEW t \in Task, Expire(t) \/ Serve(t)
      PROVE  DiagnosisInv'
  BY <1>2, ExpireKeeps, ServeKeeps
<1>3. CASE UNCHANGED diagnosisVars
  <2>1. UNCHANGED <<tasks, expired, native, sent, work>>
    BY <1>3 DEF diagnosisVars
  <2> QED BY <2>1 DEF DiagnosisInv, DiagnosisTypeOK
<1> QED BY <1>1, <1>2, <1>3 DEF DiagnosisNext

\* The invariant of the diagnosis, for any tasks, handlers and outputs of the service.
THEOREM DiagnosisInvariant == DiagnosisSpec => []DiagnosisInv
BY DiagnosisStarts, DiagnosisKept, PTL DEF DiagnosisSpec

\* Every combination of checks that passes a recheck is one that calls for no diagnosis.
LEMMA PassedIsSound == PassedNeedsNoAttention
<1> SUFFICES ASSUME NEW c \in Checks, RecheckStatus(c) = "passed" PROVE ~HasConfirmedAttention(c)
  BY DEF PassedNeedsNoAttention
<1>1. c.freshness = "ready"
  BY DEF RecheckStatus
<1>2. PICK told \in BOOLEAN : told = ~(\/ "unavailable" \in {c.guard, c.heartbeat}
                                     \/ c.runtime = "null" \/ c.scheduler = "unknown")
  OBVIOUS
<1>3. CASE told /\ c.configured = "enabled"
  <2>1. /\ c.runtime = "true" /\ c.scheduler = "enabled"
        /\ c.guard = "pass" /\ c.heartbeat \in {"pass", "not_due"}
    BY <1>1, <1>2, <1>3 DEF RecheckStatus
  <2> QED BY <1>1, <2>1 DEF HasConfirmedAttention
<1>4. CASE told /\ c.configured = "disabled"
  <2>1. c.guard = "pass" /\ c.heartbeat = "not_applicable"
    BY <1>1, <1>2, <1>4 DEF RecheckStatus
  <2> QED BY <1>1, <1>4, <2>1 DEF HasConfirmedAttention
<1>5. CASE ~told \/ c.configured \notin {"enabled", "disabled"}
  BY <1>1, <1>2, <1>5 DEF RecheckStatus
<1> QED BY <1>3, <1>4, <1>5

\* At most one task is unresolved, and none is sent or cancelled twice.
THEOREM OneDiagnosis == DiagnosisSpec => []OneOpenTask
<1>1. ASSUME DiagnosisInv PROVE OneOpenTask
  <2>1. \A t \in Task : sent[t].post <= 1 /\ sent[t].cancel <= 1
    BY <1>1 DEF DiagnosisInv, RowIsSound
  <2>2. \A t \in Task : Open(t) <=> IsOpen(tasks[t])
    BY DEF Open, IsOpen
  <2> QED BY <1>1, <2>1, <2>2 DEF DiagnosisInv, OneOpenTask
<1> QED BY <1>1, DiagnosisInvariant, PTL

\* A recheck is asked for once, after a success that was stored before any cancellation.
THEOREM RechecksAreEarned == DiagnosisSpec => []RecheckIsEarned
<1>1. ASSUME DiagnosisInv PROVE RecheckIsEarned
  <2>1. ASSUME NEW t \in Task PROVE sent[t].recheck <= 1
    BY <1>1 DEF DiagnosisInv, RowIsSound
  <2>2. ASSUME NEW t \in Task, tasks[t] # Nil, sent[t].recheck = 1 \/ tasks[t].recheck # "not_requested"
        PROVE  /\ tasks[t].status = "succeeded" /\ tasks[t].native.receipt # Nil
               /\ ~tasks[t].native.cancelRequested
    BY <1>1, <2>2 DEF DiagnosisInv, RowIsSound
  <2> QED BY <2>1, <2>2, PassedIsSound DEF RecheckIsEarned
<1> QED BY <1>1, DiagnosisInvariant, PTL

\* What a row may know after a step.
Learns(row, next) ==
  row.native # Nil =>
    /\ row.native.taskId => next.native.taskId
    /\ row.native.claim # Nil => next.native.claim = row.native.claim
    /\ row.native.cancelRequested => next.native.cancelRequested
    /\ row.native.cancelSent => next.native.cancelSent
    /\ row.native.receipt # Nil => next.native.receipt = row.native.receipt /\ next.status = row.status

LEMMA RowLearns ==
  ASSUME DiagnosisTypeOK, NEW t \in Task, NEW row, tasks' = [tasks EXCEPT ![t] = row],
         tasks[t] # Nil => Learns(tasks[t], row)
  PROVE  KnowledgeGrows
<1>1. \A u \in Task : tasks'[u] = IF u = t THEN row ELSE tasks[u]
  BY DEF DiagnosisTypeOK
<1> QED BY <1>1 DEF KnowledgeGrows, Learns

LEMMA SavedLearns ==
  ASSUME NEW old \in DiagnosisTask, NEW n \in NativeTask, n = old.native, NEW next \in NativeTask,
         NEW status \in Known, ~Contradicts(old.native, next)
  PROVE  Learns(old, Saved(old, next, status))
<1>1. CASE n.receipt # Nil
  BY <1>1 DEF Saved, Learns
<1>2. CASE n.receipt = Nil
  <2>1. PICK again \in {"not_requested", "pending", "sent", "unknown"} :
          again = IF status = "succeeded" THEN "pending" ELSE old.recheck
    BY DEF DiagnosisTask
  <2>2. PICK row \in DiagnosisTask :
          row = [old EXCEPT !.native = next, !.status = status, !.dispatch = "sent", !.recheck = again]
    BY DEF DiagnosisTask
  <2>3. row = Saved(old, next, status)
    BY <1>2, <2>1, <2>2 DEF Saved
  <2>4. row.native = next
    BY <2>2 DEF DiagnosisTask
  <2> QED BY <1>2, <2>3, <2>4 DEF Learns, Contradicts
<1> QED BY <1>1, <1>2

LEMMA StopLearns ==
  ASSUME DiagnosisInv, NEW h \in Handler, Stop(h)
  PROVE  KnowledgeGrows
<1>t. DiagnosisTypeOK
  BY DEF DiagnosisInv
<1>w. work[h] # Nil /\ work[h].at = "stop"
  BY DEF Stop
<1>i. PICK t \in Task : t = work[h].task
  BY <1>w, AtWork
<1>o. PICK old \in DiagnosisTask : old = tasks[t] /\ old # Nil
  BY <1>w, <1>i, AtWork
<1>1. HandlerIsSound(work[h], old, sent[t])
  BY <1>w, <1>i, <1>o, AtWork
<1>2. old.native # Nil
  BY <1>w, <1>1 DEF HandlerIsSound
<1>3. PICK n \in NativeTask : n = old.native
  BY <1>2 DEF DiagnosisTask
<1>4. PICK e \in BOOLEAN : e = (n.cancelSent \/ n.taskId)
  BY DEF NativeTask
<1>5. PICK m \in NativeTask : m = [n EXCEPT !.cancelRequested = TRUE, !.cancelSent = e, !.phase = "hold"]
  BY DEF NativeTask
<1>6. m.cancelRequested = TRUE /\ m.cancelSent = e /\ m.claim = n.claim /\ m.taskId = n.taskId
  BY <1>5 DEF NativeTask
<1>7. PICK r \in DiagnosisTask : r = [old EXCEPT !.status = "unknown", !.recheck = "not_requested", !.native = m]
  BY DEF DiagnosisTask, Known
<1>8. r.native = m
  BY <1>7 DEF DiagnosisTask
<1>9. Cancelled(old) = IF n.receipt # Nil THEN old ELSE r
  BY <1>3, <1>4, <1>5, <1>7 DEF Cancelled
<1>10. n.receipt = Nil => Learns(old, r)
  BY <1>3, <1>4, <1>6, <1>8 DEF Learns
<1>11. Learns(old, old)
  BY DEF Learns
<1>12. tasks' = [tasks EXCEPT ![t] = Cancelled(old)]
  BY <1>i, <1>o DEF Stop
<1> QED BY <1>t, <1>o, <1>9, <1>10, <1>11, <1>12, RowLearns

LEMMA SaveLearns ==
  ASSUME DiagnosisInv, NEW h \in Handler, Save(h) \/ Hold(h)
  PROVE  KnowledgeGrows
<1>t. DiagnosisTypeOK
  BY DEF DiagnosisInv
<1>w. work[h] # Nil /\ work[h].at \in {"save", "hold"}
  BY DEF Save, Hold
<1>i. PICK t \in Task : t = work[h].task
  BY <1>w, AtWork
<1>v. PICK v \in HeldByHandler : v = work[h]
  BY <1>w, AtWork
<1>o. PICK old \in DiagnosisTask : old = tasks[t] /\ old # Nil
  BY <1>w, <1>i, AtWork
<1>1. HandlerIsSound(v, old, sent[t])
  BY <1>w, <1>i, <1>v, <1>o, AtWork
<1>2. old.native # Nil /\ v.held # Nil /\ (v.at = "save" => v.status # Nil)
  BY <1>w, <1>v, <1>1 DEF HandlerIsSound
<1>3. PICK n \in NativeTask, k \in NativeTask : n = old.native /\ k = v.held
  BY <1>2 DEF HeldByHandler, DiagnosisTask
<1>4. ASSUME NEW next \in NativeTask, NEW status \in Known,
             tasks' = IF Refused(t, next, status) THEN tasks ELSE [tasks EXCEPT ![t] = Saved(@, next, status)]
      PROVE  KnowledgeGrows
  <2>1. CASE Refused(t, next, status)
    BY <1>4, <2>1 DEF KnowledgeGrows
  <2>2. CASE ~Refused(t, next, status)
    <3>1. ~Contradicts(old.native, next)
      BY <2>2, <1>o DEF Refused
    <3>2. Learns(old, Saved(old, next, status))
      BY <3>1, <1>3, SavedLearns
    <3>3. tasks' = [tasks EXCEPT ![t] = Saved(old, next, status)]
      BY <1>4, <2>2, <1>o
    <3> QED BY <1>t, <1>o, <3>2, <3>3, RowLearns
  <2> QED BY <2>1, <2>2
<1>5. CASE Save(h)
  <2>1. PICK status \in Known : status = v.status
    BY <1>2, <1>5, <1>v DEF HeldByHandler, Save
  <2> QED BY <1>4, <1>5, <1>i, <1>v, <1>3, <2>1 DEF Save
<1>6. CASE Hold(h)
  <2>1. PICK next \in NativeTask : next = [k EXCEPT !.phase = "hold"]
    BY DEF NativeTask
  <2>2. "unknown" \in Known
    BY DEF Known
  <2> QED BY <1>4, <1>6, <1>i, <1>v, <1>3, <2>1, <2>2 DEF Hold
<1> QED BY <1>5, <1>6

LEMMA MarksLearn ==
  ASSUME DiagnosisInv, NEW h \in Handler, MarkRecheck(h) \/ MarkDispatch(h)
  PROVE  KnowledgeGrows
<1>t. DiagnosisTypeOK
  BY DEF DiagnosisInv
<1>w. work[h] # Nil /\ work[h].at \notin {"intent", "post"}
  BY DEF MarkRecheck, MarkDispatch
<1>i. PICK t \in Task : t = work[h].task
  BY <1>w, AtWork
<1>o. PICK old \in DiagnosisTask : old = tasks[t] /\ old # Nil
  BY <1>w, <1>i, AtWork
<1>1. HandlerIsSound(work[h], old, sent[t]) /\ RowIsSound(old, sent[t])
  BY <1>w, <1>i, <1>o, AtWork
<1>2. old.native # Nil
  BY <1>w, <1>1 DEF HandlerIsSound
<1>3. PICK n \in NativeTask : n = old.native
  BY <1>2 DEF DiagnosisTask
<1>4. CASE MarkRecheck(h)
  <2>1. PICK again : tasks' = [tasks EXCEPT ![t].recheck = again]
    BY <1>4, <1>i, <1>o DEF MarkRecheck
  <2>2. PICK row : row = [old EXCEPT !.recheck = again]
    OBVIOUS
  <2>3. row.native = n /\ row.status = old.status
    BY <2>2, <1>3 DEF DiagnosisTask
  <2>4. Learns(old, row)
    BY <2>3, <1>3 DEF Learns
  <2> QED BY <1>t, <1>o, <2>1, <2>2, <2>4, RowLearns
<1>5. CASE MarkDispatch(h)
  <2>1. CASE tasks' = tasks
    BY <2>1 DEF KnowledgeGrows
  <2>2. CASE tasks' = [tasks EXCEPT ![t].dispatch = "sent"]
    <3>1. PICK row : row = [old EXCEPT !.dispatch = "sent"]
      OBVIOUS
    <3>2. row.native = n /\ row.status = old.status
      BY <3>1, <1>3 DEF DiagnosisTask
    <3>3. Learns(old, row)
      BY <3>2, <1>3 DEF Learns
    <3> QED BY <1>t, <1>o, <2>2, <3>1, <3>3, RowLearns
  <2>3. CASE /\ old.dispatch = "pending"
             /\ tasks' = [tasks EXCEPT ![t] = DispatchLost(old)]
    <3>1. PICK m \in NativeTask : m = [n EXCEPT !.phase = "hold"]
      BY DEF NativeTask
    <3>2. /\ m.taskId = n.taskId /\ m.claim = n.claim /\ m.cancelSent = n.cancelSent
          /\ m.cancelRequested = n.cancelRequested /\ n.receipt = Nil
      BY <3>1, <2>3, <1>1, <1>2, <1>3 DEF NativeTask, RowIsSound
    <3>3. PICK row \in DiagnosisTask : row = [old EXCEPT !.dispatch = "unknown", !.status = "unknown", !.native = m]
      BY DEF DiagnosisTask, Known
    <3>4. row.native = m
      BY <3>3 DEF DiagnosisTask
    <3>5. tasks' = [tasks EXCEPT ![t] = row]
      <4>1. DispatchLost(old) = row
        BY <1>3, <3>1, <3>3 DEF DispatchLost
      <4> QED BY <2>3, <4>1
    <3>6. Learns(old, row)
      BY <3>2, <3>4, <1>3 DEF Learns
    <3> QED BY <1>t, <1>o, <3>5, <3>6, RowLearns
  <2> QED BY <1>5, <1>i, <1>o, <2>1, <2>2, <2>3 DEF MarkDispatch
<1> QED BY <1>4, <1>5

\* What a task knows of its operation is never taken back, whatever the steps.
LEMMA KnowledgeSteps == DiagnosisInv /\ [DiagnosisNext]_diagnosisVars => [KnowledgeGrows]_diagnosisVars
<1> SUFFICES ASSUME DiagnosisInv, DiagnosisNext PROVE KnowledgeGrows
  BY DEF diagnosisVars
<1>t. DiagnosisTypeOK
  BY DEF DiagnosisInv
<1>1. CASE UNCHANGED tasks
  BY <1>1 DEF KnowledgeGrows
<1>2. ASSUME NEW h \in Handler, Create(h) PROVE KnowledgeGrows
  BY <1>2, <1>t, RowLearns DEF Create
<1>3. ASSUME NEW h \in Handler, Intent(h) PROVE KnowledgeGrows
  <2>1. work[h] # Nil
    BY <1>3 DEF Intent
  <2>2. PICK t \in Task : t = work[h].task
    BY <2>1, AtWork
  <2>3. tasks[t].native = Nil /\ \E row : tasks' = [tasks EXCEPT ![t] = row]
    BY <1>3, <2>2 DEF Intent
  <2> QED BY <1>t, <2>2, <2>3, RowLearns DEF Learns
<1>4. ASSUME NEW h \in Handler,
             PostTask(h) \/ ReadTask(h) \/ Fetch(h) \/ Evaluate(h) \/ Recheck(h) \/ HandlerDies(h)
      PROVE  UNCHANGED tasks
  BY <1>4 DEF PostTask, ReadTask, Fetch, Evaluate, Recheck, HandlerDies
<1>5. ASSUME NEW t \in Task, Expire(t) \/ Serve(t)
      PROVE  UNCHANGED tasks
  BY <1>5 DEF Expire, Serve
<1> QED BY <1>1, <1>2, <1>3, <1>4, <1>5, StopLearns, SaveLearns, MarksLearn DEF DiagnosisNext

THEOREM KnowledgeKept == DiagnosisSpec => KnowledgeIsKept
BY DiagnosisInvariant, KnowledgeSteps, PTL DEF DiagnosisSpec, KnowledgeIsKept

----------------------------------------------------------------------------
(* Both of the accounts' jobs, which keep states of their own. *)

\* In every state: what research shows it has earned, one diagnosis of a target is open,
\* and a recheck is asked for once.
THEOREM WorkIsSound == Ux1Spec /\ DiagnosisSpec => []WorkHolds
BY ResearchEarned, OneDiagnosis, RechecksAreEarned, PTL DEF WorkHolds

\* In every step: a job ends once, and what is known of a diagnosis is never taken back.
THEOREM WorkOnlyMovesOn == Ux1Spec /\ DiagnosisSpec => WorkMovesOn
BY JobsEndOnce, KnowledgeKept DEF WorkMovesOn

-----------------------------------------------------------------------------
(* The stop of longbridge/hk, for any requests, identities, runs and window.      *)

Undecided == {"dispatching", "accepted", "rejected", "unknown"}

\* A handler that dispatches or records, and a run at work, have a claimed request.
ClaimedFirst ==
  /\ \A r \in Requests : handler[r] \in Undecided => Claimed(r)
  /\ \A r \in Requests : handler[r] = "claiming" => seen[r] \in Live
  /\ \A u \in Runs : runOf[u] # NoRun => runOf[u] \in Requests /\ Claimed(runOf[u])

StopInv == StopTypeOK /\ ClaimedFirst /\ OneStopAtATime

Started == {"reserved", "unknown", "accepted", "stopped"}

----------------------------------------------------------------------------
(* Rows change one at a time *)

\* Rewriting one claimed row keeps the tables typed and, unless the row starts to
\* block, one stop at a time.
LEMMA RewriteRow ==
  ASSUME StopInv, NEW r \in Requests, Claimed(r), NEW row \in Row,
         row.phase \in Started => Blocking(r),
         rows' = [rows EXCEPT ![r] = row]
  PROVE  /\ rows' \in [Requests -> Row \cup {NoStop}]
         /\ \A q \in Requests : Claimed(q) => Claimed(q)'
         /\ OneStopAtATime'
<1>1. rows' \in [Requests -> Row \cup {NoStop}] /\ rows'[r] = row
  BY DEF StopInv, StopTypeOK
<1>2. \A q \in Requests \ {r} : rows'[q] = rows[q]
  BY DEF StopInv, StopTypeOK
<1>3. row # NoStop
  BY StopRows
<1>4. \A q \in Requests : Blocking(q)' => Blocking(q)
  BY <1>1, <1>2 DEF Blocking, Claimed, Started
<1>5. \A q \in Requests : Claimed(q) => Claimed(q)'
  BY <1>1, <1>2, <1>3 DEF Claimed
<1>6. OneStopAtATime'
  BY <1>4 DEF StopInv, OneStopAtATime
<1> QED BY <1>1, <1>5, <1>6

\* The rows a command writes are rows.
LEMMA WrittenRows ==
  ASSUME StopTypeOK, NEW row \in Row
  PROVE  /\ \A phase \in {"accepted", "rejected", "unknown"} :
              [row EXCEPT !.phase = phase] \in Row
         /\ \A result \in Result :
              [row EXCEPT !.phase = "stopped",
                          !.result = [run |-> result.run, observed |-> result.observed]] \in Row
<1>1. \A phase \in {"accepted", "rejected", "unknown"} : [row EXCEPT !.phase = phase] \in Row
  BY DEF Row
<1>2. \A result \in Result :
        [row EXCEPT !.phase = "stopped",
                    !.result = [run |-> result.run, observed |-> result.observed]] \in Row
  BY DEF Row, Result
<1> QED BY <1>1, <1>2

LEMMA InitStopInv == StopInit => StopInv
<1> SUFFICES ASSUME StopInit PROVE StopInv
  OBVIOUS
<1>1. StopTypeOK
  BY DEF StopInit, StopTypeOK, Live, Result
<1>2. \A r \in Requests : ~Claimed(r)
  BY DEF StopInit, Claimed
<1>3. ClaimedFirst
  BY DEF StopInit, ClaimedFirst, Undecided
<1>4. OneStopAtATime
  BY <1>2 DEF OneStopAtATime, Blocking
<1> QED BY <1>1, <1>3, <1>4 DEF StopInv

----------------------------------------------------------------------------
(* The steps *)

LEMMA ReadAccountPreserves ==
  ASSUME StopInv, NEW r \in Requests, ReadAccount(r) PROVE StopInv'
<1> USE DEF StopInv, ReadAccount
<1>1. StopTypeOK'
  BY DEF StopTypeOK
<1>2. ClaimedFirst'
  BY DEF StopTypeOK, ClaimedFirst, Undecided, Claimed
<1>3. OneStopAtATime'
  BY DEF OneStopAtATime, Blocking, Claimed
<1> QED BY <1>1, <1>2, <1>3

LEMMA ClaimPreserves ==
  ASSUME StopInv, NEW r \in Requests, ClaimStop(r) PROVE StopInv'
<1> USE DEF StopInv
<1>1. seen[r] \in Live
  BY DEF ClaimStop, ClaimedFirst
<1>2. CASE ~Claimed(r) /\ seen[r] = live /\ \A q \in Requests : ~Blocking(q)
  <2>1. NewRow(seen[r]) \in Row /\ NewRow(seen[r]) # NoStop
    BY <1>1, StopRows DEF NewRow, Row, Live, StopTypeOK
  <2>2. rows' = [rows EXCEPT ![r] = NewRow(seen[r])]
    BY <1>2 DEF ClaimStop
  <2>3. \A q \in Requests : rows'[q] = IF q = r THEN NewRow(seen[r]) ELSE rows[q]
    BY <2>2 DEF StopTypeOK
  <2>4. StopTypeOK'
    BY <1>2, <2>1, <2>2 DEF ClaimStop, StopTypeOK
  <2>5. \A q \in Requests : Claimed(q)' <=> Claimed(q) \/ q = r
    BY <2>1, <2>3 DEF Claimed
  <2>6. ClaimedFirst'
    BY <1>2, <2>5 DEF ClaimStop, ClaimedFirst, StopTypeOK, Undecided
  <2>7. \A q \in Requests : Blocking(q)' => q = r
    BY <1>2, <2>3 DEF Blocking, Claimed
  <2> QED BY <2>4, <2>6, <2>7 DEF OneStopAtATime
<1>3. CASE ~(~Claimed(r) /\ seen[r] = live /\ \A q \in Requests : ~Blocking(q))
  <2>1. rows' = rows /\ handler' = [handler EXCEPT ![r] = "done"]
    BY <1>3 DEF ClaimStop
  <2>2. StopTypeOK'
    BY <2>1 DEF ClaimStop, StopTypeOK
  <2>3. ClaimedFirst'
    BY <2>1 DEF ClaimStop, ClaimedFirst, StopTypeOK, Undecided, Claimed
  <2> QED BY <2>1, <2>2, <2>3 DEF OneStopAtATime, Blocking, Claimed
<1> QED BY <1>2, <1>3

LEMMA DispatchPreserves ==
  ASSUME StopInv, NEW r \in Requests, Dispatch(r) PROVE StopInv'
<1> USE DEF StopInv
<1>1. PICK outcome \in {"accepted", "rejected", "unknown"} :
        /\ handler' = [handler EXCEPT ![r] = outcome]
        /\ \/ UNCHANGED runOf
           \/ \E u \in Runs : runOf' = [runOf EXCEPT ![u] = r]
  BY DEF Dispatch
<1>2. Claimed(r) /\ UNCHANGED <<live, rows, seen, results, stopNow>>
  BY DEF Dispatch, ClaimedFirst, Undecided
<1>3. StopTypeOK'
  BY <1>1, <1>2 DEF StopTypeOK
<1>4. ClaimedFirst'
  BY <1>1, <1>2 DEF StopTypeOK, ClaimedFirst, Undecided, Claimed
<1> QED BY <1>2, <1>3, <1>4 DEF OneStopAtATime, Blocking, Claimed

LEMMA RecordPreserves ==
  ASSUME StopInv, NEW r \in Requests, StopRecord(r) PROVE StopInv'
<1> USE DEF StopInv
<1>1. Claimed(r) /\ rows[r] \in Row
  BY DEF StopRecord, ClaimedFirst, Undecided, StopTypeOK, Claimed
<1>2. UNCHANGED <<live, seen, runOf, results, stopNow>>
  BY DEF StopRecord
<1>3. handler' = [handler EXCEPT ![r] = "done"]
  BY DEF StopRecord
<1>4. /\ rows' \in [Requests -> Row \cup {NoStop}]
      /\ \A q \in Requests : Claimed(q) => Claimed(q)'
      /\ OneStopAtATime'
  <2>1. CASE rows[r].phase = "reserved"
    <3> DEFINE row == [rows[r] EXCEPT !.phase = handler[r]]
    <3>1. handler[r] \in {"accepted", "rejected", "unknown"}
      BY DEF StopRecord
    <3>2. row \in Row
      BY <1>1, <3>1, WrittenRows
    <3>3. rows' = [rows EXCEPT ![r] = row]
      BY <2>1, <1>1 DEF StopRecord, StopTypeOK
    <3>4. Blocking(r)
      BY <1>1, <2>1 DEF Blocking
    <3> HIDE DEF row
    <3> QED BY <1>1, <3>2, <3>3, <3>4, RewriteRow
  <2>2. CASE rows[r].phase # "reserved"
    <3>1. rows' = rows
      BY <2>2 DEF StopRecord
    <3> QED BY <3>1 DEF StopTypeOK, OneStopAtATime, Blocking, Claimed
  <2> QED BY <2>1, <2>2
<1>5. StopTypeOK'
  BY <1>2, <1>3, <1>4 DEF StopTypeOK
<1>6. ClaimedFirst'
  BY <1>2, <1>3, <1>4 DEF ClaimedFirst, StopTypeOK, Undecided
<1> QED BY <1>4, <1>5, <1>6

LEMMA AcceptResultPreserves ==
  ASSUME StopInv, NEW result \in results, AcceptResult(result) PROVE StopInv'
<1> USE DEF StopInv
<1> DEFINE r == result.request
           row == [rows[r] EXCEPT !.phase = "stopped",
                     !.result = [run |-> result.run, observed |-> result.observed]]
<1>1. result \in Result /\ r \in Requests
  BY DEF StopTypeOK, Result
<1>2. Claimed(r) /\ rows[r] \in Row
  BY <1>1 DEF AcceptResult, StopTypeOK, Claimed
<1>3. Blocking(r)
  BY <1>2 DEF AcceptResult, Blocking
<1>4. row \in Row
  BY <1>1, <1>2, WrittenRows
<1>5. rows' = [rows EXCEPT ![r] = row]
  BY <1>1, <1>2 DEF AcceptResult, StopTypeOK
<1>6. UNCHANGED <<live, handler, seen, runOf, results, stopNow>>
  BY DEF AcceptResult
<1> HIDE DEF row, r
<1>7. /\ rows' \in [Requests -> Row \cup {NoStop}]
      /\ \A q \in Requests : Claimed(q) => Claimed(q)'
      /\ OneStopAtATime'
  BY <1>1, <1>2, <1>3, <1>4, <1>5, RewriteRow
<1>8. StopTypeOK'
  BY <1>6, <1>7 DEF StopTypeOK
<1>9. ClaimedFirst'
  BY <1>6, <1>7 DEF ClaimedFirst, StopTypeOK
<1> QED BY <1>7, <1>8, <1>9

\* Steps that leave the requests and their handlers alone.
LEMMA ElsewherePreserves ==
  ASSUME StopInv, UNCHANGED <<rows, handler, seen>>,
         live' \in Live, stopNow' \in Nat, results' \subseteq Result,
         runOf' \in [Runs -> Requests \cup {NoRun}],
         \A u \in Runs : runOf'[u] # NoRun =>
           \E v \in Runs : runOf[v] # NoRun /\ runOf'[u] = runOf[v]
  PROVE  StopInv'
<1> USE DEF StopInv
<1>1. StopTypeOK'
  BY DEF StopTypeOK
<1>2. ClaimedFirst'
  BY DEF ClaimedFirst, Claimed
<1>3. OneStopAtATime'
  BY DEF OneStopAtATime, Blocking, Claimed
<1> QED BY <1>1, <1>2, <1>3

LEMMA NextStopInv == StopInv /\ [StopNext]_stopVars => StopInv'
<1> SUFFICES ASSUME StopInv, [StopNext]_stopVars PROVE StopInv'
  OBVIOUS
<1>0. StopTypeOK /\ ClaimedFirst
  BY DEF StopInv
<1>1. ASSUME NEW r \in Requests, ReadAccount(r) \/ ClaimStop(r) \/ Dispatch(r) \/ StopRecord(r)
      PROVE  StopInv'
  BY <1>1, ReadAccountPreserves, ClaimPreserves, DispatchPreserves, RecordPreserves
<1>2. ASSUME NEW u \in Runs, Redispatch(u) PROVE StopInv'
  <2>1. PICK v \in Runs : runOf[v] # NoRun /\ runOf' = [runOf EXCEPT ![u] = runOf[v]]
    BY <1>2 DEF Redispatch
  <2>2. /\ runOf' \in [Runs -> Requests \cup {NoRun}]
        /\ \A w \in Runs : runOf'[w] = runOf[IF w = u THEN v ELSE w]
    BY <2>1, <1>0 DEF StopTypeOK
  <2>3. UNCHANGED <<live, rows, handler, seen, results, stopNow>>
    BY <1>2 DEF Redispatch
  <2> QED BY <1>0, <2>2, <2>3, ElsewherePreserves DEF StopTypeOK
<1>3. ASSUME NEW u \in Runs, NEW observed \in 0..(stopNow + Skew + 1), Post(u, observed)
      PROVE  StopInv'
  <2>1. runOf[u] \in Requests /\ rows[runOf[u]] \in Row
    BY <1>0, <1>3 DEF Post, ClaimedFirst, StopTypeOK, Claimed
  <2>2. observed \in Int
    OBVIOUS
  <2>3. [request |-> runOf[u], run |-> u, identity |-> rows[runOf[u]].identity,
         revision |-> rows[runOf[u]].revision, observed |-> observed] \in Result
    BY <2>1, <2>2 DEF Result, Row
  <2>4. results' \subseteq Result
    BY <1>0, <1>3, <2>3 DEF Post, StopTypeOK
  <2>5. UNCHANGED <<live, rows, handler, seen, runOf, stopNow>>
    BY <1>3 DEF Post
  <2> QED BY <1>0, <2>4, <2>5, ElsewherePreserves DEF StopTypeOK
<1>4. ASSUME NEW result \in results, AcceptResult(result) PROVE StopInv'
  BY <1>4, AcceptResultPreserves
<1>5. ASSUME NEW i \in Identities, ChangeRegistry(i) PROVE StopInv'
  <2>1. live' \in Live
    BY <1>0, <1>5 DEF ChangeRegistry, StopTypeOK, Live
  <2>2. UNCHANGED <<rows, handler, seen, runOf, results, stopNow>>
    BY <1>5 DEF ChangeRegistry
  <2> QED BY <1>0, <2>1, <2>2, ElsewherePreserves DEF StopTypeOK
<1>6. CASE StopTick
  <2>1. stopNow' \in Nat /\ UNCHANGED <<live, rows, handler, seen, runOf, results>>
    BY <1>0, <1>6 DEF StopTick, StopTypeOK
  <2> QED BY <1>0, <2>1, ElsewherePreserves DEF StopTypeOK
<1>7. CASE UNCHANGED stopVars
  <2>1. UNCHANGED <<live, rows, handler, seen, runOf, results, stopNow>>
    BY <1>7 DEF stopVars
  <2> QED BY <1>0, <2>1, ElsewherePreserves DEF StopTypeOK
<1> QED BY <1>1, <1>2, <1>3, <1>4, <1>5, <1>6, <1>7 DEF StopNext

----------------------------------------------------------------------------
\* The strengthened invariant of the stop requests.
THEOREM StopInvariant == StopSpec => []StopInv
<1> QED BY InitStopInv, NextStopInv, PTL DEF StopSpec

\* Type correctness of the stop requests, handlers and posted results.
THEOREM StopTypeCorrect == StopSpec => []StopTypeOK
<1>1. StopInv => StopTypeOK
  BY DEF StopInv
<1> QED BY <1>1, StopInvariant, PTL

\* hk_stop_claim reserves a stop only while no other one is undecided or
\* confirmed, for any number of operators, tabs and retries.
THEOREM StopsOneAtATime == StopSpec => []OneStopAtATime
<1>1. StopInv => OneStopAtATime
  BY DEF StopInv
<1> QED BY <1>1, StopInvariant, PTL

\* What one step does to the row of a claimed request: nothing, the handler's
\* outcome on a reserved row, or the confirmation by a fresh result.
LEMMA RowStep ==
  ASSUME StopInv, [StopNext]_stopVars, NEW r \in Requests, Claimed(r)
  PROVE  \/ rows'[r] = rows[r]
         \/ /\ rows[r].phase = "reserved"
            /\ rows'[r].phase \in {"accepted", "rejected", "unknown"}
         \/ /\ rows[r].phase # "stopped"
            /\ live.identity = rows[r].identity
            /\ rows'[r].result.observed >= rows[r].requested
<1>0. StopTypeOK /\ rows[r] \in Row
  BY DEF StopInv, StopTypeOK, Claimed
<1>1. ASSUME NEW q \in Requests, ClaimStop(q) PROVE rows'[r] = rows[r]
  BY <1>0, <1>1 DEF ClaimStop, StopTypeOK
<1>2. ASSUME NEW q \in Requests, StopRecord(q)
      PROVE  \/ rows'[r] = rows[r]
             \/ /\ rows[r].phase = "reserved"
                /\ rows'[r].phase \in {"accepted", "rejected", "unknown"}
  <2>1. CASE q = r /\ rows[q].phase = "reserved"
    <3>1. rows' = [rows EXCEPT ![r].phase = handler[r]]
      BY <1>2, <2>1 DEF StopRecord
    <3>2. rows'[r].phase = handler[r]
      BY <1>0, <3>1 DEF StopTypeOK, Row
    <3> QED BY <1>2, <2>1, <3>2 DEF StopRecord
  <2>2. CASE ~(q = r /\ rows[q].phase = "reserved")
    BY <1>0, <1>2, <2>2 DEF StopRecord, StopTypeOK
  <2> QED BY <2>1, <2>2
<1>3. ASSUME NEW result \in results, AcceptResult(result)
      PROVE  \/ rows'[r] = rows[r]
             \/ /\ rows[r].phase # "stopped"
                /\ live.identity = rows[r].identity
                /\ rows'[r].result.observed >= rows[r].requested
  <2>1. CASE result.request = r
    <3>1. rows' = [rows EXCEPT ![r].phase = "stopped",
                     ![r].result = [run |-> result.run, observed |-> result.observed]]
      BY <1>3, <2>1 DEF AcceptResult
    <3>2. rows'[r].result.observed = result.observed
      BY <1>0, <3>1 DEF StopTypeOK, Row
    <3>3. rows[r].requested <= result.observed
      BY <1>3, <2>1 DEF AcceptResult, Fresh
    <3>4. rows[r].requested \in Int /\ result.observed \in Int
      BY <1>0 DEF StopTypeOK, Row, Result
    <3>5. rows[r].phase # "stopped" /\ live.identity = rows[r].identity
      BY <1>3, <2>1 DEF AcceptResult
    <3> QED BY <3>2, <3>3, <3>4, <3>5
  <2>2. CASE result.request # r
    BY <1>0, <1>3, <2>2 DEF AcceptResult, StopTypeOK
  <2> QED BY <2>1, <2>2
<1>4. CASE rows' = rows
  BY <1>4
<1> QED BY <1>1, <1>2, <1>3, <1>4
        DEF StopNext, ReadAccount, Dispatch, Redispatch, Post, ChangeRegistry, StopTick, stopVars

\* A confirmed stop and its result are never overwritten, neither by the dispatch
\* outcome that hk_stop_record brings late nor by a further result.
THEOREM StoppedStays == StopSpec => StoppedIsFinal
<1>1. StopInv /\ [StopNext]_stopVars =>
        [\A r \in Requests :
           Claimed(r) /\ rows[r].phase = "stopped" => rows'[r] = rows[r]]_stopVars
  BY RowStep
<1> QED BY <1>1, StopInvariant, PTL DEF StopSpec, StoppedIsFinal

\* hk_stop_accept_result confirms a stop only on a readback taken after the
\* request, and only while the instance is the one that was to be stopped.
THEOREM ConfirmedInPlace == StopSpec => ConfirmedWhereItWasRequested
<1>1. StopInv /\ [StopNext]_stopVars =>
        [\A r \in Requests :
           Claimed(r) /\ rows[r].phase # "stopped" /\ rows'[r].phase = "stopped" =>
             /\ live.identity = rows[r].identity
             /\ rows'[r].result.observed >= rows[r].requested]_stopVars
  BY RowStep
<1> QED BY <1>1, StopInvariant, PTL DEF StopSpec, ConfirmedWhereItWasRequested
=============================================================================
