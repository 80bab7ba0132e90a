--------------------------- MODULE AccountSettings ---------------------------
(***************************************************************************)
(* The registry of runtime instances and the settings of its accounts:     *)
(* drafts, declarations, the risk profile authority, and the approval and  *)
(* the claim of a change of strategy profile.  The state lives in one      *)
(* Durable Object whose commands are transactions; the HTTP handlers read  *)
(* it, read other things, and then send a command, so several of them can  *)
(* be between their read and their command at the same time.               *)
(***************************************************************************)
EXTENDS Integers, FiniteSets, Functions

CONSTANTS
  Existing,        \* keys of the accounts of the imported configuration
  DraftKey,        \* keys an administrator may create
  FixedHk,         \* the only account whose profile a workflow may claim
  Target,          \* target names
  Profile,         \* strategy profiles that may be selected (none is a DCA profile)
  Preference,      \* risk preferences
  Request, Run,    \* request keys of approvals, runs of the workflow
  Page,         \* HTTP requests in progress
  Field, Value,    \* fields of a draft's overrides, and what they are set to
  Declaration,     \* what an administrator declares of an account
  Change,          \* the changes an administrator sends: records with a field has,
                   \* the names of the other fields that mean something
  LegacyStates,    \* what the KV record of risk profiles can be at the start
  TargetOf,        \* the target of each imported account
  MaxRegistry, MaxDraft, MaxRisk,  \* bounds on the three revisions
  None

Key == Existing \cup DraftKey
Environment == {"paper", "live"}

\* The import refuses two accounts with one target.
ASSUME SettingsTargets ==
  /\ TargetOf \in [Existing -> Target]
  /\ \A k, l \in Existing : TargetOf[k] = TargetOf[l] => k = l

Patches == UNION {[F -> Value \cup {None}] : F \in SUBSET Field}
Bindings == UNION {[D -> Preference] : D \in SUBSET Target}

ASSUME SettingsInputs ==
  /\ "strategy_profile" \in Field /\ Profile \subseteq Value
  /\ \A c \in Change :
       /\ "patch" \in c.has => c.patch \in Patches
       /\ "declaration" \in c.has => c.declaration \in Declaration
       /\ "risk" \in c.has => c.risk \in Preference \cup {"clear"}
  /\ \A l \in LegacyStates : l.state \in {"absent", "blocked"} \/ l.bindings \in Bindings

\* The rows the commands write, and what a request holds between its read and its
\* command.
IdentityRow == [target : Target, environment : Environment \cup {None}]
Instance ==
  [kind : {"existing", "draft"}, target : Target, environment : Environment \cup {None},
   retired : BOOLEAN, overlay : {"enabled", "disabled"}]
DraftRow ==
  [revision : Nat \ {0}, identity : IdentityRow,
   overrides : UNION {[F -> Value] : F \in SUBSET Field}]
DeclarationRow == [revision : Nat \ {0}, identity : IdentityRow, value : Declaration]
AuthorityRow == [revision : Nat, bindings : Bindings]
ApplicationRow ==
  [status : {"approved", "invalidated", "claimed"}, key : Key, identity : IdentityRow,
   instance : Nat, draft : Nat, old : Profile, new : Profile, run : Run \cup {None}]
SavePage ==
  [step : {"save"}, key : Key, change : Change, identity : IdentityRow,
   draft : DraftRow \cup {None}, declaration : DeclarationRow \cup {None}, authority : AuthorityRow]
ReplacePage == [step : {"replace"}, bindings : Bindings, authority : AuthorityRow]
MirrorPage == [step : {"mirror"}, bindings : Bindings]
ApprovalPage ==
  [step : {"readback", "approve"}, request : Request, key : Key, identity : IdentityRow,
   instance : Nat, draft : Nat, old : Profile, new : Profile]
ClaimPage == [step : {"claim"}, request : Request, run : Run]

ASSUME SettingsNulls ==
  /\ None \notin Instance /\ None \notin DraftRow /\ None \notin DeclarationRow
  /\ None \notin AuthorityRow /\ None \notin ApplicationRow
  /\ None \notin SavePage /\ None \notin ReplacePage /\ None \notin MirrorPage
  /\ None \notin ApprovalPage /\ None \notin ClaimPage

VARIABLES
  registry,      \* [revision, initialized, items]: instance_state
  drafts,        \* [Key -> None or row]: account_setting_draft
  declarations,  \* [Key -> None or row]: account_setting_declaration
  authority,     \* None or [revision, bindings]: risk_profile_authority
  kv,            \* [state, bindings]: the KV record of risk profiles
  applications,  \* [Request -> None or row]: account_setting_profile_application
  pages       \* [Page -> None or what the request holds]

settingsVars == <<registry, drafts, declarations, authority, kv, applications, pages>>
settings == <<drafts, declarations, authority, applications>>

NoBinding == [t \in {} |-> None]

SettingsTypeOK ==
  /\ registry \in [revision : Nat, initialized : BOOLEAN, items : [Key -> Instance \cup {None}]]
  /\ drafts \in [Key -> DraftRow \cup {None}]
  /\ declarations \in [Key -> DeclarationRow \cup {None}]
  /\ authority \in AuthorityRow \cup {None}
  /\ kv.state \in {"absent", "blocked"} \/ kv.bindings \in Bindings
  /\ applications \in [Request -> ApplicationRow \cup {None}]
  /\ pages \in [Page -> SavePage \cup ReplacePage \cup MirrorPage \cup ApprovalPage \cup ClaimPage
                       \cup {None}]

SettingsInit ==
  /\ registry = [revision |-> 0, initialized |-> FALSE, items |-> [k \in Key |-> None]]
  /\ drafts = [k \in Key |-> None]
  /\ declarations = [k \in Key |-> None]
  /\ authority = None
  /\ kv \in LegacyStates
  /\ applications = [r \in Request |-> None]
  /\ pages = [h \in Page |-> None]

----------------------------------------------------------------------------
(* The registry.  A command carries the revision its page has shown; one    *)
(* that is not the current revision is refused, so a command that changes   *)
(* something has seen the state it changes.                                 *)

Conflict(k, target) ==
  \E other \in Key :
    /\ registry.items[other] # None
    /\ other = k \/ registry.items[other].target = target

EditConflict(k, target) ==
  \E other \in Key \ {k} :
    registry.items[other] # None /\ registry.items[other].target = target

Commit(items, initialized) ==
  /\ registry.revision < MaxRegistry
  /\ registry' = [revision |-> registry.revision + 1, initialized |-> initialized, items |-> items]
  /\ UNCHANGED <<settings, kv, pages>>

Initialize ==
  /\ ~registry.initialized
  /\ Commit([k \in Key |-> IF k \in Existing
        THEN [kind |-> "existing", target |-> TargetOf[k], environment |-> None,
              retired |-> FALSE, overlay |-> "disabled"]
        ELSE None], TRUE)

CreateInstance(k, target) ==
  /\ registry.initialized /\ ~Conflict(k, target)
  /\ Commit([registry.items EXCEPT ![k] =
        [kind |-> "draft", target |-> target, environment |-> None,
         retired |-> FALSE, overlay |-> "disabled"]], TRUE)

EditInstance(k, target) ==
  /\ registry.initialized
  /\ registry.items[k] # None /\ registry.items[k].kind = "draft" /\ ~registry.items[k].retired
  /\ ~EditConflict(k, target)
  /\ Commit([registry.items EXCEPT ![k].target = target], TRUE)

RequestRetirement(k) ==
  /\ registry.initialized
  /\ registry.items[k] # None /\ ~registry.items[k].retired
  /\ Commit([registry.items EXCEPT ![k].retired = TRUE], TRUE)

SetBrokerEnvironment(k, environment) ==
  /\ registry.initialized
  /\ registry.items[k] # None /\ registry.items[k].kind = "existing"
  /\ registry.items[k].environment # environment
  /\ Commit([registry.items EXCEPT ![k].environment = environment], TRUE)

\* After a dispatch of settings: its inputs become the defaults of the account;
\* this command carries no revision.
SyncDefaults(k, overlay) ==
  /\ registry.initialized
  /\ registry.items[k] # None /\ registry.items[k].kind = "existing"
  /\ registry.items[k].overlay # overlay
  /\ Commit([registry.items EXCEPT ![k].overlay = overlay], TRUE)

----------------------------------------------------------------------------
(* What the commands of the object read and write.                          *)

AccountExists(k) ==
  /\ registry.initialized
  /\ registry.items[k] # None /\ registry.items[k].kind = "existing"

Identity(k) ==
  [target |-> registry.items[k].target, environment |-> registry.items[k].environment]

IdentityIsComplete(id) == id.environment \in Environment

Status(row, k) ==
  CASE row = None -> "empty"
    [] row # None /\ row.identity # Identity(k) -> "identity_conflict"
    [] OTHER -> "current"

Revision(row) == IF row = None THEN 0 ELSE row.revision

\* What the first command that touches the authority imports; None: it is refused.
Ensured(legacy) ==
  CASE authority # None -> authority
    [] authority = None /\ legacy.state = "blocked" -> None
    [] authority = None /\ legacy.state = "absent" -> [revision |-> 0, bindings |-> NoBinding]
    [] OTHER -> [revision |-> 0, bindings |-> legacy.bindings]

Targets ==
  {registry.items[k].target : k \in {x \in Key : registry.items[x] # None /\ registry.items[x].kind = "existing"}}

\* What a command that stores these bindings over row can leave.  A fresh binding
\* has its own time of update, and is equal to a stored one only within one second.
Written(row, bindings, fresh) ==
  {[revision |-> row.revision + n, bindings |-> bindings] :
     n \in IF bindings # row.bindings THEN {1} ELSE IF fresh THEN {0, 1} ELSE {0}}

WithoutTarget(bindings, target) == Restrict(bindings, DOMAIN bindings \ {target})
WithTarget(bindings, target, preference) ==
  [t \in DOMAIN bindings \cup {target} |-> IF t = target THEN preference ELSE bindings[t]]

\* A patch deletes the fields it sets to None.
Overridden(current, patch) ==
  [f \in {x \in DOMAIN current \cup DOMAIN patch : x \in DOMAIN patch => patch[x] # None} |->
     IF f \in DOMAIN patch THEN patch[f] ELSE current[f]]

----------------------------------------------------------------------------
(* Saving settings: read, check, command; then the KV mirror.  A change has *)
(* a patch of the draft, a declaration, a change of the risk preference, or *)
(* several of them, and is stored as a whole or not at all.                 *)

\* h observes the account; the page has shown the same revisions and identity.
SaveRead(h, k, change) ==
  /\ pages[h] = None
  /\ AccountExists(k)
  /\ Ensured(kv) # None
  /\ authority' = Ensured(kv)
  /\ pages' = [pages EXCEPT ![h] =
       [step |-> "save", key |-> k, change |-> change, identity |-> Identity(k),
        draft |-> drafts[k], declaration |-> declarations[k], authority |-> Ensured(kv)]]
  /\ UNCHANGED <<registry, drafts, declarations, kv, applications>>

Drop(h) == pages' = [pages EXCEPT ![h] = None]

\* The command is refused, or the request is lost: nothing is written.
GiveUp(h) ==
  /\ pages[h] # None
  /\ Drop(h)
  /\ UNCHANGED <<registry, settings, kv>>

\* The draft row after the patch of p: a draft of another identity is started again.
DraftAcceptsAnyRevision(p) ==
  Status(drafts[p.key], p.key) = "identity_conflict" => p.change.acknowledged

DraftAccepts(p) ==
  /\ Revision(p.draft) = Revision(drafts[p.key])
  /\ Status(drafts[p.key], p.key) = "identity_conflict" => p.change.acknowledged

DraftAfter(p) ==
  LET row == drafts[p.key]
      base == IF Status(row, p.key) = "current" THEN row.overrides ELSE [f \in {} |-> None]
      overrides == Overridden(base, p.change.patch)
  IN IF Status(row, p.key) = "current" /\ overrides = row.overrides
     THEN row
     ELSE [revision |-> Revision(row) + 1, identity |-> p.identity, overrides |-> overrides]

DeclarationAccepts(p) ==
  /\ Revision(p.declaration) = Revision(declarations[p.key])
  /\ Status(declarations[p.key], p.key) # "identity_conflict"

DeclarationAfter(p) ==
  LET row == declarations[p.key]
  IN IF Status(row, p.key) = "current" /\ row.value = p.change.declaration
     THEN row
     ELSE [revision |-> Revision(row) + 1, identity |-> p.identity, value |-> p.change.declaration]

RiskAccepts(p) ==
  /\ p.authority.revision = authority.revision
  /\ p.identity.target \in Targets

BindingsAfter(p) ==
  IF p.change.risk = "clear"
  THEN WithoutTarget(authority.bindings, p.identity.target)
  ELSE WithTarget(authority.bindings, p.identity.target, p.change.risk)

SaveSettings(h) ==
  LET p == pages[h]
      has == p.change.has
  IN /\ p # None /\ p.step = "save"
     /\ AccountExists(p.key)
     /\ p.identity = Identity(p.key)
     /\ "declaration" \in has => DeclarationAccepts(p)
     /\ "patch" \in has => DraftAccepts(p)
     /\ "risk" \in has => RiskAccepts(p)
     /\ declarations' = IF "declaration" \in has
          THEN [declarations EXCEPT ![p.key] = DeclarationAfter(p)] ELSE declarations
     /\ drafts' = IF "patch" \in has THEN [drafts EXCEPT ![p.key] = DraftAfter(p)] ELSE drafts
     /\ \A k \in Key : Revision(drafts'[k]) <= MaxDraft /\ Revision(declarations'[k]) <= MaxDraft
     /\ IF "risk" \in has
        THEN /\ authority' \in Written(authority, BindingsAfter(p), p.change.risk # "clear")
             /\ authority'.revision <= MaxRisk
             /\ pages' = [pages EXCEPT ![h] = [step |-> "mirror", bindings |-> BindingsAfter(p)]]
        ELSE UNCHANGED authority /\ Drop(h)
     /\ UNCHANGED <<registry, kv, applications>>

\* The pages that show settings or risk profiles read with the KV record.
ReadSettings ==
  /\ Ensured(kv) # None
  /\ authority' = Ensured(kv)
  /\ UNCHANGED <<registry, drafts, declarations, kv, applications, pages>>

\* The page of all risk profiles replaces every binding at once.
ReplaceRead(h, bindings) ==
  /\ pages[h] = None
  /\ Ensured(kv) # None
  /\ authority' = Ensured(kv)
  /\ DOMAIN bindings \subseteq Targets
  /\ pages' = [pages EXCEPT ![h] =
       [step |-> "replace", bindings |-> bindings, authority |-> Ensured(kv)]]
  /\ UNCHANGED <<registry, drafts, declarations, kv, applications>>

ReplaceBindings(h) ==
  LET p == pages[h]
  IN /\ p # None /\ p.step = "replace"
     /\ p.authority.revision = authority.revision
     /\ DOMAIN p.bindings \subseteq Targets
     /\ authority' \in Written(authority, p.bindings, DOMAIN p.bindings # {})
     /\ authority'.revision <= MaxRisk
     /\ pages' = [pages EXCEPT ![h] = [step |-> "mirror", bindings |-> p.bindings]]
     /\ UNCHANGED <<registry, drafts, declarations, kv, applications>>

\* A failed write of the mirror is not reported: GiveUp.
Mirror(h) ==
  /\ pages[h] # None /\ pages[h].step = "mirror"
  /\ kv' = [state |-> "valid", bindings |-> pages[h].bindings]
  /\ Drop(h)
  /\ UNCHANGED <<registry, settings>>

----------------------------------------------------------------------------
(* The approval of a profile and its claim by the workflow.                 *)

\* A read of the account that is not given the KV record, as the handlers of
\* approvals, of claims and of the run controls make it.
ReadWithoutLegacy == authority' = Ensured([state |-> "absent"])

\* The draft asks for exactly this profile.
DraftIsOnly(k, revision, profile) ==
  /\ Status(drafts[k], k) = "current"
  /\ drafts[k].revision = revision
  /\ drafts[k].overrides = [f \in {"strategy_profile"} |-> profile]

\* The run controls of the console read the account and show what may be done.
ReadControls(k) ==
  /\ AccountExists(k)
  /\ ReadWithoutLegacy
  /\ UNCHANGED <<registry, drafts, declarations, kv, applications, pages>>

\* No row has the key: the account is read and checked, then the runtime's
\* variables; a request key that is known is answered without a write.
ApproveRead(h, r, k, old, new, revision) ==
  /\ pages[h] = None
  /\ applications[r] = None
  /\ AccountExists(k)
  /\ ReadWithoutLegacy
  /\ IF IdentityIsComplete(Identity(k)) /\ old # new /\ DraftIsOnly(k, revision, new)
     THEN pages' = [pages EXCEPT ![h] =
            [step |-> "readback", request |-> r, key |-> k, identity |-> Identity(k),
             instance |-> registry.revision, draft |-> revision, old |-> old, new |-> new]]
     ELSE UNCHANGED pages
  /\ UNCHANGED <<registry, drafts, declarations, kv, applications>>

\* The variables of the runtime answer that it is disabled and runs the old profile;
\* they belong to the platform, any other answer ends the request: GiveUp.
ApproveReadback(h) ==
  /\ pages[h] # None /\ pages[h].step = "readback"
  /\ pages' = [pages EXCEPT ![h].step = "approve"]
  /\ UNCHANGED <<registry, settings, kv>>

\* Approvals of the account that are about another state of it are invalidated first.
Stale(row, p) ==
  \/ row.identity # p.identity \/ row.instance # p.instance \/ row.draft # p.draft
  \/ row.old # p.old \/ row.new # p.new

AfterInvalidation(p) ==
  [r \in Request |->
     IF applications[r] # None
     THEN IF applications[r].key = p.key /\ applications[r].status = "approved" /\ Stale(applications[r], p)
          THEN [applications[r] EXCEPT !.status = "invalidated"]
          ELSE applications[r]
     ELSE None]

OpenApplication(row) == row # None /\ row.status \in {"approved", "claimed"}

PendingUnclaimed(rest, k) ==
  \E r \in Request : rest[r] # None /\ rest[r].key = k /\ rest[r].status = "approved"

Pending(rest, k) == \E r \in Request : OpenApplication(rest[r]) /\ rest[r].key = k

Approve(h) ==
  LET p == pages[h]
      rest == AfterInvalidation(p)
  IN /\ p # None /\ p.step = "approve"
     /\ applications[p.request] = None
     /\ AccountExists(p.key)
     /\ registry.revision = p.instance /\ Identity(p.key) = p.identity
     /\ DraftIsOnly(p.key, p.draft, p.new)
     /\ ~Pending(rest, p.key)
     /\ applications' = [rest EXCEPT ![p.request] =
          [status |-> "approved", key |-> p.key, identity |-> p.identity, instance |-> p.instance,
           draft |-> p.draft, old |-> p.old, new |-> p.new, run |-> None]]
     /\ Drop(h)
     /\ UNCHANGED <<registry, drafts, declarations, authority, kv>>

\* The workflow shows its token; the row and the account are checked, then the
\* runtime as above.
ClaimRead(h, r, run) ==
  LET row == applications[r]
  IN /\ pages[h] = None
     /\ row # None /\ row.key = FixedHk /\ row.status = "approved"
     /\ AccountExists(row.key)
     /\ ReadWithoutLegacy
     /\ IF /\ registry.revision = row.instance /\ Identity(row.key) = row.identity
           /\ DraftIsOnly(row.key, row.draft, row.new)
        THEN pages' = [pages EXCEPT ![h] = [step |-> "claim", request |-> r, run |-> run]]
        ELSE UNCHANGED pages
     /\ UNCHANGED <<registry, drafts, declarations, kv, applications>>

\* A claim of a claimed row is answered, or refused, without a write: GiveUp.
Claim(h) ==
  LET p == pages[h]
      row == applications[p.request]
  IN /\ p # None /\ p.step = "claim"
     /\ row.status = "approved"
     /\ AccountExists(row.key)
     /\ registry.revision = row.instance /\ Identity(row.key) = row.identity
     /\ DraftIsOnly(row.key, row.draft, row.new)
     /\ applications' = [applications EXCEPT ![p.request].status = "claimed", ![p.request].run = p.run]
     /\ Drop(h)
     /\ UNCHANGED <<registry, drafts, declarations, authority, kv>>

----------------------------------------------------------------------------
RegistryStep ==
  \/ Initialize
  \/ \E k \in DraftKey, t \in Target : CreateInstance(k, t) \/ EditInstance(k, t)
  \/ \E k \in Key : RequestRetirement(k)
  \/ \E k \in Key, e \in Environment : SetBrokerEnvironment(k, e)
  \/ \E k \in Key, o \in {"enabled", "disabled"} : SyncDefaults(k, o)

SettingsStep ==
  \/ ReadSettings
  \/ \E h \in Page :
       \/ \E k \in Key, c \in Change : SaveRead(h, k, c)
       \/ SaveSettings(h) \/ Mirror(h) \/ GiveUp(h)
       \/ \E D \in SUBSET Target : \E b \in [D -> Preference] : ReplaceRead(h, b)
       \/ ReplaceBindings(h)

ProfileStep ==
  \/ \E k \in Key : ReadControls(k)
  \/ \E h \in Page, r \in Request :
       \/ \E k \in Key, old, new \in Profile, n \in 1..MaxDraft : ApproveRead(h, r, k, old, new, n)
       \/ \E run \in Run : ClaimRead(h, r, run)
  \/ \E h \in Page : ApproveReadback(h) \/ Approve(h) \/ Claim(h)

SettingsNext == RegistryStep \/ SettingsStep \/ ProfileStep

SettingsSpec == SettingsInit /\ [][SettingsNext]_settingsVars
----------------------------------------------------------------------------
\* No two instances share a key or a target, whatever was imported, created and
\* edited in which order (runtimeInstanceConflict and the import's own check).
EachTargetOnce ==
  \A k, l \in Key :
    k # l /\ registry.items[k] # None /\ registry.items[l] # None
      => registry.items[k].target # registry.items[l].target

\* An account has at most one profile application that is approved or claimed,
\* although approvals race and stale ones are invalidated by the next one.
OneOpenApplication ==
  \A q, r \in Request :
    OpenApplication(applications[q]) /\ OpenApplication(applications[r]) /\ applications[q].key = applications[r].key => q = r

\* A revision stands for a content: as long as the draft has the revision an
\* application names, it holds that identity and asks for that profile alone.
\* The claim compares revisions and relies on this.
RevisionMeansContent ==
  \A r \in Request :
    LET row == applications[r]
    IN row # None =>
         LET draft == drafts[row.key]
         IN Revision(draft) = row.draft =>
              /\ draft.identity = row.identity
              /\ draft.overrides = [f \in {"strategy_profile"} |-> row.new]

\* Whoever overwrites a draft, a declaration or the risk bindings has seen exactly
\* what it overwrites: no update is lost between the read of a request and its
\* command, although other requests write in between.
OverwritesAsSeen ==
  /\ \A k \in Key :
       /\ drafts'[k] # drafts[k] =>
            \E h \in Page : /\ pages[h] # None /\ pages[h].step = "save"
                            /\ pages[h].key = k /\ pages[h].draft = drafts[k]
       /\ declarations'[k] # declarations[k] =>
            \E h \in Page : /\ pages[h] # None /\ pages[h].step = "save"
                            /\ pages[h].key = k /\ pages[h].declaration = declarations[k]
  /\ authority # None /\ authority' # authority =>
       \E h \in Page : /\ pages[h] # None /\ pages[h].step \in {"save", "replace"}
                       /\ pages[h].authority = authority

\* No step overwrites what it has not seen (the variables that a request changes are
\* those of settingsVars).
SavedAsSeen == [][OverwritesAsSeen]_settingsVars

\* What was approved never changes, and an application only goes from approved to
\* claimed or to invalidated: a claimed one keeps the run that claimed it.
ApplicationsOnlyAdvance ==
  [][\A r \in Request :
       applications[r] # None =>
         /\ applications'[r] # None
         /\ [applications'[r] EXCEPT !.status = "approved", !.run = None]
              = [applications[r] EXCEPT !.status = "approved", !.run = None]
         /\ applications[r].status # "approved" => applications'[r] = applications[r]]_settingsVars

\* What holds of the registry and the settings in every state.
SettingsHold == EachTargetOnce /\ OneOpenApplication /\ RevisionMeansContent
=============================================================================
