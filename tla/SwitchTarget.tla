---------------------------- MODULE SwitchTarget ----------------------------
(***************************************************************************)
(* The target of a switch: build_runtime_switch.py builds it from a        *)
(* request and the service inventory in force, runtime_settings.py         *)
(* validates it, and the inventory it carries replaces the one it was      *)
(* built from, before the next switch, stop or local target.               *)
(*                                                                         *)
(* An inventory entry holds the controls of its service beside env or      *)
(* within it.  A fingerprint is the target it is taken of.  Only what a    *)
(* check relates to something else is kept of a target; the shape of a     *)
(* field (a date, a digest, an identifier) is right or in "faults".        *)
(***************************************************************************)
EXTENDS Integers, Sequences, SequencesExt, FiniteSets

CONSTANTS
  Catalogue,     \* strategy profiles, as platform-config.json has them
  SwitchRequests,      \* arguments of the builder
  LocalTargets,  \* targets kept in files, validated before they are applied
  Inventories,   \* service inventories to begin with
  LivePlatforms, \* platforms configured for live execution
  Nobody         \* an absent field

VARIABLES
  inventory,   \* the service inventory in force
  published    \* a local target that was accepted
targetVars == <<inventory, published>>

Names == {"enabled", "dca", "exit", "cash", "dry", "snapshot"}
\* _preserve_reserved_cash_fields
Preserved == {"enabled", "dca", "exit", "cash"}
Blank == [n \in Names |-> Nobody]
Over(f, g) == [n \in Names |-> IF g[n] # Nobody THEN g[n] ELSE f[n]]

-----------------------------------------------------------------------------
(* The runtime target.                                                     *)

Dca(profile) == Catalogue[profile].dca # "none"
Ibit(profile) == Catalogue[profile].dca = "exit"
Fingerprint(t) == [t EXCEPT !.continuity = Nobody]

\* Only mounts that are there already, and of this strategy, are carried over.
Mounts(r) == IF r.plugins = "current" THEN r.mounts ELSE <<>>
MountsAllowed(r) ==
  /\ r.plugins \in {"none", "auto", "current"}
  /\ \A i \in DOMAIN Mounts(r) : r.mounts[i].strategy = r.profile

\* A mounted plugin of the strategy may replace the scheduler; the last one does.
SchedulerOf(profile, mounts) ==
  FoldLeft(LAMBDA s, m : IF m.strategy = profile /\ m.enabled /\ m.plugin \in DOMAIN Catalogue[profile].overrides
                         THEN Catalogue[profile].overrides[m.plugin] ELSE s,
           Catalogue[profile].scheduler, mounts)

\* What _build_runtime_target refuses: an unknown strategy, a historical paper
\* request out of its scope, DCA where it has no adapter, and a baseline for
\* anything but a live target.
Describable(r) ==
  /\ r.profile \in DOMAIN Catalogue
  /\ r.mode = "paper" /\ Catalogue[r.profile].modes # {} => "paper" \in Catalogue[r.profile].modes
  /\ Dca(r.profile) => r.platform \in {"longbridge", "ibkr", "schwab", "firstrade"}
  /\ r.continuity # "NONE" => r.mode = "live" /\ r.baseline

\* The scheduler is set again once the mounts are known, after the baseline's
\* fingerprint has been taken.
RuntimeTarget(r) ==
  LET bare == [platform |-> r.platform, profile |-> r.profile, service |-> r.service, scope |-> r.scope,
               mode |-> IF r.mode = "live" THEN "live" ELSE "paper", dry |-> r.mode # "live",
               scheduler |-> SchedulerOf(r.profile, <<>>), market |-> Catalogue[r.profile].market,
               data |-> r.data, domain |-> Nobody, release |-> Nobody, continuity |-> Nobody]
      kept == [state |-> r.continuity, kind |-> "legacy_authorized", baseline |-> bare]
  IN  [bare EXCEPT !.scheduler = SchedulerOf(r.profile, Mounts(r)),
                   !.continuity = IF r.continuity = "NONE" THEN Nobody ELSE kept]

-----------------------------------------------------------------------------
(* The controls of a request.                                              *)

\* The DCA controls of any other strategy are emptied; the exit of ibit_smart_dca is
\* derived from its plugin and its mode, and emptied for the others.
DcaControls(r) ==
  IF ~Dca(r.profile) THEN [Blank EXCEPT !.dca = ""] ELSE [Blank EXCEPT !.dca = r.dca]
EffectiveDca(r) == IF r.dca = Nobody THEN "fixed" ELSE r.dca
ExitControls(r) ==
  [Blank EXCEPT !.exit = IF ~Ibit(r.profile) THEN ""
                         ELSE IF r.plugins = "current" /\ EffectiveDca(r) = "smart" THEN "true" ELSE "false"]
\* An explicit snapshot wins over the catalogue's; path and manifest come together.
SnapshotOf(r) == IF r.snapshot # Nobody THEN r.snapshot ELSE Catalogue[r.profile].artifact
SnapshotAllowed(r) ==
  /\ Catalogue[r.profile].snapshot = "none" => SnapshotOf(r) = ""
  /\ SnapshotOf(r) # "path only"
  /\ Catalogue[r.profile].snapshot = "required" => SnapshotOf(r) # ""
ControlsAllowed(r) ==
  /\ r.direct = {}                                  \* variables that only controls may set
  /\ r.option # "enabled"
  /\ ~Dca(r.profile) => r.dca = Nobody
  /\ SnapshotAllowed(r)
Controls(r) ==
  LET own == [Blank EXCEPT !.cash = r.cash, !.snapshot = SnapshotOf(r),
                           !.dry = IF r.mode = "live" THEN "false" ELSE "true"]
  IN  Over(Over(own, DcaControls(r)), ExitControls(r))

-----------------------------------------------------------------------------
(* The inventory.                                                          *)

\* _service_target_identity
ServicesOf(e) == {e.service, e.label, IF e.target = Nobody THEN Nobody ELSE e.target.service} \ {Nobody}
ScopesOf(e) == {e.group, IF e.target = Nobody THEN Nobody ELSE e.target.scope} \ {Nobody}

\* select_service_target_entry_index: by service; an entry without one by its
\* account scope, unless a new entry may be created.  More than one is refused.
Selected(r, list) ==
  LET byService == {i \in DOMAIN list : r.service \in ServicesOf(list[i])}
      byScope == {i \in DOMAIN list : ServicesOf(list[i]) = {} /\ r.scope \in ScopesOf(list[i])}
  IN  IF byService # {} THEN byService ELSE IF r.create THEN {} ELSE byScope

EntryOf(r) == [service |-> r.service, label |-> Nobody, group |-> IF r.platform = "ibkr" THEN r.scope ELSE Nobody,
               target |-> RuntimeTarget(r), mounts |-> Mounts(r), top |-> Controls(r), env |-> Nobody]

\* _preserve_reserved_cash_fields, and the source shape is kept: where the entry has
\* env, everything but its structure goes there.
Patched(e, new) ==
  LET kept == [n \in Names |-> IF n \in Preserved /\ new.top[n] = Nobody THEN e.top[n] ELSE new.top[n]]
      renewed == [e EXCEPT !.service = new.service, !.target = new.target, !.mounts = new.mounts,
                           !.group = IF new.group # Nobody THEN new.group ELSE @]
  IN  IF e.env # Nobody THEN [renewed EXCEPT !.env = Over(e.env, kept)]
      ELSE [renewed EXCEPT !.top = Over(e.top, kept)]

Placeable(r) ==
  /\ Cardinality(Selected(r, inventory)) <= 1
  /\ Selected(r, inventory) = {} => r.create
PatchedInventory(r) ==
  LET chosen == Selected(r, inventory) IN
  IF chosen = {} THEN Append(inventory, EntryOf(r))
  ELSE [i \in DOMAIN inventory |-> IF i \in chosen THEN Patched(inventory[i], EntryOf(r)) ELSE inventory[i]]

\* validate_service_inventory: every entry of what is written is named
EveryEntryNamed(list) == \A i \in DOMAIN list : ServicesOf(list[i]) # {}

-----------------------------------------------------------------------------
(* The validators of a target, whoever made it.                            *)

\* effective_execution_mode: the deployed no-order envelope is a dry run
EffectiveMode(t) == IF t.dry /\ t.mode \in {"paper", "dry_run"} THEN "dry_run" ELSE t.mode

DomainAgrees(t) ==
  t.domain # Nobody =>
    /\ t.domain.platform = t.platform
    /\ <<t.domain.capital, t.domain.environment>> \in {<<"FTMO_SIMULATED", "DEMO">>, <<"OWN_REAL", "LIVE">>}
    /\ ~t.dry => t.mode = IF t.domain.capital = "OWN_REAL" THEN "live" ELSE "paper"

\* Artifact modes carry an artifact and never LEGACY assurance; a required one is verified.
DataIsBound(t) ==
  t.data # Nobody =>
    IF t.data.mode = "legacy_runtime_fetch"
    THEN ~t.data.artifact /\ t.data.assurance = "LEGACY"
    ELSE /\ t.data.artifact /\ t.data.assurance # "LEGACY"
         /\ t.data.mode = "artifact_required" => t.data.assurance = "VERIFIED"

ContinuityHolds(t) ==
  t.continuity # Nobody =>
    /\ t.continuity.baseline = Fingerprint(t)
    /\ t.continuity.kind = "release_attested" => t.release # Nobody

\* validate_live_ibkr_us_scheduler and the market of the strategy's domain
ScheduleFits(t) ==
  /\ t.platform = "ibkr" /\ t.mode = "live" /\ ~t.dry /\ t.market = "US" => t.scheduler # "every day"
  /\ t.profile \in DOMAIN Catalogue => t.market = Catalogue[t.profile].market

\* validate_runtime_target_strategy_policy; it has nothing to say of a strategy that
\* is not in the catalogue.
Frozen(t) ==
  Catalogue[t.profile].frozen
    /\ ~(/\ EffectiveMode(t) = "live" /\ t.continuity # Nobody /\ ContinuityHolds(t)
         /\ t.continuity.state \in {"RECONCILE_ONLY", "RISK_REDUCTION_ONLY"})
PolicyAllows(t) ==
  t.profile \in DOMAIN Catalogue =>
    LET s == Catalogue[t.profile]  mode == EffectiveMode(t) IN
    /\ t.platform \in s.platforms
    /\ mode = "live" => t.platform \in LivePlatforms
    /\ ~Frozen(t)
    /\ s.modes # {} /\ t.continuity = Nobody => mode \in s.modes
    /\ mode = "live" => IF t.continuity # Nobody THEN t.platform \in s.continuity
                        ELSE s.live /\ "live" \in s.modes

\* Execution mode and dry run agree, and every part of the target does.
RuntimeTargetValid(t) ==
  /\ t.mode = "live" => ~t.dry
  /\ t.mode = "dry_run" => t.dry
  /\ DomainAgrees(t) /\ DataIsBound(t) /\ ContinuityHolds(t) /\ ScheduleFits(t) /\ PolicyAllows(t)

\* Plugins cannot request live execution; a strategy may require one.
MountsValid(t, mounts) ==
  /\ \A i \in DOMAIN mounts : mounts[i].expects \in {"dry_run", "paper", "shadow"}
  /\ t.profile \in DOMAIN Catalogue =>
       \A p \in Catalogue[t.profile].required :
         \E i \in DOMAIN mounts : mounts[i].strategy = t.profile /\ mounts[i].plugin = p /\ mounts[i].enabled

\* validate_target.  The dry-run variable agrees with the target, and none of the
\* variables, nor a key of the inventory, has a fault: a generated, research-only
\* or secret name, two lines, an option that is on, the same name in both scopes.
Valid(target) ==
  /\ RuntimeTargetValid(target.runtime)
  /\ MountsValid(target.runtime, target.mounts)
  /\ target.dry \in {Nobody, IF target.runtime.dry THEN "true" ELSE "false"}
  /\ target.faults = {}

-----------------------------------------------------------------------------
(* Steps.                                                                  *)

Built(r) == [runtime |-> RuntimeTarget(r), mounts |-> Mounts(r), dry |-> Controls(r).dry, faults |-> r.faults]

\* build_switch_target, and the workflow applies what it built
Switch(r) ==
  /\ Describable(r) /\ MountsAllowed(r) /\ ControlsAllowed(r) /\ Placeable(r)
  /\ EveryEntryNamed(PatchedInventory(r))
  /\ Valid(Built(r))
  /\ inventory' = PatchedInventory(r)
  /\ published' = Nobody

\* A local target; its variables leave the inventory alone, so that it is enough to
\* publish one before anything is switched.
PublishLocal(target) ==
  /\ inventory \in Inventories /\ published = Nobody
  /\ Valid(target)
  /\ published' = target
  /\ UNCHANGED inventory

\* build_stop_assignments on the entry of a service.  IBKR's place in effect is
\* written, the others prefer the entry's own; only two platforms are enabled so.
Turn(service, on) ==
  \E i \in DOMAIN inventory :
    LET e == inventory[i] IN
    /\ ServicesOf(e) = {service} /\ e.target # Nobody
    /\ on = "true" => e.target.platform \in {"ibkr", "schwab"}
    /\ inventory' = [inventory EXCEPT ![i] =
                       IF /\ e.target.platform = "ibkr" /\ e.top.enabled = Nobody
                          /\ e.env # Nobody /\ e.env.enabled # Nobody
                       THEN [e EXCEPT !.env.enabled = on] ELSE [e EXCEPT !.top.enabled = on]]
    /\ published' = Nobody

TargetInit == inventory \in Inventories /\ published = Nobody
TargetNext ==
  \/ \E r \in SwitchRequests : Switch(r)
  \/ \E t \in LocalTargets : PublishLocal(t)
  \/ \E service \in {r.service : r \in SwitchRequests}, on \in {"true", "false"} : Turn(service, on)

-----------------------------------------------------------------------------
(* Properties.                                                             *)

\* What a deployment takes from an entry: beside env before within it.
Effective(e, n) == IF e.top[n] \notin {Nobody, ""} THEN e.top[n]
                   ELSE IF e.env # Nobody /\ e.env[n] \notin {Nobody, ""} THEN e.env[n] ELSE ""

\* Whatever was switched and stopped before: in an entry ibit's exit runs only with
\* the smart mode of that very strategy, no other strategy keeps DCA controls, the
\* dry-run flag is its target's own, and nothing but the stop switch has a second,
\* stale copy; no service has two entries.
Coherent(list) ==
  \A i \in DOMAIN list :
    LET e == list[i] IN
    /\ Effective(e, "exit") = "true" =>
         Effective(e, "dca") = "smart" /\ e.target # Nobody /\ Ibit(e.target.profile)
    /\ e.target # Nobody =>
         /\ Effective(e, "dca") # "" => Dca(e.target.profile)
         /\ Effective(e, "dry") # "" => (Effective(e, "dry") = "true") = e.target.dry
    /\ e.env # Nobody => \A n \in Names \ {"enabled"} : e.top[n] = Nobody
    /\ \A j \in DOMAIN list : ServicesOf(list[j]) \cap ServicesOf(e) # {} => i = j
EntriesCohere == Coherent(inventory)

\* A live target is accepted, and stays in force, only for a strategy that may go
\* live, or for one whose baseline is the very target accepted.
Earned(t) ==
  t.profile \in DOMAIN Catalogue /\ EffectiveMode(t) = "live" =>
    LET s == Catalogue[t.profile] IN
    IF t.continuity = Nobody THEN s.live /\ ~s.frozen
    ELSE /\ t.platform \in s.continuity
         /\ [t EXCEPT !.continuity = Nobody] = t.continuity.baseline
         /\ s.frozen => t.continuity.state \in {"RECONCILE_ONLY", "RISK_REDUCTION_ONLY"}
AllEarned(list) == \A i \in DOMAIN list : list[i].target # Nobody => Earned(list[i].target)
LiveIsEarned == (published # Nobody => Earned(published.runtime)) /\ AllEarned(inventory)

\* A writer changes one entry.  A stop or an enable leaves its target and every other
\* control in effect; after a switch every control it asks for is in effect, the
\* others stay so, and a service that was stopped is still stopped.
StepIsExact ==
  LET changed == {i \in DOMAIN inventory : inventory'[i] # inventory[i]}
      added == {i \in DOMAIN inventory' : i > Len(inventory)}
      Becomes(i, asked) ==
        \A n \in Names : Effective(inventory'[i], n) = IF asked[n] # Nobody THEN asked[n]
                                                       ELSE Effective(inventory[i], n)
  IN  /\ Cardinality(changed \cup added) <= 1
      /\ \A i \in changed :
           \/ /\ inventory'[i].target = inventory[i].target
              /\ \E on \in {"true", "false"} : Becomes(i, [Blank EXCEPT !.enabled = on])
           \/ \E r \in SwitchRequests :
                /\ inventory'[i].target.profile = r.profile /\ ServicesOf(inventory[i]) \subseteq {r.service}
                /\ inventory'[i].target = RuntimeTarget(r) /\ Becomes(i, Controls(r))

-----------------------------------------------------------------------------
(* The inventories to begin with are such as the builder leaves behind: an *)
(* entry names one service, and what a switch relies on holds of it.       *)

SettingValues ==
  {Nobody, "", "true", "false", "smart"} \cup {r.dca : r \in SwitchRequests} \cup {r.cash : r \in SwitchRequests}
    \cup {r.snapshot : r \in SwitchRequests} \cup {Catalogue[p].artifact : p \in DOMAIN Catalogue}
Settings == [Names -> SettingValues]
IsEntry(e) ==
  /\ e = [service |-> e.service, label |-> e.label, group |-> e.group, target |-> e.target,
          mounts |-> e.mounts, top |-> e.top, env |-> e.env]
  /\ e.top \in Settings /\ e.env \in Settings \cup {Nobody}
  /\ e.top["enabled"] \in {Nobody, "true", "false"}
  /\ \A s, t \in ServicesOf(e) : s = t
WellKept(list) ==
  /\ Len(list) \in Nat /\ list = [i \in 1 .. Len(list) |-> list[i]]
  /\ \A i \in 1 .. Len(list) : IsEntry(list[i])
  /\ Coherent(list) /\ AllEarned(list)
ASSUME TargetAssumption ==
  /\ Nobody \notin {"", "true", "false", "smart"} /\ Nobody \notin Settings
  /\ \A r \in SwitchRequests : Describable(r) => RuntimeTarget(r) # Nobody
  /\ \A list \in Inventories : WellKept(list)
=============================================================================
