--------------------------- MODULE ModelProfiles ---------------------------
(***************************************************************************)
(* ModelManager, ProviderManager and the failover of providers (backend/   *)
(* platform/model_manager.py, provider_manager.py, failover_manager.py).   *)
(* Registering a profile writes all its fields in one transaction; a model *)
(* that is registered as the default takes the default from all others     *)
(* first.  A caller may register any profile: a model that was the default *)
(* as one that is not, a degraded provider as healthy (the values that the *)
(* fields have by themselves).  Toggling a profile, or flagging a provider *)
(* as degraded, reads the profile outside the lock, changes a field or two *)
(* of the copy and registers the copy.                                     *)
(***************************************************************************)
CONSTANTS Models, Providers, Editors, NoProfile

ASSUME ProfileAssumption ==
    NoProfile \notin Models \cup Providers /\ Models \cap Providers = {}

VARIABLES models,          \* platform_models: active and default
          providers,       \* platform_providers: active and degraded
          editor,          \* where each editor is: which profile it has read
          draft,           \* its copy, with its change
          outdated,        \* history: the editors whose row was written since they read it
          undone,          \* history: the profiles such an editor has written since
          chosen,          \* history: the default, as the callers have registered it
          failing          \* history: the degraded providers, as callers and failures have it

profileVars == <<models, providers, editor, draft, outdated, undone, chosen, failing>>

ModelRow == [active : BOOLEAN, default : BOOLEAN]
ProviderRow == [active : BOOLEAN, degraded : BOOLEAN]
Profiles == Models \cup Providers
NoDraft == [active |-> TRUE, degraded |-> FALSE]

ProfileTypeOK ==
    /\ models \in [Models -> ModelRow]
    /\ providers \in [Providers -> ProviderRow]
    /\ editor \in [Editors -> Profiles \cup {NoProfile}]
    /\ draft \in [Editors -> ModelRow \cup ProviderRow]
    /\ outdated \subseteq Editors
    /\ undone \subseteq Profiles
    /\ chosen \in Models \cup {NoProfile}
    /\ failing \subseteq Providers

\* The seeds: everything active, one model the default.
ProfileInit ==
    /\ chosen \in Models
    /\ models = [m \in Models |-> [active |-> TRUE, default |-> m = chosen]]
    /\ providers = [p \in Providers |-> [active |-> TRUE, degraded |-> FALSE]]
    /\ editor = [e \in Editors |-> NoProfile]
    /\ draft = [e \in Editors |-> NoDraft]
    /\ outdated = {} /\ undone = {} /\ failing = {}

\* An editor has read a profile and has a copy of it, c.
Holds(e, p, c) ==
    /\ editor[e] = NoProfile
    /\ editor' = [editor EXCEPT ![e] = p]
    /\ draft' = [draft EXCEPT ![e] = c]
    /\ UNCHANGED <<models, providers, outdated, undone, chosen, failing>>

\* Faulty variant: the defaults before stay.
KeepDefaults(m, row) == [models EXCEPT ![m] = row]

\* register_model: UPDATE ... SET is_default = 0 if the profile is the default,
\* then the row, in one transaction.
Registered(m, row) ==
    [n \in Models |->
        IF n = m THEN row
        ELSE IF row.default THEN [models[n] EXCEPT !.default = FALSE] ELSE models[n]]

\* The models whose rows that writes.
Written(m, row) == IF row.default THEN Models ELSE {m}

\* Who has read one of the profiles ps has an old copy from now on.
Overtaken(ps) == outdated \cup {e \in Editors : editor[e] \in ps}

\* A caller registers a model as it wants it, as the default or not.
RegisterModel(m, row) ==
    /\ models' = Registered(m, row)
    /\ outdated' = Overtaken(Written(m, row))
    /\ undone' = undone \ Written(m, row)
    /\ chosen' = IF row.default THEN m ELSE IF chosen = m THEN NoProfile ELSE chosen
    /\ UNCHANGED <<providers, editor, draft, failing>>

\* A caller registers a provider as it wants it, healthy or not.
RegisterProvider(p, row) ==
    /\ providers' = [providers EXCEPT ![p] = row]
    /\ outdated' = Overtaken({p})
    /\ undone' = undone \ {p}
    /\ failing' = IF row.degraded THEN failing \cup {p} ELSE failing \ {p}
    /\ UNCHANGED <<models, editor, draft, chosen>>

\* Faulty variant: a profile that carries what is toggled and no more.
DraftModel(e, m, b) == Holds(e, m, [active |-> b, default |-> FALSE])

\* ModelManager.set_active_status: get_model ...
ReadModel(e, m, b) == Holds(e, m, [models[m] EXCEPT !.active = b])

\* An editor is through; what it wrote with an old copy is marked.
WritesBack(e, ps) ==
    /\ editor' = [editor EXCEPT ![e] = NoProfile]
    /\ draft' = [draft EXCEPT ![e] = NoDraft]
    /\ outdated' = Overtaken(ps) \ {e}
    /\ undone' = IF e \in outdated THEN undone \cup ps ELSE undone

\* ... and register_model with the copy.
WriteModel(e) ==
    /\ editor[e] \in Models
    /\ models' = Registered(editor[e], draft[e])
    /\ WritesBack(e, Written(editor[e], draft[e]))
    /\ UNCHANGED <<providers, chosen, failing>>

\* Faulty variant: a profile that carries what is toggled and no more.
DraftProvider(e, p, b) == Holds(e, p, [active |-> b, degraded |-> FALSE])

\* ProviderManager.set_active_status: get_provider ...
ReadProvider(e, p, b) == Holds(e, p, [providers[p] EXCEPT !.active = b])

\* ... trigger_provider_failure: get_provider, too ...
ReadFailing(e, p) == Holds(e, p, [providers[p] EXCEPT !.degraded = TRUE])

\* ... and register_provider with the copy.
WriteProvider(e) ==
    /\ editor[e] \in Providers
    /\ providers' = [providers EXCEPT ![editor[e]] = draft[e]]
    /\ failing' = IF draft[e].degraded THEN failing \cup {editor[e]} ELSE failing
    /\ WritesBack(e, {editor[e]})
    /\ UNCHANGED <<models, chosen>>

ProfileNext ==
    \/ \E m \in Models, row \in ModelRow : RegisterModel(m, row)
    \/ \E p \in Providers, row \in ProviderRow : RegisterProvider(p, row)
    \/ \E e \in Editors :
           \/ WriteModel(e) \/ WriteProvider(e)
           \/ \E m \in Models, b \in BOOLEAN : ReadModel(e, m, b)
           \/ \E p \in Providers : ReadFailing(e, p)
           \/ \E p \in Providers, b \in BOOLEAN : ReadProvider(e, p, b)

ProfileSpec == ProfileInit /\ [][ProfileNext]_profileVars

---------------------------------------------------------------------------
\* However registrations and toggles mix, never are two models the default.
OneDefault == \A m, n \in Models : models[m].default /\ models[n].default => m = n

\* The default is the model a caller has registered as it, and there is none
\* only if a caller has registered that model anew as another: toggling models
\* neither moves nor loses it, but by a copy of the row that was old.
DefaultIsTheChosen ==
    \A m \in Models \ undone : models[m].default <=> m = chosen

\* A provider is degraded from its failure on until a caller registers it as
\* healthy: no toggle takes it for healthy, but by a copy that was old.
HealthIsAsFlagged ==
    \A p \in Providers \ undone : providers[p].degraded <=> p \in failing

\* So overlapping toggles undo neither a selection nor a failure of a profile
\* but where the very row they write was written since they read it.
ProfilesAreKept == OneDefault /\ DefaultIsTheChosen /\ HealthIsAsFlagged
=============================================================================
