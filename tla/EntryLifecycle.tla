--------------------------- MODULE EntryLifecycle ---------------------------
(***************************************************************************)
(* Setting up, unloading and reloading config entries (__init__.py).       *)
(*                                                                         *)
(* Home Assistant runs at most one setup, unload or reload of an entry at  *)
(* a time and makes the others wait, in order; different entries           *)
(* interleave at every await.  The entries share the domain's dictionary   *)
(* of runtime data and its one service.                                    *)
(***************************************************************************)
EXTENDS Integers, FiniteSets

CONSTANTS
    Entries,    \* config entries of the domain
    Families,   \* families of the account
    Passwords,  \* what a user may type as a password
    None

ASSUME EntryAssumption ==
    /\ None \notin Families /\ None \notin Entries
    /\ "account" \notin Families \union {None}

VARIABLES
    entry,      \* entry -> what Home Assistant stores of it
    state,      \* entry -> its ConfigEntryState, absent before it is created
    at,         \* entry -> the await its setup or unload is at, or idle
    reloads,    \* entry -> calls of async_reload that wait for their turn
    stale,      \* entry -> it was changed after the last setup read it
    own,        \* entry -> the resources it has, see NoResources
    service,    \* refresh_devices is registered
    hass        \* Home Assistant is booting, starting (is_running) or started

lifecycle == <<entry, state, at, reloads, stale, own, service, hass>>
-----------------------------------------------------------------------------
\* coordinator: set up or being set up, and not yet cleaned up; runtime: in
\* hass.data; listeners: update listeners; handle: remove_start_listener is set;
\* bus: the start listener is registered; platforms: up, or stuck after an
\* unload that failed while a setup was undone.
NoResources == [coordinator |-> FALSE, runtime |-> FALSE, listeners |-> 0,
                handle |-> FALSE, bus |-> FALSE, platforms |-> "none"]

States == {"absent", "not_loaded", "loaded", "setup_error", "setup_retry",
           "failed_unload", "migration_error"}
Awaits == {"idle", "coordinator", "cleanup_auth", "cleanup_retry", "platforms", "undo_platforms",
           "undo_cleanup", "unload_platforms", "unload_cleanup"}

Exists(e) == state[e] # "absent"
Goto(e, where) == at' = [at EXCEPT ![e] = where]
Become(e, s) == state' = [state EXCEPT ![e] = s]
EndIn(e, s) == Goto(e, "idle") /\ Become(e, s)

\* Slip: the service goes with every entry.
NobodyElse(e) == FALSE
\* hass.data[DOMAIN] is left without e, and the service with its last entry.
OthersLoaded(e) == \E d \in Entries \ {e} : own[d].runtime
ServiceWithout(e) == service /\ OthersLoaded(e)
-----------------------------------------------------------------------------
\* The unique id of an entry is the account's, scoped to a family: scope is that
\* family, "account" in the ids of old versions, None without a unique id.  old is
\* the selection of devices where version 1 kept it, selected where version 3 does;
\* a selection is the family its devices were listed from.

\* Slip: the unique id stays as it was.
KeepsUniqueId(d) == [d EXCEPT !.version = 3, !.old = None]
\* async_migrate_entry, for a version up to 3.
Migrated(d) ==
    IF d.version = 3 THEN d
    ELSE [d EXCEPT !.version = 3,
                   !.scope = IF @ # None /\ d.family # None THEN d.family ELSE @,
                   !.selected = IF @ = None THEN d.old ELSE @,
                   !.old = None]

\* Slip: a reload sets up with the credentials of the setup before.
KeepsCredentials(e) == stale
ReadCredentials(e) == [stale EXCEPT ![e] = FALSE]

\* Home Assistant migrates the entry and calls async_setup_entry, which reads
\* the credentials and sets up a coordinator.
BeginSetup(e) ==
    IF entry[e].version > 3
      THEN EndIn(e, "migration_error") /\ UNCHANGED <<entry, stale, own>>
      ELSE /\ entry' = [entry EXCEPT ![e] = Migrated(@)]
           /\ stale' = ReadCredentials(e)
           /\ own' = [own EXCEPT ![e].coordinator = TRUE]
           /\ Goto(e, "coordinator")
           /\ UNCHANGED state

\* At startup, when the entry was created, and for a retry.
Setup(e) ==
    /\ at[e] = "idle" /\ reloads[e] = 0 /\ state[e] \in {"not_loaded", "setup_retry"}
    /\ BeginSetup(e)
    /\ UNCHANGED <<reloads, service, hass>>

\* async_setup of the coordinator fails: it is cleaned up before the error goes on.
CoordinatorFails(e, how) ==
    /\ at[e] = "coordinator"
    /\ Goto(e, how)
    /\ UNCHANGED <<entry, state, reloads, stale, own, service, hass>>

CoordinatorCleaned(e) ==
    /\ at[e] \in {"cleanup_auth", "cleanup_retry"}
    /\ own' = [own EXCEPT ![e].coordinator = FALSE]
    /\ EndIn(e, IF at[e] = "cleanup_auth" THEN "setup_error" ELSE "setup_retry")
    /\ UNCHANGED <<entry, reloads, stale, service, hass>>

\* Slip: the undo forgets the update listener.
UndoneButListener(r) == [r EXCEPT !.runtime = FALSE, !.handle = FALSE, !.bus = FALSE]
\* What the handler of line 183 takes back between its two awaits.
Undone(r) == [UndoneButListener(r) EXCEPT !.listeners = @ - 1]

\* The coordinator is ready: listener, runtime data, service, then the devices
\* are registered, which may raise, and the platforms are set up.
Register(e, raises) ==
    LET registered == [own[e] EXCEPT !.listeners = @ + 1, !.runtime = TRUE] IN
    /\ at[e] = "coordinator"
    /\ IF raises
         THEN /\ own' = [own EXCEPT ![e] = Undone(registered)]
              /\ service' = OthersLoaded(e)
              /\ Goto(e, "undo_cleanup")
         ELSE /\ own' = [own EXCEPT ![e] = [registered EXCEPT !.platforms = "up"]]
              /\ service' = TRUE
              /\ Goto(e, "platforms")
    /\ UNCHANGED <<entry, state, reloads, stale, hass>>

\* The platforms are up: assign the areas, or do it when Home Assistant starts.
PlatformsUp(e) ==
    /\ at[e] = "platforms"
    /\ own' = IF hass = "booting"
                THEN [own EXCEPT ![e].handle = TRUE, ![e].bus = TRUE] ELSE own
    /\ EndIn(e, "loaded")
    /\ UNCHANGED <<entry, reloads, stale, service, hass>>

\* They, or the areas, raise.
PlatformsFail(e) ==
    /\ at[e] = "platforms"
    /\ Goto(e, "undo_platforms")
    /\ UNCHANGED <<entry, state, reloads, stale, own, service, hass>>

\* The handler of line 183, after async_unload_platforms: what that returned or
\* raised is ignored.
UndoPlatforms(e, ok) ==
    /\ at[e] = "undo_platforms"
    /\ own' = [own EXCEPT ![e] = [Undone(@) EXCEPT !.platforms = IF ok THEN "none" ELSE "stuck"]]
    /\ service' = ServiceWithout(e)
    /\ Goto(e, "undo_cleanup")
    /\ UNCHANGED <<entry, state, reloads, stale, hass>>

UndoCleanup(e) ==
    /\ at[e] = "undo_cleanup"
    /\ own' = [own EXCEPT ![e].coordinator = FALSE]
    /\ EndIn(e, "setup_error")
    /\ UNCHANGED <<entry, reloads, stale, service, hass>>
-----------------------------------------------------------------------------
\* Both listeners are removed once the platforms are.
DropListeners(r) == [r EXCEPT !.platforms = "none", !.handle = FALSE, !.bus = FALSE, !.listeners = @ - 1]

\* async_unload_entry after its first await: a platform that does not unload keeps
\* everything as it is.
PlatformsUnloaded(e, ok) ==
    /\ at[e] = "unload_platforms"
    /\ IF ok
         THEN own' = [own EXCEPT ![e] = DropListeners(@)]
              /\ Goto(e, "unload_cleanup") /\ UNCHANGED state
         ELSE EndIn(e, "failed_unload") /\ UNCHANGED own
    /\ UNCHANGED <<entry, reloads, stale, service, hass>>

UnloadCleanup(e) ==
    /\ at[e] = "unload_cleanup"
    /\ own' = [own EXCEPT ![e].coordinator = FALSE, ![e].runtime = FALSE]
    /\ service' = ServiceWithout(e)
    /\ EndIn(e, "not_loaded")
    /\ UNCHANGED <<entry, reloads, stale, hass>>

\* async_reload has its turn: a loaded entry is unloaded and then has another
\* turn, in which it is set up; one that failed to unload or to migrate is refused.
Reload(e) ==
    /\ at[e] = "idle" /\ reloads[e] > 0
    /\ CASE state[e] = "loaded" ->
              Goto(e, "unload_platforms") /\ UNCHANGED <<entry, state, reloads, stale, own>>
         [] state[e] \in {"failed_unload", "migration_error"} ->
              reloads' = [reloads EXCEPT ![e] = @ - 1] /\ UNCHANGED <<entry, state, at, stale, own>>
         [] OTHER ->
              reloads' = [reloads EXCEPT ![e] = @ - 1] /\ BeginSetup(e)
    /\ UNCHANGED <<service, hass>>

\* async_update_entry: the stored data become d, which the update listeners answer
\* with a reload each; requested reloads are asked for besides.
UpdateEntry(e, d, requested) ==
    LET changed == d # entry[e] IN
    /\ entry' = [entry EXCEPT ![e] = d]
    /\ stale' = [stale EXCEPT ![e] = @ \/ changed]
    /\ reloads' = [reloads EXCEPT ![e] = @ + requested + IF changed THEN own[e].listeners ELSE 0]
-----------------------------------------------------------------------------
\* Home Assistant has loaded what it loads at startup; is_running from here on.
Running ==
    /\ hass = "booting"
    /\ hass' = "starting"
    /\ UNCHANGED <<entry, state, at, reloads, stale, own, service>>

\* EVENT_HOMEASSISTANT_STARTED: the bus removes each start listener and runs its
\* callback in a thread.
Started ==
    /\ hass = "starting"
    /\ hass' = "started"
    /\ own' = [e \in Entries |-> [own[e] EXCEPT !.bus = FALSE]]
    /\ UNCHANGED <<entry, state, at, reloads, stale, service>>

\* _schedule_area_assignment, in that thread, and the job it adds: areas are
\* assigned if the entry still has runtime data, else the job raises KeyError.
ScheduleAreas(e) ==
    /\ own[e].handle /\ ~own[e].bus
    /\ own' = [own EXCEPT ![e].handle = FALSE]
    /\ UNCHANGED <<entry, state, at, reloads, stale, service, hass>>

\* The steps of the setup, unload or reload of e.
Progress(e) ==
    \/ Setup(e) \/ Reload(e)
    \/ \E how \in {"cleanup_auth", "cleanup_retry"} : CoordinatorFails(e, how)
    \/ CoordinatorCleaned(e)
    \/ \E raises \in BOOLEAN : Register(e, raises)
    \/ PlatformsUp(e) \/ PlatformsFail(e)
    \/ \E ok \in BOOLEAN : UndoPlatforms(e, ok) \/ PlatformsUnloaded(e, ok)
    \/ UndoCleanup(e) \/ UnloadCleanup(e)

LifecycleNext ==
    \/ \E e \in Entries : Progress(e) \/ ScheduleAreas(e)
    \/ Running \/ Started
-----------------------------------------------------------------------------
Scopes == Families \union {"account", None}
Data == [version : 2..4, family : Families \union {None}, scope : Scopes,
         password : Passwords, old : Families \union {None}, selected : Families \union {None}]

\* Every variable has its type.
LifecycleTypeOK ==
    /\ entry \in [Entries -> Data]
    /\ state \in [Entries -> States]
    /\ at \in [Entries -> Awaits]
    /\ reloads \in [Entries -> Nat]
    /\ stale \in [Entries -> BOOLEAN]
    /\ own \in [Entries -> [coordinator : BOOLEAN, runtime : BOOLEAN, listeners : Nat,
                            handle : BOOLEAN, bus : BOOLEAN, platforms : {"none", "up", "stuck"}]]
    /\ service \in BOOLEAN
    /\ hass \in {"booting", "starting", "started"}

\* refresh_devices is registered exactly as long as an entry has runtime data,
\* whatever setups, failed setups and unloads of the entries interleave.
ServiceWhileNeeded == service <=> \E e \in Entries : own[e].runtime

\* Between its setups an entry is either loaded, with a coordinator, runtime data,
\* one update listener and platforms, or it has nothing left: no coordinator that
\* polls, no listener that fires.  Only platforms that would not unload remain.
\* And meanwhile "Unload platforms before releasing their shared runtime
\* resources." (__init__.py:206): no entity has a coordinator that is closed.
LoadedOrClean ==
    \A e \in Entries :
        /\ own[e].platforms = "up" => own[e].coordinator /\ own[e].runtime
        /\ at[e] = "idle" =>
              IF state[e] \in {"loaded", "failed_unload"}
                THEN /\ own[e].coordinator /\ own[e].runtime /\ own[e].listeners = 1
                     /\ own[e].platforms = "up"
                     /\ own[e].bus => own[e].handle
                ELSE /\ [own[e] EXCEPT !.platforms = "none"] = NoResources
                     /\ own[e].platforms # "up"
=============================================================================
