---------------------------- MODULE Coordinator ----------------------------
(***************************************************************************)
(* The coordinator of one configuration entry (coordinator.py): setup,     *)
(* cloud refreshes, LAN pushes, debounced publication and cleanup, as they *)
(* interleave at their awaits.                                             *)
(*                                                                         *)
(* Home Assistant's base class is external: it runs refreshes, which may   *)
(* overlap (a timer and the refresh service), and hands the result of each *)
(* to the entities.  The manager is seen as a source of pushes and a place *)
(* to wait.  A device's state is one field here: how fields are merged is  *)
(* StateStore's subject, and what is left is that a LAN state outranks     *)
(* every cloud state and the later of two cloud states wins.               *)
(***************************************************************************)
EXTENDS Integers

CONSTANTS
    Devices,    \* device identifiers
    Gateways,   \* gateway uids
    Values,     \* states of a device
    Snapshots,  \* cloud results: partial functions from Devices to [gateway, value]
    Refreshes,  \* bound: refreshes, one task each
    Nobody      \* no gateway, no value, no refresh

ASSUME SnapshotsAssumption ==
    \A s \in Snapshots :
        /\ DOMAIN s \subseteq Devices
        /\ \A d \in DOMAIN s : s[d] \in [gateway : Gateways, value : Values]
ASSUME NobodyAssumption == Nobody \notin Gateways \union Values \union Refreshes
ASSUME RefreshesAssumption == "setup" \notin Refreshes \union {Nobody}

VARIABLES
    setup,    \* where async_setup awaits: login, fetch, connect; then running or failed
    cleanup,  \* where async_cleanup awaits: off, tasks, manager; then done
    manager,  \* gateway_manager: none, open, or taken by cleanup
    looking,  \* _discover_task: off, sleep or scan
    notify,   \* the last _notify_task: off, asleep, or due to publish
    store,    \* _state_store: device -> [source, value, by]; None is a store without devices
    devices,  \* devices: device -> its gateway or Nobody
    shown,    \* device_states: device -> value or Nobody
    torn,     \* history: a merge stopped half way and none has been completed since
    data,     \* the state last published to the entities
    pc,       \* refresh -> where it awaits
    stamp,    \* refresh or setup -> its refresh_timestamp
    now       \* time.monotonic, as far as refreshes tell it apart

stateVars == <<store, devices, shown, torn>>
taskVars == <<setup, cleanup, manager, looking>>
vars == <<taskVars, notify, stateVars, data, pc, stamp, now>>
-----------------------------------------------------------------------------
Fetchers == Refreshes \union {"setup"}

\* by is history: the fetch that brought a cloud state.
Out == [source |-> "out", value |-> Nobody, by |-> Nobody]
Unset == [source |-> "unset", value |-> Nobody, by |-> Nobody]
FromCloud(v, f) == [source |-> "cloud", value |-> v, by |-> f]
FromLan(v) == [source |-> "lan", value |-> v, by |-> Nobody]

Known(d) == store[d].source # "out"

\* The timestamp of a cloud update is read before the fetch.
StampOfMerge(f) == now   \* slip: when it is merged
StampOf(f) == stamp[f]

\* StateStore.apply, for a cloud update of one field.
Takes(f, field) ==
    \/ field.source \in {"out", "unset"}
    \/ field.source = "cloud" /\ StampOf(f) >= StampOf(field.by)

\* Slip: every refresh starts from a new store.
MergedAfresh(snap, f) ==
    [d \in Devices |-> IF d \in DOMAIN snap THEN FromCloud(snap[d].value, f) ELSE Out]

\* Slip: devices the cloud no longer names stay in the store.
MergedWithoutRetain(snap, f) ==
    [d \in Devices |->
        IF d \in DOMAIN snap /\ Takes(f, store[d]) THEN FromCloud(snap[d].value, f)
        ELSE store[d]]

\* add_devices, retain_devices, and one apply for each device of applied.
MergedFor(snap, f, applied) ==
    [d \in Devices |->
        IF d \notin DOMAIN snap THEN Out
        ELSE IF d \in applied /\ Takes(f, store[d]) THEN FromCloud(snap[d].value, f)
        ELSE IF Known(d) THEN store[d]
        ELSE Unset]

Merged(snap, f) == MergedFor(snap, f, DOMAIN snap)

View(s) == [d \in Devices |-> s[d].value]
Nothing == [d \in Devices |-> Nobody]

\* _refresh_devices_from_cloud after the fetch.
Merge(snap, f) ==
    /\ store' = Merged(snap, f)
    /\ devices' = [d \in Devices |-> IF d \in DOMAIN snap THEN snap[d].gateway ELSE Nobody]
    /\ shown' = View(store')
    /\ torn' = FALSE

\* StateStore.apply refuses the state of one device (a field without a name):
\* the loop ends there, whichever devices it has done, and only the store has
\* changed.
MergeStops(snap, f) ==
    \E applied \in SUBSET DOMAIN snap :
        /\ applied # DOMAIN snap
        /\ store' = MergedFor(snap, f, applied)
        /\ torn' = TRUE
        /\ UNCHANGED <<devices, shown>>

\* _sync_public_states: without any device there is no store and nothing is
\* published here.
PublishMerged(snap) == data' = IF DOMAIN snap = {} THEN data ELSE shown'

Init ==
    /\ setup = "login" /\ cleanup = "off"
    /\ manager = "none" /\ looking = "off" /\ notify = "off"
    /\ store = [d \in Devices |-> Out]
    /\ devices = Nothing /\ shown = Nothing /\ data = Nothing /\ torn = FALSE
    /\ pc = [f \in Refreshes |-> "idle"]
    /\ stamp = [f \in Fetchers |-> 0]
    /\ now = 0
-----------------------------------------------------------------------------
(* async_setup *)
SetupLogin ==
    /\ setup = "login"
    /\ setup' = "fetch"
    /\ now' = now + 1
    /\ stamp' = [stamp EXCEPT !["setup"] = now']
    /\ UNCHANGED <<cleanup, manager, looking, notify, stateVars, data, pc>>

\* The login or the fetch fails: async_setup_entry cleans up.
SetupFails ==
    /\ setup \in {"login", "fetch"}
    /\ setup' = "failed"
    /\ UNCHANGED <<cleanup, manager, looking, notify, stateVars, data, pc, stamp, now>>

\* The first cloud result cannot be merged to its end.
SetupStops(snap) ==
    /\ setup = "fetch"
    /\ MergeStops(snap, "setup")
    /\ setup' = "failed"
    /\ UNCHANGED <<cleanup, manager, looking, notify, data, pc, stamp, now>>

SetupFetched(snap) ==
    /\ setup = "fetch"
    /\ Merge(snap, "setup") /\ PublishMerged(snap)
    /\ setup' = "connect"
    /\ manager' = "open"
    /\ UNCHANGED <<cleanup, looking, notify, pc, stamp, now>>

\* Every gateway has been tried, with success or not.
SetupConnected ==
    /\ setup = "connect"
    /\ setup' = "running"
    /\ looking' = "sleep"
    /\ UNCHANGED <<cleanup, manager, notify, stateVars, data, pc, stamp, now>>
-----------------------------------------------------------------------------
(* _async_update_data *)

\* A refresh may be asked for until the entry is gone.
RefreshBegin(f) ==
    /\ pc[f] = "idle"
    /\ setup = "running" /\ cleanup # "done"
    /\ pc' = [pc EXCEPT ![f] = "fetch"]
    /\ now' = now + 1
    /\ stamp' = [stamp EXCEPT ![f] = now']
    /\ UNCHANGED <<taskVars, notify, stateVars, data>>

\* The cloud does not answer, or refuses.
RefreshFails(f) ==
    /\ pc[f] = "fetch"
    /\ pc' = [pc EXCEPT ![f] = "done"]
    /\ UNCHANGED <<taskVars, notify, stateVars, data, stamp, now>>

\* The merge raises: the refresh has failed as well, but not without a trace.
RefreshStops(f, snap) ==
    /\ pc[f] = "fetch"
    /\ MergeStops(snap, f)
    /\ pc' = [pc EXCEPT ![f] = "done"]
    /\ UNCHANGED <<taskVars, notify, data, stamp, now>>

\* The snapshot is merged, and if there is a manager it is told.
RefreshFetched(f, snap) ==
    /\ pc[f] = "fetch" /\ manager = "open"
    /\ Merge(snap, f) /\ PublishMerged(snap)
    /\ pc' = [pc EXCEPT ![f] = "gateways"]
    /\ UNCHANGED <<taskVars, notify, stamp, now>>

\* Without a manager nothing is left to wait for: the result is published.
RefreshFetchedLate(f, snap) ==
    /\ pc[f] = "fetch" /\ manager # "open"
    /\ Merge(snap, f) /\ data' = shown'
    /\ pc' = [pc EXCEPT ![f] = "done"]
    /\ UNCHANGED <<taskVars, notify, stamp, now>>

\* The manager has closed what the cloud dropped; its gateways are dialled.
RefreshReconciled(f) ==
    /\ pc[f] = "gateways" /\ manager = "open"
    /\ pc' = [pc EXCEPT ![f] = "connect"]
    /\ UNCHANGED <<taskVars, notify, stateVars, data, stamp, now>>

\* The refresh returns device_states, which the base class publishes.
RefreshEnds(f) ==
    /\ \/ pc[f] = "connect"
       \/ pc[f] = "gateways" /\ manager # "open"
    /\ pc' = [pc EXCEPT ![f] = "done"]
    /\ data' = shown
    /\ UNCHANGED <<taskVars, notify, stateVars, stamp, now>>
-----------------------------------------------------------------------------
(* _on_status_update and _debounced_notify *)

\* The readers of the manager's connections run until it has closed them.
MayPush == setup \in {"connect", "running"} /\ cleanup # "done" /\ manager # "none"

Trusted(d, g) == Known(d) /\ devices[d] = g

\* Slip: a push during a refresh leaves the publication to the refresh.
NotifyAfterRefresh(changed) ==
    IF changed /\ \A f \in Refreshes : pc[f] \in {"idle", "done"} THEN "asleep" ELSE notify

\* A push that changes something cancels the last notification and starts one.
NotifyAfter(changed) == IF changed THEN "asleep" ELSE notify

\* A push that changes nothing is not mirrored to what entities read.
Push(d, g, v) ==
    /\ MayPush /\ Trusted(d, g)
    /\ store' = [store EXCEPT ![d] = FromLan(v)]
    /\ shown' = IF store[d].value # v THEN View(store') ELSE shown
    /\ notify' = NotifyAfter(store[d].value # v)
    /\ UNCHANGED <<taskVars, devices, torn, data, pc, stamp, now>>

DebounceEnds ==
    /\ notify = "asleep"
    /\ notify' = "due"
    /\ UNCHANGED <<taskVars, stateVars, data, pc, stamp, now>>

\* Slip: the store's own records are handed out.
PublishRaw ==
    /\ notify = "due"
    /\ notify' = "off"
    /\ data' = store
    /\ UNCHANGED <<taskVars, stateVars, pc, stamp, now>>

Publish ==
    /\ notify = "due"
    /\ notify' = "off"
    /\ data' = shown
    /\ UNCHANGED <<taskVars, stateVars, pc, stamp, now>>
-----------------------------------------------------------------------------
(* _gateway_discover_loop *)
DiscoverBegin ==
    /\ looking = "sleep" /\ manager = "open"
    /\ looking' = "scan"
    /\ UNCHANGED <<setup, cleanup, manager, notify, stateVars, data, pc, stamp, now>>

DiscoverEnds ==
    /\ looking = "scan"
    /\ looking' = "sleep"
    /\ UNCHANGED <<setup, cleanup, manager, notify, stateVars, data, pc, stamp, now>>
-----------------------------------------------------------------------------
(* async_cleanup *)

\* Its tasks are cancelled; they are waited for if setup got so far.
CleanupBegin ==
    /\ setup \in {"running", "failed"} /\ cleanup = "off"
    /\ cleanup' = "tasks"
    /\ looking' = "off" /\ notify' = "off"
    /\ UNCHANGED <<setup, manager, stateVars, data, pc, stamp, now>>

CleanupTasksEnded ==
    /\ cleanup = "tasks"
    /\ cleanup' = "manager"
    /\ manager' = IF manager = "open" THEN "taken" ELSE manager
    /\ UNCHANGED <<setup, looking, notify, stateVars, data, pc, stamp, now>>

\* The manager is closed; what the coordinator knows is cleared.
CleanupEnds ==
    /\ cleanup = "manager"
    /\ cleanup' = "done"
    /\ store' = [d \in Devices |-> Out]
    /\ devices' = Nothing /\ shown' = Nothing /\ torn' = FALSE
    /\ UNCHANGED <<setup, manager, looking, notify, data, pc, stamp, now>>
-----------------------------------------------------------------------------
RefreshStep(f) ==
    \/ RefreshFails(f)
    \/ \E snap \in Snapshots :
          RefreshFetched(f, snap) \/ RefreshFetchedLate(f, snap) \/ RefreshStops(f, snap)
    \/ RefreshReconciled(f)
    \/ RefreshEnds(f)
PushStep == \E d \in Devices, g \in Gateways, v \in Values : Push(d, g, v)
CleanupStep == CleanupTasksEnded \/ CleanupEnds

Next ==
    \/ SetupLogin \/ SetupFails \/ SetupConnected
    \/ \E snap \in Snapshots : SetupFetched(snap) \/ SetupStops(snap)
    \/ \E f \in Refreshes : RefreshBegin(f) \/ RefreshStep(f)
    \/ PushStep
    \/ DebounceEnds \/ Publish
    \/ DiscoverBegin \/ DiscoverEnds
    \/ CleanupBegin \/ CleanupStep

Spec == Init /\ [][Next]_vars
-----------------------------------------------------------------------------
(* Fairness.  The cloud's answers and the manager's work are bounded by    *)
(* their own timeouts and the debounce is a short sleep, which a push may  *)
(* start again.  Nobody has to push, to refresh or to clean up.            *)
Fairness ==
    /\ \A f \in Refreshes : WF_vars(RefreshStep(f))
    /\ WF_vars(DebounceEnds) /\ WF_vars(Publish)
    /\ WF_vars(CleanupStep)

FairSpec == Spec /\ Fairness
-----------------------------------------------------------------------------
Shown == [Devices -> Values \union {Nobody}]
Fields == [source : {"out", "unset", "cloud", "lan"}, value : Values \union {Nobody},
           by : Fetchers \union {Nobody}]

\* Every variable has its type.
TypeOK ==
    /\ setup \in {"login", "fetch", "connect", "running", "failed"}
    /\ cleanup \in {"off", "tasks", "manager", "done"}
    /\ manager \in {"none", "open", "taken"}
    /\ looking \in {"off", "sleep", "scan"}
    /\ notify \in {"off", "asleep", "due"}
    /\ store \in [Devices -> Fields]
    /\ devices \in [Devices -> Gateways \union {Nobody}]
    /\ shown \in Shown /\ data \in Shown /\ torn \in BOOLEAN
    /\ pc \in [Refreshes -> {"idle", "fetch", "gateways", "connect", "done"}]
    /\ stamp \in [Fetchers -> Nat]
    /\ now \in Nat

\* Only a merge that stopped half way makes the three views of the devices come
\* apart, never an overlap of refreshes, pushes and cleanup, and the next merge
\* that is completed brings them together: the store knows exactly the devices
\* whose gateway is known, and what entities read is what the store holds.
ViewsAgree ==
    ~torn =>
        /\ \A d \in Devices : Known(d) <=> devices[d] # Nobody
        /\ shown = View(store)

\* What entities could read but were not told is on its way to them: a
\* notification is running or a refresh is about to return.
NoLostUpdate ==
    cleanup = "off" /\ shown # data =>
        notify # "off" \/ \E f \in Refreshes : pc[f] \in {"gateways", "connect"}

\* A LAN state is given up only when the cloud no longer names the device or
\* the entry is cleaned up, however late a cloud snapshot is merged and also if
\* the merge stops half way (ARCHITECTURE.md:57).
LanOutlivesRefresh ==
    [][\A d \in Devices :
          store[d].source = "lan" /\ store'[d].source # "lan" =>
              ~Known(d)' /\ (devices'[d] = Nobody \/ torn')]_vars

\* Of two refreshes that overlap the one that began later decides, also when
\* it is merged first.
LaterFetchWins ==
    [][\A d \in Devices :
          store[d].source = "cloud" /\ store'[d].source = "cloud" =>
              stamp[store[d].by] <= stamp[store'[d].by]]_vars

\* Unless pushes go on forever, each of which restarts the debounce, a change
\* is published ("merged within a short debounce window and published once",
\* ARCHITECTURE.md:57), or the entry is cleaned up.
PublishedOncePushesPause ==
    <>[][~PushStep]_vars => (shown # data ~> shown = data \/ cleanup # "off")

\* After cleanup no notification is running and no device is known ("Cancel
\* coordinator tasks before closing all manager-owned transports",
\* coordinator.py:524; tests/test_coordinator.py:260 checks the devices).
NothingOutlivesCleanup ==
    cleanup = "done" => notify = "off" /\ devices = Nothing /\ \A d \in Devices : ~Known(d)
=============================================================================
