# A verification of orvibo-lan-control

TLA+ models of the ORVIBO LAN integration for Home Assistant
(`src/custom_components/orvibo_lan`), the TLC runs that check them on small
instances and the TLAPS proofs of what holds for every size. The integration is
one asyncio program: tasks share one event loop, so what runs between two awaits
is atomic and every await is a point where any other task may run. The models
have one action per such stretch of code.

## The system

| Part | Keeps | Does | Works with |
|---|---|---|---|
| `coordinator.py` | devices, public states, the LAN and cloud generation counters, its tasks | sets up, refreshes from the cloud, merges LAN pushes, publishes after a short debounce, sends commands, cleans up | all of the below |
| `state_store.py` | per device: values, field versions, last generation per source | `add_devices`, `retain_devices`, `apply`, `snapshot` | called by the coordinator only, never suspends |
| `gateway_manager.py` | per gateway uid: a record (cloud host, active host, connection) and a lock; `_closed` | `ensure`, `send`, `reconnect`, `discover`, `async_update_cloud_gateways`, `close` | owns the connections; called concurrently by entities, the refresh, the discovery loop and cleanup |
| `lib/gateway_connection.py` | transport, generation, session key, `_ready`, pending futures, three locks, the reader and heartbeat tasks | `connect` (hello, login), `request`, `send`, `close` | one object per dial; pushes go to the coordinator |
| `lib/cloud_client.py` | OAuth method, session token, family | `login`, `fetch_family_list`, `fetch_devices` | shared by overlapping refreshes; each configuration flow has one of its own |
| `config_flow.py` | what one flow has collected | the user, reauthentication and options steps | the cloud client, a probe connection, the entries |
| `__init__.py` | runtime data per entry, service registration, listeners | migration, setup with rollback, unload | Home Assistant, which sets up, unloads and reloads |
| `light.py`, `climate.py`, `cover.py`, `fan.py` with `lib/device_control.py` | nothing | compose a command from a choice and the cached state; show the cached state | the coordinator |
| `lib/discovery.py` | candidates of one scan | a UDP broadcast and its answers | the manager |
| `lib/protocol.py`, `lib/packet.py`, `lib/serial.py` | the serial counter | framing, CRC, AES, serial numbers | the connection |
| `device_profiles.py`, `profiles.py` | nothing | classify devices | entities |
| `lib/lan_controller.py`, `lib/https_client.py` | | adapters the integration does not run | |

What is hard here: the manager's calls interleave around one lock per gateway,
and a lock can be held across a whole handshake; records are mutable objects that
a task may hold after the table has dropped them; a connection is torn down by
its reader, a failing write, its heartbeat, a failed handshake or `close`; requests
time out while they wait for a lock, while they write or as their answer arrives;
LAN pushes and cloud snapshots arrive in any order with counters of their own;
one client's token is read before an await and cleared after it; entries are set
up, undone and reloaded while flows change what they are set up with; a command
carries the whole setting of a device, taken from a state that is behind it.

What makes each part correct:

- store: each field shows the newest and most trusted value ever offered to it, LAN
  above cloud; a removed device leaves nothing; `apply` says exactly when something
  changed;
- manager: every open connection is reachable from the table or from the task that
  opens it; one connection pushes per gateway; after `close` nothing is open; an
  address is taken from UDP only after a login there; calls end;
- connection: up means logged in, in this generation; an answer goes to its own
  request; nothing stays registered that is not in flight; a failed `connect` leaves
  nothing open; every request ends by its deadline;
- coordinator: nothing survives cleanup, every change is eventually published, and a
  refresh that fails leaves what entities read consistent with the store;
- cloud client: one retry with another token, one fallback; an authentication error
  only for a login that was refused;
- entries: at rest, everything or nothing; the service is there while one is loaded;
- flows: one entry per family, devices of its own family, what is stored is used;
- entities: a choice survives the later ones that knew of it, except where a payload
  has a zero or a default in its place.

## Modules

| Module | Models | State and actions |
|---|---|---|
| `StateStore` | `state_store.py` | `deviceIds`, `values`, `versions`, `generations` are the four attributes, with the tree of a device's state flattened to leaf paths; `reply` is what the last call returned. One action per method, `apply` split by its outcome. |
| `MergedView` | what the store promises | Per field a set of offers and a value shown; no versions and no paths. |
| `StateStoreHistory` | `StateStore` with every offer remembered | The history variable is what the refinement to `MergedView` and its invariant need. |
| `GatewayManager` | `gateway_manager.py` | `records` is the table, `heap` the record objects, `conns` the connection objects seen from outside (opening, ready, down, closed), `lock`/`waiters` an `asyncio.Lock` per uid with its fast path and its queue, `pc`/`job` the tasks. `CallBegin` to `CallAttach` are `ensure` and `reconnect` (`send` is `ensure` and then the connection's own `send`); `Discover*`, `Update*` and `Close*` the other methods, split at their awaits. |
| `GatewayConnection` | `lib/gateway_connection.py` | `gen`, `open`, `ready`, `confirmed`, `handles` are the object; `phase` the connector, `beat` the heartbeat, `pc`/`fut`/`reqGen` a request and its future, `pending` and `single` the routes. `Send` to `Timeout` are `request` and what it calls, `Read*` the reader, `Connect*` the handshake, `Beat*` the heartbeat. |
| `Coordinator` | `coordinator.py` | `store`, `devices`, `shown` are the store, `devices` and `device_states`; `data` is what the base class last published; `setup`, `cleanup`, `pc`, `looking`, `notify` are its tasks. `Setup*`, `Refresh*`, `Push`, `Publish`, `Discover*` and `Cleanup*` are its methods, split at their awaits. |
| `CloudClient` | `lib/cloud_client.py` | `method`, `token`, `family` are the client (a token is the number of the login it came from); `pc`/`call` a caller at one of its three awaits, with the locals of its call; `issued`/`expired` the cloud's sessions. `Begin` enters `login` or `fetch_devices`, and there is one action per answer to each request. |
| `EntryLifecycle` | `__init__.py` | `entry`, `state`, `at`, `reloads` are an entry, its state, the await its setup or unload is at and the reloads that wait; `own` the resources it holds; `service` the domain's. `BeginSetup` to `UndoCleanup` are `async_migrate_entry` and `async_setup_entry`, `PlatformsUnloaded` and `UnloadCleanup` `async_unload_entry`. |
| `ConfigFlow` | `config_flow.py`, over `EntryLifecycle` | `flow` is, per flow, the form it shows or the call it awaits and what it has collected. One action per step, with its flow's end and the entry it stores. |
| `Devices` | the entities and `lib/device_control.py` | `cache` is the state an entity reads, `commands` and `reports` what is under way, `dev` the device. The payload of each choice is composed as the code does it, values and units included. |
| `StateStoreProofs`, `CoordinatorProofs`, `CloudClientProofs`, `EntryProofs`, `ConnectionProofs`, `ManagerProofs`, `ConfigFlowProofs`, `DeviceProofs` | | The theorems. |
| `MC*` | | Values of the constants for TLC. |

`ConfigFlow` composes with `EntryLifecycle` by sharing its variables: a flow step
changes what an entry stores and asks for reloads, a lifecycle step leaves the
flows alone. The manager sees a connection as a phase; `GatewayConnection` is the
detail of that phase.

Operators named as a slip (`IsNewerByTime`, `TimeoutOfWrite`, ...) are one
plausible mistake each in the definition that follows them. Nothing uses them;
put in its place, each breaks the property it is paired with in `PROJECT.json`,
so the property is known to be able to fail.

## Runs

| Run | Instance | Shows |
|---|---|---|
| `state_store` | one device, one field, two values, two timestamps, two generations, three offers | Whatever the order of updates, removals and additions, the field shows its greatest offer; the store implements `MergedView`; LAN state is not rolled back; the reply of `apply` is exact. |
| `gateway_manager` | one gateway, two callers, one scan that sees it at either host, two refreshes that drop it and name it again, close; three connections | Locks are honoured and never lost, all other safety properties, and everybody finishes, under every interleaving, cancellation and lost transport; a removal and a discovery round keep apart (`ApartSpec`). |
| `gateway_manager_orphan` | the same with one refresh, which may meet the scan | Violated: `discover` attaches a connection to a removed record. |
| `gateway_connection` | one request with keys of its own and two without, a serial used twice, heartbeat, close, one connect, a gateway that may leave keys out | All properties of a connection. A frame without keys that answers the wrong request breaks neither the login nor the routes nor an answer that carries keys. |
| `gateway_connection_bare` | two requests without keys, a gateway that leaves keys out | Violated: a single-flight request is answered with something else. |
| `coordinator` | two devices, two gateways, two states, two refreshes, each of which may fail before its merge or half way through it | The store, the device list and what entities read agree, but for the time between a merge that stopped half way and the next complete one (`torn`); no change is lost; a late snapshot neither replaces a LAN state nor a newer snapshot; a change is published once pushes pause. |
| `coordinator_cleanup` | the same | Violated: a push during cleanup leaves a notification running (and a refresh in flight brings the devices back). |
| `cloud_client` | two callers with two calls each, the method POST or GET at first | Every call ends, retries with a token that was not rejected to it, and sends nothing without one; a call no other one overlaps fails with an authentication error only if its login was refused. |
| `cloud_client_shared` | the same | Violated: one fetch forgets the token another has just obtained, and that one fails with an authentication error no login has given. |
| `config_flow` | two entries, one stored by an old version (with a selection, or without one and without a unique id) or a too new one; two flows of any kind; two families, one with a gateway; two passwords | Between setups an entry has everything or nothing; the service follows the entries; one entry per family, among those that have a unique id, with devices of its own; a waiting reload takes what was stored into use. |
| `config_flow_update` | one entry, one flow | Violated: an options flow changes an entry whose setup has failed, and nothing sets it up again. |
| `devices` | each kind of device, three choices out of all that its entity offers (the fan mode auto, a mode with a temperature and fractions of a degree included) | A choice stays until it is made again or lost (`Loses` names where), if the commands after it were composed from a state that showed it; payloads stay in range. |

The violated properties state what ARCHITECTURE.md, DEVICE_INTEGRATION_ANALYSIS.md,
a docstring or a test says; `PROJECT.json` quotes the lines.

Bounds. Two callers, a discoverer, a refresh and a closer are every kind of task
that can meet at one lock, with one pair of the same kind; more callers repeat the
pair. Three connections are one per dialling task. Uids have separate locks and
records, so they meet only in the loops of the refresh and of `close`. Two
timestamps and two generations give every outcome of `_is_newer`, and the proofs
remove the bounds of the store. `MaxGen = 2` is the life of a connection object in
the program: the manager connects it once (generation 1) and closes it
(generation 2); `ConnectionProofs` allows any number. Three requests are the least that have one waiting for the request
lock, one holding it and one beside it. Two refreshes are the least that overlap;
pushes are not bounded, and the proofs remove the other bounds of the coordinator.
Two calls of two callers are the least in which one finds the token the other has
cleared or replaced; the proofs remove that bound. Two flows are the least that meet
(both may add the same family, or one changes the entry the other is to reload); the
second entry is the one a flow adds, and `EntryProofs` removes both bounds for what it
proves. In `devices` three choices are one that sets, one that must keep it and one in
flight; the values are the ends of each range and one value where a unit rounds.

The runs say `CHECK_DEADLOCK FALSE` where the system may come to rest: after
`close`, or when the bounded calls, flows or choices are used up.

Fairness. `GatewayManager` assumes that a task which can run is run, and that a
connect attempt and a scan end, which their own timeouts (5 s; the scan's
duration) guarantee. `GatewayConnection` assumes that the deadlines of requests
(`wait_for`), of `connect` and of the heartbeat expire. `Coordinator`
assumes that a fetch and the manager's work end, that the debounce runs out unless a
push starts it again, and that cleanup goes on. `CloudClient` assumes that each request
is answered or times out (`ClientTimeout`, 20 s), `ConfigFlow` that the steps of a
setup, unload or reload go on, since their requests time out and Home Assistant sets
up and unloads platforms. No fairness for gateways, users, clients, the start of a
refresh, the expiry of a token or `close`: none of them has to do anything. Locks are
first come first served, as `asyncio.Lock` is (a queue in `GatewayManager`; in
`GatewayConnection` the deadline bounds the wait and any order is allowed).

Abstractions worth knowing. Closing a connection is one step, since `close`
detaches everything before its first await. The Python version decides whether
`wait_for` runs its coroutine in a task of its own (3.11, which the project
supports) or in place (3.12): the models allow the gap of 3.11 everywhere.
`Coordinator` keeps one field per device, since `StateStore` models the merge of fields; Home
Assistant's base class is modelled by what the coordinator expects of it: refreshes may
overlap, and what `_async_update_data` returns is published. A merge may stop after any
of the devices, since `StateStore.apply` raises on a field without a name
(`state_store.py:156`) wherever the cloud has put one.
`GatewayConnection` lets a gateway answer a request any number of times and in any
order, and lets a frame that does not decode, an end of stream and a socket error
be the same event. `CloudClient` leaves out what the tables contain; a connection that is cut while
the login's answer is read falls back to GET as an answer that is not understood does,
since `_request_json` makes the same error of both. `EntryLifecycle`
models the part of Home Assistant that it is called by: one setup, unload or reload of
an entry at a time, reloads in order, a listener that the bus removes before it runs it
in a thread; platforms that do not unload stay. `ConfigFlow` takes the list of a
family's devices for the family itself, and makes the login and the tables one await:
the client is the flow's own; no entry of an old version is disabled when a flow starts,
so that all have been migrated. `Devices` takes a device to adopt what a command carries
and to report it. Where it is not known whether a device takes a 0 at its word (the
settings of an air conditioner's off, a colour of 0), both are possible; a fan reports
the properties it has reported before, or never any; both queues keep their order, commands fail and reports get lost.

## Proofs

`StateStoreProofs` proves, for any sets of devices, paths and values and any
bounds, type correctness, that a removed device is forgotten
(`ForgottenOutsideWhitelist`, whose violation the run sees as one of
`ShowsGreatestOffer`) and that generations cover fields, each by its own induction. Four more theorems assume
`PrefixFree(Paths)`: no field lies below another (without it they are false, see
below). Then the visible leaves and their versions never come apart
(`FieldsAreVersioned`), from which follow `LanIsNeverRolledBack` and
`ReplyTellsChange` as step properties.

`StoreImplementsMergedView` needs more: `ShowsGreatestOffer` is not inductive by
itself, since it must be known that only kept devices have offers and that offers
have their type (`OffersOK`) and that the fields of forgotten devices are blank.
The conjunction is `HInv`. The order on versions is handled once, in two lemmas
about `IsNewer` (a newer version is not below, not-above is transitive), and the merge
once per field, in `MergeKeepsGreatest`; the refinement maps `view` to `values`.

`CoordinatorProofs` proves the type invariant, then `ViewsAgree` by induction on top of
it (`OnlyStoppedMergesTear`: every complete merge leaves the three views consistent,
`MergeIsConsistent`; the history variable `torn` says that one has stopped half way since
the last complete merge). `LanStateOutlivesRefresh` covers the merges that stop as well.
`NoLostUpdate` is not inductive alone: that an empty first result publishes nothing is
harmless only because nothing has been published before, which `SetupQuiet` records.
`LaterFetchWins` needs that every cloud state was brought by a
fetch (`Brought`). All hold for any number of overlapping refreshes.

`CloudClientProofs` holds for any number of callers, calls and families. The type
invariant already says that no request goes out without a token. `RetryHasNewToken`
needs to know what the client keeps for the caller while it is elsewhere:
`NewerIsLeft`, there is no token or one issued after the one that was rejected to it.
That a lone call is told of a refused login only by a refusal needs the relation
between the call's place, its retry and the token while nobody else moves (`AloneOf`).

`EntryProofs` holds for any number of entries, families and flows. What an entry holds
when nothing is under way follows from what it holds at each await: `Fits` says that
for every await of setup, undo and unload, and is the inductive invariant;
`LoadedOrClean` is its case of no await. The service needs no more than that one step
changes the runtime data of one entry.

`ConfigFlowProofs` stands on it (an entry has one listener or none, so the count of
waiting reloads stays a natural number). Three parts make its invariant `ConfigInv`.
`TurnInv`: only an entry that exists is set up or reloaded. `DataInv`: the data of every
entry are of one family (`Consistent`), and once a flow was started every entry has a
unique id with its family or none, which is why the check of
`_abort_if_unique_id_configured` suffices for `OneEntryPerFamily`; a migration keeps both
and gives no id to an entry without one (`MigratedKeeps`). `FlowInv`:
what a flow knows at each step (`Informed`), and that the family it lists devices for is
that of the entry it changes (`About`), which for a flow that was started, shown again
and asked again is what `SelectionOfOwnFamily` needs. Of what is stored already
`StoredAssumption` says no more than that this integration wrote it: its devices are of
its own family, and from version 3 on its unique id, if it has one, has that family.

`ConnectionProofs` holds for any number of requests and generations, under two
assumptions about keys that both assignments of the runs satisfy: nobody draws a key of
the login (`LoginKeysAreOwn`), and only the first key of a request, its serial, may be
drawn by another (`LaterKeysAreOwn`; a later key that collides would leave the earlier
ones registered, since the loop of `_request_once` is outside its `try`). The
invariant `ConnInv` says which generation a connect attempt owns until it ends
(`PhaseOK`), that the heartbeat runs only for a connection that is up (`BeatOK`), that
routes and pending futures lead to each other (`RoutesOK`, `FuturesOK`), and where the
login stands in each phase (`LoginOK`). That `ConnectedMeansLoggedIn` needs all of it:
`connect` sets `ready` without another look at the transport, so the login that answered
has to be one of this attempt's generation.

`ManagerProofs` holds for any number of gateways, calls, scans, refreshes, records and
connections. None of the properties is inductive; the invariant `ManagerInv` holds of
every execution and says how four things agree: `LocksOK` the locks with the places of
the tasks (who waits is in the queue once, who is inside holds the lock, a lock with a
queue is held), `RecordsOK` records with gateways and connections (one record per
gateway, one connection per record, also for records the table has dropped),
`JobsOK` the locals a task carries over an await with what they name (a call's record is
still the table's, and its old connection closed; a connection being opened is nobody
else's, and pushes only for a call), and `ClosingOK` that only `close` detaches. The
lemmas come in this order: what each operation of `asyncio.Lock` does to the queue and
to who wants a lock; what a step that only leaves, enters or keeps a lock may rely on;
one lemma per kind of effect (closing one connection at most, dialling, attaching,
removing, detaching); one lemma per action. `LocksHonoured`, `NoDialAfterClose` and
`PromotionNeedsLogin` follow for every execution.

`NoOrphanConnection`, `OnePushSource` and `CloseLeavesNothingOpen` do not: `discover`
attaches to a record it read before the lock, and the run `gateway_manager_orphan` shows
what that does. They are proved of `ApartSpec`, the executions in which no gateway is
being removed while a discovery round is under way (the condition the run
`gateway_manager` has, too; nothing in the code enforces it), where `ApartInv` is
inductive as well: discovery's record is the table's, every open connection is owned, and
once `close` has been called, what is not yet detached is what `close_record` will detach
(`CloseOK`). Every action keeps both invariants by one and the same lemma (`Kept`), so
that the first never relies on the condition.

`DeviceProofs` holds for all brightnesses, colours, positions and temperatures that
Home Assistant can ask for and any number of choices. `KnownChoicesStay` speaks of what
an entity shows, and a light that is off shows neither level nor colour, so it is not
inductive: `Kept` says instead that the device holds every choice still known, on or off
(`Holds`), up to what the units lose, which `LevelPercents` and `ColorMireds` bound; and
`DeviceInv` adds that every command was composed from a setting this kind of device can
have (`Good`). One lemma per kind of device shows that after every payload the device has
what was chosen and what its base showed, except what `Loses` names (`Takes`). `Loses` is
therefore the list of what the payloads do lose: all of an air conditioner's settings by
off, the fan mode auto, the mode that comes with a temperature, the level of a light by
on. What the device does with a payload (`Adopts`, `Speeds`) is the model's assumption.

Only model-checked: that a client's packet goes out only on a connection that is logged
in (`WritesNeedLogin`, which holds for one connect per object, as the manager calls it),
and all liveness, which the proof system does not reach.

## Where code and documents differ

Five runs show a difference between a document, a comment or a test and the code (see
the runs above). The following were met while modelling and have no run:

- a cloud value for a field above or below one the LAN has set removes that field, or
  is stored beside it (`state_store.py:173`): the store's promises hold for fields of
  which none lies below another, which is what devices send;
- a gateway to which the cloud gives another address keeps its connection to the old
  one as long as that is up, and a reconnect in flight attaches the host it has dialled
  (`gateway_manager.py:84`);
- a gateway that hangs up right after its login answer leaves `ensure` with a connection
  that is already down, since `ready` is set without another look at the transport
  (`lib/gateway_connection.py:270`); the next call dials again;
- ARCHITECTURE.md:49 stops the coordinator and closes the connections before it unloads
  the platforms, `__init__.py:206` unloads the platforms first (which is what
  `LoadedOrClean` holds it to);
- README.md:116 has an air conditioner's off carry its mode, fan and temperature, `ac_off`
  sends zeros for them (`lib/device_control.py:545`); whether they are lost is up to the
  device, and the model leaves it open;
- README.md:120 has a fan speed carry the present temperature; `async_set_fan_mode` carries
  the one it has cached, and undoes a temperature whose report is still under way
  (`climate.py:205`; so do the other services with what they fill in);
- after a merge that stopped half way, a push that repeats what it has left in the store
  changes nothing there and is not shown until the next change or complete merge
  (`coordinator.py:383`), although ARCHITECTURE.md:57 has pushes published;
- the fan mode auto, which `climate.py:57` offers, goes out as low (`climate.py:203`); the
  mode that comes with a target temperature is ignored and a fraction of a degree cut off
  (`climate.py:187`);
- a light that is switched on is told level 255, whatever its level was
  (`lib/device_control.py:100`);
- a fan is shown by its properties, if it has ever reported any, even where a later report
  brings another `value1` (`fan.py:75`);
- the credentials of a new account are tried on a gateway of the account's first family
  only, whichever family is chosen then (`config_flow.py:200`);
- a table answered with HTTP 401 is an error of the transport, so that the token is kept
  (`lib/cloud_client.py:327`);
- an unload between the bus's removal of the start listener and its callback removes the
  listener a second time, which Home Assistant logs (`__init__.py:144`);
- an entry of version 2 without a family keeps the unique id of the account, and one
  without a unique id stays so, so that its family can be added again (`__init__.py:67`).

## Not modelled

- Framing, CRC and AES of a packet: a pure function of bytes that unit tests cover; a
  frame that does not decode ends the reader in `GatewayConnection`.
- The serial counter: one line under a lock. `GatewayConnection` takes two requests with
  one serial as an input all the same; that the counter wraps at 999,999 is no way to get
  there, since a million serials do not go by within a request's deadline.
- `device_profiles.py`, `profiles.py`: tables and pure classification, no behaviour over
  time. Sensors and binary sensors: they read one value each.
- Fans of type 81, `switch_control`, `curtain_position`, `ac_power` and `ac_mode`: the
  first is two constant payloads, the others have no caller.
- The device, entity and area registries, the removal of an entry, diagnostics,
  translations: calls into Home Assistant that keep nothing here.
- `lib/lan_controller.py`, `lib/https_client.py`: adapters kept beside the runtime that the
  integration does not run.
- Models, constants, masking and logging: no control.

## What is left

1. An abstract connection (opening, ready, down, closed) that `GatewayManager` assumes and
   `GatewayConnection` implements, as a refinement.
2. Type 81 fans.
