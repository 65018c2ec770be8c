----------------------------- MODULE StateStore -----------------------------
(***************************************************************************)
(* The versioned, source-aware store of device state (state_store.py).     *)
(*                                                                         *)
(* A device's state is a tree of nested mappings.  The store compares and  *)
(* replaces leaves only, so the tree is kept as a map from leaf paths to   *)
(* values; a path is the sequence of its segments, and Missing stands for  *)
(* a path that is not a leaf of the tree.  Every call runs to completion   *)
(* on the event loop, hence one action per method.                         *)
(***************************************************************************)
EXTENDS Integers, Sequences, SequencesExt

CONSTANTS
    Devices,        \* device identifiers that may ever be whitelisted
    Paths,          \* leaf paths an update may name
    Values,         \* leaf values
    Missing,        \* _MISSING: the path holds no leaf
    MaxMonotonic,   \* bound: the monotonic timestamps are 0..MaxMonotonic
    MaxGeneration   \* bound: the generations are 0..MaxGeneration

ASSUME MissingAssumption == Missing \notin Values
ASSUME BoundsAssumption  == MaxMonotonic \in Nat /\ MaxGeneration \in Nat

VARIABLES
    deviceIds,    \* the whitelist, _device_ids
    values,       \* _values: device -> path -> leaf value or Missing
    versions,     \* _versions: device -> path -> version or NoVersion
    generations,  \* _generations: device -> source -> last generation or None
    reply         \* the call that just returned or raised

vars == <<deviceIds, values, versions, generations, reply>>
-----------------------------------------------------------------------------
Sources == {"cloud", "lan"}
None == -1

Version == [source : Sources, monotonic : 0..MaxMonotonic, generation : 0..MaxGeneration]
NoVersion == [source |-> "none", monotonic |-> 0, generation |-> 0]

\* Two paths clash when one is a strict prefix of the other: they cannot both
\* be leaves of one tree.
Clash(p, q) == IsStrictPrefix(p, q) \/ IsStrictPrefix(q, p)
PrefixFree(S) == \A p, q \in S : ~Clash(p, q)

\* The leaves of one mapping never clash.  well = FALSE stands for an update
\* that _validate_update or _iter_leaves refuses (an empty field name, ...).
Leaves == UNION {[S -> Values] : S \in {T \in SUBSET Paths : PrefixFree(T)}}
Update == [device : Devices, version : Version, leaves : Leaves, well : BOOLEAN]

Blank(x) == [p \in Paths |-> x]
NoGeneration == [s \in Sources |-> None]

\* Slips: the source is not looked at, or the timestamp is not.
IsNewerByTime(incoming, current) ==
    \/ incoming.monotonic > current.monotonic
    \/ /\ incoming.monotonic = current.monotonic
       /\ incoming.generation >= current.generation
IsNewerByGeneration(incoming, current) ==
    IF incoming.source # current.source
      THEN incoming.source = "lan"
      ELSE incoming.generation >= current.generation

\* _is_newer
IsNewer(incoming, current) ==
    IF incoming.source # current.source
      THEN incoming.source = "lan"
      ELSE \/ incoming.monotonic > current.monotonic
           \/ /\ incoming.monotonic = current.monotonic
              /\ incoming.generation >= current.generation

\* The leaves of an update that win against the versions of their fields.
Accepted(u, version) ==
    {p \in DOMAIN u.leaves : version[p] = NoVersion \/ IsNewer(u.version, version[p])}

\* Slips: the update replaces the whole tree, or only fills in what is missing.
SetPathsAlone(state, S, leaves) == [q \in S |-> leaves[q]]
SetPathsDefault(state, S, leaves) ==
    [q \in Paths |-> IF q \in S /\ state[q] = Missing THEN leaves[q] ELSE state[q]]

\* _set_path for every path of S: writing a leaf replaces whatever is stored
\* below it, and a leaf on the way down is replaced by a mapping.
SetPaths(state, S, leaves) ==
    [q \in Paths |->
        IF q \in S THEN leaves[q]
        ELSE IF \E p \in S : Clash(p, q) THEN Missing
        ELSE state[q]]

\* Slip: any generation is accepted.
NeverStale(u, generation) == FALSE

Stale(u, generation) == generation # None /\ u.version.generation < generation

Raise(u, error) ==
    /\ reply' = [call |-> "apply", source |-> u.version.source, result |-> error]
    /\ UNCHANGED <<deviceIds, values, versions, generations>>
-----------------------------------------------------------------------------
Init ==
    /\ deviceIds \in SUBSET Devices \ {{}}
    /\ values = [d \in Devices |-> Blank(Missing)]
    /\ versions = [d \in Devices |-> Blank(NoVersion)]
    /\ generations = [d \in Devices |-> NoGeneration]
    /\ reply = [call |-> "init", source |-> "none", result |-> "ok"]

\* add_devices: a device already known keeps its fields and versions.
AddDevices(ids) ==
    LET new == ids \ deviceIds IN
    /\ deviceIds' = deviceIds \union new
    /\ values' = [d \in Devices |-> IF d \in new THEN Blank(Missing) ELSE values[d]]
    /\ versions' = [d \in Devices |-> IF d \in new THEN Blank(NoVersion) ELSE versions[d]]
    /\ generations' = [d \in Devices |-> IF d \in new THEN NoGeneration ELSE generations[d]]
    /\ reply' = [call |-> "add", source |-> "none", result |-> "ok"]

\* Slip: the versions of a removed device are kept.
RetainVersions(ids) ==
    LET removed == deviceIds \ ids IN
    /\ deviceIds' = deviceIds \intersect ids
    /\ values' = [d \in Devices |-> IF d \in removed THEN Blank(Missing) ELSE values[d]]
    /\ generations' = [d \in Devices |-> IF d \in removed THEN NoGeneration ELSE generations[d]]
    /\ reply' = [call |-> "retain", source |-> "none", result |-> "ok"]
    /\ UNCHANGED versions

\* retain_devices: popping an entry leaves nothing of the removed device.
RetainDevices(ids) ==
    LET removed == deviceIds \ ids IN
    /\ deviceIds' = deviceIds \intersect ids
    /\ values' = [d \in Devices |-> IF d \in removed THEN Blank(Missing) ELSE values[d]]
    /\ versions' = [d \in Devices |-> IF d \in removed THEN Blank(NoVersion) ELSE versions[d]]
    /\ generations' = [d \in Devices |-> IF d \in removed THEN NoGeneration ELSE generations[d]]
    /\ reply' = [call |-> "retain", source |-> "none", result |-> "ok"]

\* apply, refused before anything is touched
ApplyUnknownDevice(u) == u.device \notin deviceIds /\ Raise(u, "unknown_device")
ApplyMalformed(u) == u.device \in deviceIds /\ ~u.well /\ Raise(u, "malformed")
ApplyStale(u) ==
    /\ u.device \in deviceIds /\ u.well
    /\ Stale(u, generations[u.device][u.version.source])
    /\ Raise(u, "stale_generation")

\* apply, merged field by field
ApplyMerge(u) ==
    LET d == u.device
        won == Accepted(u, versions[d])
    IN
    /\ d \in deviceIds /\ u.well
    /\ ~Stale(u, generations[d][u.version.source])
    /\ generations' = [generations EXCEPT ![d][u.version.source] = u.version.generation]
    /\ values' = [values EXCEPT ![d] = SetPaths(values[d], won, u.leaves)]
    /\ versions' = [versions EXCEPT ![d] =
                       [p \in Paths |-> IF p \in won THEN u.version ELSE versions[d][p]]]
    /\ reply' = [call |-> "apply", source |-> u.version.source,
                 result |-> IF \E p \in won : values[d][p] # u.leaves[p]
                              THEN "changed" ELSE "unchanged"]
    /\ UNCHANGED deviceIds

Apply(u) ==
    \/ ApplyUnknownDevice(u)
    \/ ApplyMalformed(u)
    \/ ApplyStale(u)
    \/ ApplyMerge(u)

Next ==
    \/ \E ids \in SUBSET Devices : AddDevices(ids)
    \/ \E ids \in SUBSET Devices : RetainDevices(ids)
    \/ \E u \in Update : Apply(u)

Spec == Init /\ [][Next]_vars
-----------------------------------------------------------------------------
Reply == [call : {"init", "add", "retain", "apply"},
          source : Sources \union {"none"},
          result : {"ok", "changed", "unchanged",
                    "unknown_device", "malformed", "stale_generation"}]

\* Every variable has its type.
TypeOK ==
    /\ deviceIds \subseteq Devices
    /\ values \in [Devices -> [Paths -> Values \union {Missing}]]
    /\ versions \in [Devices -> [Paths -> Version \union {NoVersion}]]
    /\ generations \in [Devices -> [Sources -> (0..MaxGeneration) \union {None}]]
    /\ reply \in Reply

\* The visible leaves and the versions that guard them never come apart: a
\* field is visible exactly when a version says which update put it there.
VersionedFields ==
    \A d \in Devices, p \in Paths : values[d][p] = Missing <=> versions[d][p] = NoVersion

\* Nothing of a device outside the whitelist is remembered, so a device that
\* is removed and comes back starts from the first snapshot it is given.
ForgottenOutsideWhitelist ==
    \A d \in Devices \ deviceIds :
        /\ values[d] = Blank(Missing)
        /\ versions[d] = Blank(NoVersion)
        /\ generations[d] = NoGeneration

\* No field carries a version whose generation is ahead of the last one
\* accepted from that source: the check against stale generations covers
\* every field that is shown.
GenerationCoversFields ==
    \A d \in Devices, p \in Paths :
        LET v == versions[d][p] IN
        v # NoVersion => v.generation <= generations[d][v.source]

\* "LAN pushes take precedence over older cloud snapshots" (ARCHITECTURE.md,
\* test_older_cloud_cannot_roll_back_lan_field): as long as its device is
\* kept, a field shown from the LAN changes only by a LAN update.
LanNeverRolledBack ==
    [][\A d \in deviceIds \intersect deviceIds', p \in Paths :
          versions[d][p].source = "lan" /\ values'[d][p] # values[d][p]
            => reply'.call = "apply" /\ reply'.source = "lan"]_vars

\* apply returns TRUE exactly when what the store shows has changed: the
\* coordinator publishes on TRUE and stays silent on FALSE.
ChangedIffVisible ==
    [][reply'.call = "apply" => (reply'.result = "changed" <=> values' # values)]_vars
=============================================================================
