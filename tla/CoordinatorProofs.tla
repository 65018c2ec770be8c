------------------------- MODULE CoordinatorProofs -------------------------
(***************************************************************************)
(* Proofs about Coordinator, for all devices, gateways, states, cloud      *)
(* results and any number of overlapping refreshes.                        *)
(***************************************************************************)
EXTENDS Coordinator, TLAPS

\* What a cloud result says of a device it names.
LEMMA SnapshotParts ==
    ASSUME NEW snap \in Snapshots, NEW d \in DOMAIN snap
    PROVE  d \in Devices /\ snap[d].gateway \in Gateways /\ snap[d].value \in Values
<1>1. d \in Devices /\ snap[d] \in [gateway : Gateways, value : Values]
  BY SnapshotsAssumption
<1> QED
  BY <1>1

\* Whichever devices of a cloud result have been applied, the store is well
\* formed, and it knows the devices the result names and no others.
LEMMA MergedForParts ==
    ASSUME TypeOK, NEW snap \in Snapshots, NEW f \in Fetchers, NEW applied \in SUBSET DOMAIN snap,
           store' = MergedFor(snap, f, applied)
    PROVE  /\ store' \in [Devices -> Fields]
           /\ \A d \in Devices : Known(d)' <=> d \in DOMAIN snap
<1>1. \A d \in Devices : store[d] \in Fields
  BY DEF TypeOK, Fields
<1>2. \A d \in Devices : store'[d] \in Fields
  BY <1>1, SnapshotParts DEF MergedFor, Out, Unset, FromCloud, Fields
<1>3. \A d \in Devices : Known(d)' <=> d \in DOMAIN snap
  BY DEF MergedFor, Known, Out, Unset, FromCloud
<1> QED
  BY <1>2, <1>3 DEF MergedFor

\* After the merge of a cloud result the store, the gateways and the states
\* entities read have their types and agree (_refresh_devices_from_cloud).
LEMMA MergeIsConsistent ==
    ASSUME TypeOK, NEW snap \in Snapshots, NEW f \in Fetchers, Merge(snap, f)
    PROVE  /\ store' \in [Devices -> Fields]
           /\ devices' \in [Devices -> Gateways \union {Nobody}]
           /\ shown' \in Shown /\ torn' = FALSE
           /\ ViewsAgree'
           /\ DOMAIN snap = {} => shown' = Nothing
<1>1. store' \in [Devices -> Fields] /\ \A d \in Devices : Known(d)' <=> d \in DOMAIN snap
  BY MergedForParts DEF Merge, Merged
<1>2. devices' \in [Devices -> Gateways \union {Nobody}]
  BY SnapshotParts DEF Merge
<1>3. shown' \in Shown
  BY <1>1 DEF Merge, View, Shown, Fields
<1>4. \A d \in Devices : d \in DOMAIN snap <=> devices'[d] # Nobody
  BY SnapshotParts, NobodyAssumption DEF Merge
<1>5. DOMAIN snap = {} => shown' = Nothing
  BY DEF Merge, Merged, MergedFor, View, Nothing, Out
<1> QED
  BY <1>1, <1>2, <1>3, <1>4, <1>5 DEF Merge, View, ViewsAgree

\* A merge that stops half way leaves the store well formed.
LEMMA StoppedMerge ==
    ASSUME TypeOK, NEW snap \in Snapshots, NEW f \in Fetchers, MergeStops(snap, f)
    PROVE  store' \in [Devices -> Fields] /\ torn' = TRUE /\ UNCHANGED <<devices, shown>>
<1>1. PICK applied \in SUBSET DOMAIN snap : store' = MergedFor(snap, f, applied)
  BY DEF MergeStops
<1> QED
  BY <1>1, MergedForParts DEF MergeStops
-----------------------------------------------------------------------------
\* Every variable has its type.
THEOREM TypeCorrect == Spec => []TypeOK
<1>1. Init => TypeOK
  <2> SUFFICES ASSUME Init PROVE TypeOK
    OBVIOUS
  <2>1. Out \in Fields /\ Nothing \in Shown
    BY DEF Out, Fields, Nothing, Shown
  <2>2. Nothing \in [Devices -> Gateways \union {Nobody}]
    BY DEF Nothing
  <2> QED
    BY <2>1, <2>2 DEF Init, TypeOK, Fetchers
<1>2. ASSUME TypeOK, [Next]_vars PROVE TypeOK'
  <2> USE <1>2 DEF TypeOK
  <2>1. CASE SetupLogin
    BY <2>1 DEF SetupLogin, stateVars, Fetchers
  <2>2. CASE SetupFails
    BY <2>2 DEF SetupFails, stateVars
  <2>3. CASE SetupConnected
    BY <2>3 DEF SetupConnected, stateVars
  <2>4. ASSUME NEW snap \in Snapshots, SetupFetched(snap) PROVE TypeOK'
    BY <2>4, MergeIsConsistent DEF SetupFetched, PublishMerged, Fetchers, Fields
  <2>12. ASSUME NEW snap \in Snapshots, SetupStops(snap) PROVE TypeOK'
    BY <2>12, StoppedMerge DEF SetupStops, Fetchers, Fields
  <2>5. ASSUME NEW f \in Refreshes, RefreshBegin(f) PROVE TypeOK'
    BY <2>5 DEF RefreshBegin, stateVars, taskVars, Fetchers
  <2>6. ASSUME NEW f \in Refreshes, RefreshStep(f) PROVE TypeOK'
    <3>1. CASE RefreshFails(f) \/ RefreshReconciled(f) \/ RefreshEnds(f)
      BY <3>1 DEF RefreshFails, RefreshReconciled, RefreshEnds, stateVars, taskVars
    <3>2. ASSUME NEW snap \in Snapshots, RefreshFetched(f, snap) \/ RefreshFetchedLate(f, snap)
          PROVE TypeOK'
      <4>1. f \in Fetchers /\ Merge(snap, f)
        BY <3>2 DEF Fetchers, RefreshFetched, RefreshFetchedLate
      <4> QED
        BY <3>2, <4>1, MergeIsConsistent
           DEF RefreshFetched, RefreshFetchedLate, PublishMerged, taskVars, Fields
    <3>3. ASSUME NEW snap \in Snapshots, RefreshStops(f, snap) PROVE TypeOK'
      <4>1. f \in Fetchers /\ MergeStops(snap, f)
        BY <3>3 DEF Fetchers, RefreshStops
      <4> QED
        BY <3>3, <4>1, StoppedMerge DEF RefreshStops, taskVars, Fields
    <3> QED
      BY <2>6, <3>1, <3>2, <3>3 DEF RefreshStep
  <2>7. ASSUME NEW d \in Devices, NEW g \in Gateways, NEW v \in Values, Push(d, g, v)
        PROVE TypeOK'
    <3>1. FromLan(v) \in Fields
      BY DEF FromLan, Fields
    <3>2. store' \in [Devices -> Fields]
      BY <2>7, <3>1 DEF Push
    <3>3. shown' \in Shown
      BY <2>7, <3>2 DEF Push, View, Shown, Fields
    <3> QED
      BY <2>7, <3>2, <3>3 DEF Push, NotifyAfter, taskVars
  <2>8. CASE DebounceEnds \/ Publish
    BY <2>8 DEF DebounceEnds, Publish, stateVars, taskVars
  <2>9. CASE DiscoverBegin \/ DiscoverEnds
    BY <2>9 DEF DiscoverBegin, DiscoverEnds, stateVars
  <2>10. CASE CleanupBegin \/ CleanupStep
    <3>1. CASE CleanupBegin \/ CleanupTasksEnded
      BY <3>1 DEF CleanupBegin, CleanupTasksEnded, stateVars
    <3>2. CASE CleanupEnds
      <4>1. Out \in Fields /\ Nothing \in Shown
        BY DEF Out, Fields, Nothing, Shown
      <4>2. Nothing \in [Devices -> Gateways \union {Nobody}]
        BY DEF Nothing
      <4> QED
        BY <3>2, <4>1, <4>2 DEF CleanupEnds, Fields
    <3> QED
      BY <2>10, <3>1, <3>2 DEF CleanupStep
  <2>11. CASE UNCHANGED vars
    BY <2>11 DEF vars, stateVars, taskVars
  <2> QED
    BY <2>1, <2>2, <2>3, <2>4, <2>5, <2>6, <2>7, <2>8, <2>9, <2>10, <2>11,
       <2>12 DEF Next, PushStep
<1> QED
  BY <1>1, <1>2, PTL DEF Spec

\* However refreshes, pushes and cleanup interleave, the store, the gateways and
\* what entities read disagree only after a merge that stopped half way, and no
\* longer than until the next one is completed (coordinator.py:155, 290, 523).
THEOREM OnlyStoppedMergesTear == Spec => []ViewsAgree
<1>1. Init => ViewsAgree
  BY DEF Init, ViewsAgree, Known, Out, Nothing, View
<1>2. ASSUME TypeOK, ViewsAgree, [Next]_vars PROVE ViewsAgree'
  <2> USE <1>2
  <2>1. CASE UNCHANGED stateVars
    BY <2>1 DEF stateVars, ViewsAgree, Known, View
  <2>2. ASSUME NEW snap \in Snapshots, NEW f \in Fetchers, Merge(snap, f) PROVE ViewsAgree'
    BY <2>2, MergeIsConsistent
  <2>3. ASSUME NEW snap \in Snapshots, NEW f \in Fetchers, MergeStops(snap, f) PROVE ViewsAgree'
    BY <2>3, StoppedMerge DEF ViewsAgree
  <2>4. ASSUME NEW d \in Devices, NEW g \in Gateways, NEW v \in Values, Push(d, g, v)
        PROVE ViewsAgree'
    <3> SUFFICES ASSUME ~torn' PROVE (\A e \in Devices : Known(e) <=> devices[e] # Nobody)' /\ shown' = View(store')
      BY DEF ViewsAgree, View
    <3>1. ~torn /\ UNCHANGED devices /\ Trusted(d, g) /\ store' = [store EXCEPT ![d] = FromLan(v)]
      BY <2>4 DEF Push
    <3>2. (\A e \in Devices : Known(e) <=> devices[e] # Nobody) /\ shown = View(store)
      BY <3>1 DEF ViewsAgree
    <3>3. (\A e \in Devices : Known(e) <=> devices[e] # Nobody)'
      BY <3>1, <3>2 DEF TypeOK, Trusted, FromLan, Known
    <3>4. store[d].value = v => View(store') = View(store)
      BY <3>1 DEF View, FromLan, TypeOK
    <3> QED
      BY <2>4, <3>2, <3>3, <3>4 DEF Push
  <2>5. CASE CleanupEnds
    BY <2>5 DEF CleanupEnds, ViewsAgree, Known, Out, Nothing, View
  <2>6. CASE \E snap \in Snapshots : SetupFetched(snap) \/ SetupStops(snap)
    BY <2>2, <2>3, <2>6 DEF SetupFetched, SetupStops, Fetchers
  <2>7. ASSUME NEW f \in Refreshes, RefreshStep(f) PROVE ViewsAgree'
    BY <2>1, <2>2, <2>3, <2>7 DEF RefreshStep, RefreshFails, RefreshStops, RefreshFetched,
                                  RefreshFetchedLate, RefreshReconciled, RefreshEnds, Fetchers
  <2> QED
    BY <2>1, <2>4, <2>5, <2>6, <2>7
       DEF Next, PushStep, SetupLogin, SetupFails, SetupConnected, RefreshBegin, DebounceEnds,
           Publish, DiscoverBegin, DiscoverEnds, CleanupBegin, CleanupStep, CleanupTasksEnded,
           vars
<1> QED
  BY <1>1, <1>2, TypeCorrect, PTL DEF Spec
-----------------------------------------------------------------------------
\* Before the first fetch has been merged nothing is published, nothing is
\* about to be and no refresh runs.
SetupQuiet ==
    setup \in {"login", "fetch"} =>
        /\ data = Nothing /\ notify = "off"
        /\ \A f \in Refreshes : pc[f] = "idle"

\* Every change entities could read is about to be published, for any number
\* of refreshes (coordinator.py:657; _sync_public_states, 591).
THEOREM NoUpdateIsLost == Spec => []NoLostUpdate
<1> DEFINE Inv == SetupQuiet /\ NoLostUpdate
<1>1. Init => Inv
  BY DEF Init, SetupQuiet, NoLostUpdate
<1>2. ASSUME TypeOK, Inv, [Next]_vars PROVE Inv'
  <2> USE <1>2
  <2>1. CASE SetupLogin
    BY <2>1 DEF SetupLogin, stateVars, SetupQuiet, NoLostUpdate, Nothing
  <2>2. CASE SetupFails
    BY <2>2 DEF SetupFails, stateVars, SetupQuiet, NoLostUpdate
  <2>3. CASE SetupConnected
    BY <2>3 DEF SetupConnected, stateVars, SetupQuiet, NoLostUpdate
  <2>4. ASSUME NEW snap \in Snapshots, SetupFetched(snap) PROVE Inv'
    <3>1. DOMAIN snap = {} => shown' = Nothing
      BY <2>4, MergeIsConsistent DEF SetupFetched, Fetchers
    <3>2. data' = shown'
      BY <2>4, <3>1 DEF SetupFetched, PublishMerged, SetupQuiet
    <3> QED
      BY <2>4, <3>2 DEF SetupFetched, SetupQuiet, NoLostUpdate
  <2>12. ASSUME NEW snap \in Snapshots, SetupStops(snap) PROVE Inv'
    BY <2>12 DEF SetupStops, MergeStops, SetupQuiet, NoLostUpdate
  <2>5. ASSUME NEW f \in Refreshes, RefreshBegin(f) PROVE Inv'
    BY <2>5 DEF RefreshBegin, stateVars, taskVars, SetupQuiet, NoLostUpdate, TypeOK
  <2>6. ASSUME NEW f \in Refreshes, RefreshStep(f) PROVE Inv'
    <3>1. setup \notin {"login", "fetch"} /\ UNCHANGED taskVars
      BY <2>6 DEF RefreshStep, RefreshFails, RefreshStops, RefreshFetched, RefreshFetchedLate,
                  RefreshReconciled, RefreshEnds, SetupQuiet
    <3>2. SetupQuiet'
      BY <3>1 DEF SetupQuiet, taskVars
    <3>3. CASE RefreshFails(f)
      BY <3>2, <3>3 DEF RefreshFails, stateVars, taskVars, NoLostUpdate, TypeOK
    <3>4. CASE \E snap \in Snapshots : RefreshFetched(f, snap)
      BY <3>2, <3>4 DEF RefreshFetched, NoLostUpdate, TypeOK
    <3>5. CASE RefreshReconciled(f)
      BY <3>2, <3>5 DEF RefreshReconciled, stateVars, taskVars, NoLostUpdate, TypeOK
    <3>6. CASE \E snap \in Snapshots : RefreshFetchedLate(f, snap)
      BY <3>2, <3>6 DEF RefreshFetchedLate, NoLostUpdate
    <3>7. CASE RefreshEnds(f)
      BY <3>2, <3>7 DEF RefreshEnds, stateVars, NoLostUpdate
    <3>8. CASE \E snap \in Snapshots : RefreshStops(f, snap)
      BY <3>2, <3>8 DEF RefreshStops, MergeStops, taskVars, NoLostUpdate, TypeOK
    <3> QED
      BY <2>6, <3>3, <3>4, <3>5, <3>6, <3>7, <3>8 DEF RefreshStep
  <2>7. ASSUME NEW d \in Devices, NEW g \in Gateways, NEW v \in Values, Push(d, g, v)
        PROVE Inv'
    <3>1. setup \notin {"login", "fetch"} /\ UNCHANGED <<setup, cleanup, data, pc>>
      BY <2>7 DEF Push, MayPush, taskVars
    <3>2. CASE store[d].value # v
      BY <2>7, <3>1, <3>2 DEF Push, NotifyAfter, SetupQuiet, NoLostUpdate
    <3>3. CASE store[d].value = v
      BY <2>7, <3>1, <3>3 DEF Push, NotifyAfter, SetupQuiet, NoLostUpdate
    <3> QED
      BY <3>2, <3>3
  <2>8. CASE DebounceEnds \/ Publish
    BY <2>8 DEF DebounceEnds, Publish, stateVars, taskVars, SetupQuiet, NoLostUpdate
  <2>9. CASE DiscoverBegin \/ DiscoverEnds
    BY <2>9 DEF DiscoverBegin, DiscoverEnds, stateVars, SetupQuiet, NoLostUpdate
  <2>10. CASE CleanupBegin \/ CleanupStep
    BY <2>10 DEF CleanupBegin, CleanupStep, CleanupTasksEnded, CleanupEnds, stateVars,
                 SetupQuiet, NoLostUpdate
  <2>11. CASE UNCHANGED vars
    BY <2>11 DEF vars, stateVars, taskVars, SetupQuiet, NoLostUpdate
  <2> QED
    BY <2>1, <2>2, <2>3, <2>4, <2>5, <2>6, <2>7, <2>8, <2>9, <2>10, <2>11,
       <2>12 DEF Next, PushStep
<1> QED
  BY <1>1, <1>2, TypeCorrect, PTL DEF Spec

\* A LAN state is given up only when the cloud drops the device or the entry
\* is cleaned up (StateStore.apply as the refresh uses it).
THEOREM LanStateOutlivesRefresh == Spec => LanOutlivesRefresh
<1> DEFINE Keeps(d) == store[d].source = "lan" /\ store'[d].source # "lan" =>
                           ~Known(d)' /\ (devices'[d] = Nobody \/ torn')
<1>1. ASSUME TypeOK, [Next]_vars PROVE \A d \in Devices : Keeps(d)
  <2> SUFFICES ASSUME NEW d \in Devices PROVE Keeps(d)
    OBVIOUS
  <2>1. CASE UNCHANGED stateVars
    BY <2>1 DEF stateVars
  <2>2. ASSUME NEW snap, NEW f \in Fetchers, NEW applied, store' = MergedFor(snap, f, applied),
               store[d].source = "lan", store'[d].source # "lan"
        PROVE  d \notin DOMAIN snap /\ ~Known(d)'
    BY <2>2 DEF MergedFor, Takes, Known, Out
  <2>3. ASSUME NEW snap \in Snapshots, NEW f \in Fetchers, Merge(snap, f) PROVE Keeps(d)
    BY <2>2, <2>3 DEF Merge, Merged
  <2>4. ASSUME NEW snap \in Snapshots, NEW f \in Fetchers, MergeStops(snap, f) PROVE Keeps(d)
    BY <2>2, <2>4 DEF MergeStops
  <2>5. ASSUME NEW e \in Devices, NEW g \in Gateways, NEW v \in Values, Push(e, g, v)
        PROVE Keeps(d)
    BY <1>1, <2>5 DEF TypeOK, Push, FromLan
  <2>6. CASE CleanupEnds
    BY <2>6 DEF CleanupEnds, Nothing, Known, Out
  <2>7. CASE \E snap \in Snapshots : SetupFetched(snap) \/ SetupStops(snap)
    BY <2>3, <2>4, <2>7 DEF SetupFetched, SetupStops, Fetchers
  <2>8. ASSUME NEW f \in Refreshes, RefreshStep(f) PROVE Keeps(d)
    BY <2>1, <2>3, <2>4, <2>8 DEF RefreshStep, RefreshFails, RefreshStops, RefreshFetched,
                                  RefreshFetchedLate, RefreshReconciled, RefreshEnds, Fetchers
  <2> QED
    BY <1>1, <2>1, <2>5, <2>6, <2>7, <2>8
       DEF Next, PushStep, SetupLogin, SetupFails, SetupConnected, RefreshBegin, DebounceEnds,
           Publish, DiscoverBegin, DiscoverEnds, CleanupBegin, CleanupStep, CleanupTasksEnded,
           vars
<1> QED
  BY <1>1, TypeCorrect, PTL DEF Spec, LanOutlivesRefresh

\* A cloud state was brought by some fetch.
Brought == \A d \in Devices : store[d].source = "cloud" => store[d].by \in Fetchers

\* Of overlapping refreshes the later one decides (coordinator.py:158: the
\* timestamp is read before the fetch).
THEOREM LaterFetchDecides == Spec => LaterFetchWins
<1>1. Init => Brought
  BY DEF Init, Brought, Out
<1>2. ASSUME TypeOK, Brought, [Next]_vars
      PROVE  /\ Brought'
             /\ \A d \in Devices :
                   store[d].source = "cloud" /\ store'[d].source = "cloud" =>
                       stamp[store[d].by] <= stamp[store'[d].by]
  <2> DEFINE Later ==
          \A d \in Devices :
              store[d].source = "cloud" /\ store'[d].source = "cloud" =>
                  stamp[store[d].by] <= stamp[store'[d].by]
  <2> USE <1>2
  <2>1. CASE UNCHANGED store
    BY <2>1 DEF Brought, TypeOK
  <2>2. ASSUME NEW snap \in Snapshots, NEW f \in Fetchers, NEW applied,
               store' = MergedFor(snap, f, applied), UNCHANGED stamp
        PROVE  Brought' /\ Later
    BY <2>2 DEF MergedFor, Takes, StampOf, FromCloud, Out, Unset, Brought, TypeOK
  <2>3. ASSUME NEW e \in Devices, NEW g \in Gateways, NEW v \in Values, Push(e, g, v)
        PROVE Brought' /\ Later
    BY <2>3 DEF TypeOK, Push, FromLan, Brought
  <2>4. CASE CleanupEnds
    BY <2>4 DEF CleanupEnds, Out, Brought
  <2>5. CASE \E snap \in Snapshots : SetupFetched(snap) \/ SetupStops(snap)
    BY <2>2, <2>5 DEF SetupFetched, SetupStops, Merge, Merged, MergeStops, Fetchers
  <2>6. ASSUME NEW f \in Refreshes, RefreshStep(f) PROVE Brought' /\ Later
    <3>1. CASE \E snap \in Snapshots : RefreshFetched(f, snap) \/ RefreshFetchedLate(f, snap)
      BY <2>2, <3>1 DEF RefreshFetched, RefreshFetchedLate, Merge, Merged, Fetchers
    <3>2. CASE \E snap \in Snapshots : RefreshStops(f, snap)
      BY <2>2, <3>2 DEF RefreshStops, MergeStops, Fetchers
    <3> QED
      BY <2>1, <2>6, <3>1, <3>2
         DEF RefreshStep, RefreshFails, RefreshReconciled, RefreshEnds, stateVars
  <2> QED
    BY <2>1, <2>3, <2>4, <2>5, <2>6
       DEF Next, PushStep, SetupLogin, SetupFails, SetupConnected, RefreshBegin, DebounceEnds,
           Publish, DiscoverBegin, DiscoverEnds, CleanupBegin, CleanupStep, CleanupTasksEnded,
           vars, stateVars
<1> QED
  BY <1>1, <1>2, TypeCorrect, PTL DEF Spec, LaterFetchWins
=============================================================================
