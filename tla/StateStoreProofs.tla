-------------------------- MODULE StateStoreProofs --------------------------
(***************************************************************************)
(* Proofs about StateStore and its history, for all devices, values and    *)
(* bounds.  The theorems about fields assume that no two paths clash; the  *)
(* clashing case is refuted by TLC (run state_store_clash).                *)
(***************************************************************************)
EXTENDS StateStoreHistory, TLAPS

\* What a write does to a path when no two paths clash: only the written
\* paths change (_set_path, state_store.py:173).
LEMMA SetPathsIsLocal ==
    ASSUME PrefixFree(Paths), NEW state, NEW S \in SUBSET Paths, NEW leaves,
           NEW q \in Paths
    PROVE  SetPaths(state, S, leaves)[q] = IF q \in S THEN leaves[q] ELSE state[q]
<1>1. \A p \in S : ~Clash(p, q)
  BY DEF PrefixFree
<1> QED
  BY <1>1 DEF SetPaths

\* An update is a record of its four parts, and its leaves map some paths to
\* values (models.py:32, StateUpdate).
LEMMA UpdateParts ==
    ASSUME NEW u \in Update
    PROVE  /\ u.device \in Devices
           /\ u.version \in Version
           /\ DOMAIN u.leaves \subseteq Paths
           /\ \A p \in DOMAIN u.leaves : u.leaves[p] \in Values
<1>1. u.leaves \in Leaves /\ u.device \in Devices /\ u.version \in Version
  BY DEF Update
<1>2. PICK S \in SUBSET Paths : u.leaves \in [S -> Values]
  BY <1>1 DEF Leaves
<1> QED
  BY <1>1, <1>2
-----------------------------------------------------------------------------
\* Every variable has its type (the maps of StateStore.__init__).
THEOREM TypeCorrect == Spec => []TypeOK
<1>1. Init => TypeOK
  BY MissingAssumption DEF Init, TypeOK, Blank, NoGeneration, Reply
<1>2. ASSUME TypeOK, [Next]_vars PROVE TypeOK'
  <2>1. ASSUME NEW ids \in SUBSET Devices, AddDevices(ids) PROVE TypeOK'
    BY <1>2, <2>1 DEF TypeOK, AddDevices, Blank, NoGeneration, Reply
  <2>2. ASSUME NEW ids \in SUBSET Devices, RetainDevices(ids) PROVE TypeOK'
    BY <1>2, <2>2 DEF TypeOK, RetainDevices, Blank, NoGeneration, Reply
  <2>3. ASSUME NEW u \in Update, Apply(u) PROVE TypeOK'
    <3> USE UpdateParts
    <3>1. u.version.source \in Sources /\ u.version.generation \in 0..MaxGeneration
      BY DEF Version
    <3>2. CASE ApplyUnknownDevice(u) \/ ApplyMalformed(u) \/ ApplyStale(u)
      BY <1>2, <3>1, <3>2 DEF TypeOK, ApplyUnknownDevice, ApplyMalformed, ApplyStale,
                              Raise, Reply
    <3>3. CASE ApplyMerge(u)
      <4> DEFINE won == Accepted(u, versions[u.device])
      <4>1. won \subseteq DOMAIN u.leaves
        BY DEF Accepted
      <4>2. SetPaths(values[u.device], won, u.leaves) \in [Paths -> Values \union {Missing}]
        BY <1>2, <4>1 DEF SetPaths, TypeOK
      <4>3. values' \in [Devices -> [Paths -> Values \union {Missing}]]
        BY <1>2, <3>3, <4>2 DEF TypeOK, ApplyMerge
      <4>4. versions' \in [Devices -> [Paths -> Version \union {NoVersion}]]
        BY <1>2, <3>3 DEF TypeOK, ApplyMerge
      <4>5. generations' \in [Devices -> [Sources -> (0..MaxGeneration) \union {None}]]
        BY <1>2, <3>3, <3>1 DEF TypeOK, ApplyMerge
      <4>6. reply' \in Reply
        BY <3>3, <3>1 DEF ApplyMerge, Reply
      <4> QED
        BY <1>2, <3>3, <4>3, <4>4, <4>5, <4>6 DEF TypeOK, ApplyMerge
    <3> QED
      BY <2>3, <3>2, <3>3 DEF Apply
  <2>4. CASE UNCHANGED vars
    BY <1>2, <2>4 DEF TypeOK, vars
  <2> QED
    BY <1>2, <2>1, <2>2, <2>3, <2>4 DEF Next
<1> QED
  BY <1>1, <1>2, PTL DEF Spec
\* Whatever a device showed is forgotten with it, versions and generations
\* included (retain_devices, state_store.py:58).
THEOREM RemovedIsForgotten == Spec => []ForgottenOutsideWhitelist
<1>1. Init => ForgottenOutsideWhitelist
  BY DEF Init, ForgottenOutsideWhitelist
<1>2. ASSUME TypeOK, ForgottenOutsideWhitelist, [Next]_vars PROVE ForgottenOutsideWhitelist'
  <2>1. ASSUME NEW ids \in SUBSET Devices, AddDevices(ids) PROVE ForgottenOutsideWhitelist'
    BY <1>2, <2>1 DEF ForgottenOutsideWhitelist, AddDevices
  <2>2. ASSUME NEW ids \in SUBSET Devices, RetainDevices(ids) PROVE ForgottenOutsideWhitelist'
    BY <1>2, <2>2 DEF ForgottenOutsideWhitelist, RetainDevices
  <2>3. ASSUME NEW u \in Update, Apply(u) PROVE ForgottenOutsideWhitelist'
    <3>1. CASE ApplyMerge(u)
      <4>1. u.device \in deviceIds /\ deviceIds' = deviceIds
        BY <3>1 DEF ApplyMerge
      <4>2. \A d \in Devices \ {u.device} : /\ values'[d] = values[d]
                                          /\ versions'[d] = versions[d]
                                          /\ generations'[d] = generations[d]
        BY <1>2, <3>1 DEF ApplyMerge, TypeOK
      <4> QED
        BY <1>2, <4>1, <4>2 DEF ForgottenOutsideWhitelist
    <3> QED
      BY <1>2, <2>3, <3>1 DEF Apply, ApplyUnknownDevice, ApplyMalformed, ApplyStale, Raise,
                              ForgottenOutsideWhitelist
  <2>4. CASE UNCHANGED vars
    BY <1>2, <2>4 DEF ForgottenOutsideWhitelist, vars
  <2> QED
    BY <1>2, <2>1, <2>2, <2>3, <2>4 DEF Next
<1> QED
  BY <1>1, <1>2, TypeCorrect, PTL DEF Spec

\* No field shown is ahead of the generation its source has been accepted at
\* (apply, state_store.py:77-83).
THEOREM GenerationsCoverFields == Spec => []GenerationCoversFields
<1>1. Init => GenerationCoversFields
  BY DEF Init, GenerationCoversFields, Blank
<1>2. ASSUME TypeOK, GenerationCoversFields, [Next]_vars PROVE GenerationCoversFields'
  <2>1. ASSUME NEW ids \in SUBSET Devices, AddDevices(ids) PROVE GenerationCoversFields'
    BY <1>2, <2>1 DEF GenerationCoversFields, AddDevices, Blank
  <2>2. ASSUME NEW ids \in SUBSET Devices, RetainDevices(ids) PROVE GenerationCoversFields'
    BY <1>2, <2>2 DEF GenerationCoversFields, RetainDevices, Blank
  <2>3. ASSUME NEW u \in Update, Apply(u) PROVE GenerationCoversFields'
    <3>1. CASE ApplyMerge(u)
      <4> SUFFICES ASSUME NEW d \in Devices, NEW p \in Paths, versions'[d][p] # NoVersion
                   PROVE  versions'[d][p].generation <= generations'[d][versions'[d][p].source]
        BY DEF GenerationCoversFields
      <4> DEFINE s == u.version.source
                 g == u.version.generation
      <4>0. u.device \in Devices /\ s \in Sources /\ g \in 0..MaxGeneration
        BY UpdateParts DEF Version
      <4>1. generations'[u.device][s] = g /\ g >= generations[u.device][s]
        <5>1. generations'[u.device][s] = g
          BY <1>2, <3>1, <4>0 DEF ApplyMerge, TypeOK
        <5>2. ~Stale(u, generations[u.device][s])
          BY <3>1 DEF ApplyMerge
        <5>3. generations[u.device][s] \in (0..MaxGeneration) \union {None}
          BY <1>2, <4>0 DEF TypeOK
        <5> QED
          BY <4>0, <5>1, <5>2, <5>3 DEF Stale, None
      <4>2. \A e \in Devices, r \in Sources :
              ~(e = u.device /\ r = s) => generations'[e][r] = generations[e][r]
        BY <1>2, <3>1, <4>0 DEF ApplyMerge, TypeOK
      <4>3. (versions'[d][p] = u.version /\ d = u.device) \/ versions'[d][p] = versions[d][p]
        BY <1>2, <3>1, <4>0 DEF ApplyMerge, TypeOK
      <4>4. CASE versions'[d][p] = u.version /\ d = u.device
        BY <4>0, <4>1, <4>4
      <4>5. CASE versions'[d][p] = versions[d][p]
        <5> DEFINE v == versions[d][p]
        <5>1. v.source \in Sources /\ v.generation \in 0..MaxGeneration
          BY <1>2, <4>5 DEF TypeOK, Version
        <5>2. v.generation <= generations[d][v.source]
          BY <1>2, <4>5 DEF GenerationCoversFields
        <5>3. generations[d][v.source] \in Int /\ generations'[d][v.source] \in Int
          BY <1>2, <4>0, <4>1, <4>2, <5>1 DEF TypeOK, None
        <5>4. generations[d][v.source] <= generations'[d][v.source]
          BY <4>0, <4>1, <4>2, <5>1, <5>3
        <5> QED
          BY <4>5, <5>1, <5>2, <5>3, <5>4
      <4> QED
        BY <4>3, <4>4, <4>5
    <3> QED
      BY <1>2, <2>3, <3>1 DEF Apply, ApplyUnknownDevice, ApplyMalformed, ApplyStale, Raise,
                              GenerationCoversFields
  <2>4. CASE UNCHANGED vars
    BY <1>2, <2>4 DEF GenerationCoversFields, vars
  <2> QED
    BY <1>2, <2>1, <2>2, <2>3, <2>4 DEF Next
<1> QED
  BY <1>1, <1>2, TypeCorrect, PTL DEF Spec
-----------------------------------------------------------------------------
\* The effect of a merge on one path of a flat tree: either it wins and takes
\* the offered value and version, or nothing about it changes.
LEMMA MergeOnPath ==
    ASSUME PrefixFree(Paths), TypeOK, NEW u \in Update, ApplyMerge(u),
           NEW d \in Devices, NEW p \in Paths
    PROVE  \/ /\ d = u.device /\ p \in Accepted(u, versions[d])
              /\ values'[d][p] = u.leaves[p] /\ values'[d][p] \in Values
              /\ versions'[d][p] = u.version
           \/ /\ ~(d = u.device /\ p \in Accepted(u, versions[d]))
              /\ values'[d][p] = values[d][p]
              /\ versions'[d][p] = versions[d][p]
<1> DEFINE won == Accepted(u, versions[u.device])
<1>1. won \subseteq DOMAIN u.leaves /\ won \in SUBSET Paths
  BY UpdateParts DEF Accepted
<1>2. values'[u.device] = SetPaths(values[u.device], won, u.leaves)
  BY UpdateParts DEF ApplyMerge, TypeOK
<1>3. versions'[u.device] =
        [q \in Paths |-> IF q \in won THEN u.version ELSE versions[u.device][q]]
  BY UpdateParts DEF ApplyMerge, TypeOK
<1>4. CASE d # u.device
  BY <1>4 DEF ApplyMerge, TypeOK
<1>5. CASE d = u.device
  <2>1. values'[d][p] = IF p \in won THEN u.leaves[p] ELSE values[d][p]
    BY <1>1, <1>2, <1>5, SetPathsIsLocal
  <2>2. p \in won => u.leaves[p] \in Values
    BY <1>1, UpdateParts
  <2> QED
    BY <1>3, <1>5, <2>1, <2>2
<1> QED
  BY <1>4, <1>5

\* A version that came with an update is not the blank one.
LEMMA UpdateIsVersioned ==
    ASSUME NEW u \in Update PROVE u.version # NoVersion
BY UpdateParts DEF Version, NoVersion, Sources

\* In a flat tree the leaves shown and the versions that guard them never come
\* apart (values and versions are written by the same loop of apply,
\* state_store.py:90-98, and dropped together by retain_devices).
THEOREM FieldsAreVersioned ==
    ASSUME PrefixFree(Paths) PROVE Spec => []VersionedFields
<1>1. Init => VersionedFields
  BY DEF Init, VersionedFields, Blank
<1>2. ASSUME TypeOK, VersionedFields, [Next]_vars PROVE VersionedFields'
  <2>1. ASSUME NEW ids \in SUBSET Devices, AddDevices(ids) PROVE VersionedFields'
    BY <1>2, <2>1 DEF VersionedFields, AddDevices, Blank
  <2>2. ASSUME NEW ids \in SUBSET Devices, RetainDevices(ids) PROVE VersionedFields'
    BY <1>2, <2>2 DEF VersionedFields, RetainDevices, Blank
  <2>3. ASSUME NEW u \in Update, Apply(u) PROVE VersionedFields'
    <3>1. CASE ApplyMerge(u)
      <4> SUFFICES ASSUME NEW d \in Devices, NEW p \in Paths
                   PROVE  values'[d][p] = Missing <=> versions'[d][p] = NoVersion
        BY DEF VersionedFields
      <4> QED
        BY <1>2, <3>1, MergeOnPath, UpdateIsVersioned, MissingAssumption DEF VersionedFields
    <3> QED
      BY <1>2, <2>3, <3>1 DEF Apply, ApplyUnknownDevice, ApplyMalformed, ApplyStale, Raise,
                              VersionedFields
  <2>4. CASE UNCHANGED vars
    BY <1>2, <2>4 DEF VersionedFields, vars
  <2> QED
    BY <1>2, <2>1, <2>2, <2>3, <2>4 DEF Next
<1> QED
  BY <1>1, <1>2, TypeCorrect, PTL DEF Spec

\* In a flat tree no cloud update, and no other call, ever changes a field that
\* is shown from the LAN while its device is kept (_is_newer,
\* state_store.py:145).
THEOREM LanIsNeverRolledBack ==
    ASSUME PrefixFree(Paths) PROVE Spec => LanNeverRolledBack
<1> DEFINE Step ==
      \A d \in deviceIds \intersect deviceIds', p \in Paths :
          versions[d][p].source = "lan" /\ values'[d][p] # values[d][p]
            => reply'.call = "apply" /\ reply'.source = "lan"
<1>1. ASSUME TypeOK, [Next]_vars PROVE Step \/ UNCHANGED vars
  <2> SUFFICES ASSUME ~UNCHANGED vars, NEW d \in deviceIds \intersect deviceIds', NEW p \in Paths,
                      versions[d][p].source = "lan", values'[d][p] # values[d][p]
               PROVE  reply'.call = "apply" /\ reply'.source = "lan"
    OBVIOUS
  <2>0. d \in Devices
    BY <1>1 DEF TypeOK
  <2>1. ASSUME NEW ids \in SUBSET Devices, AddDevices(ids) \/ RetainDevices(ids) PROVE FALSE
    BY <2>0, <2>1 DEF AddDevices, RetainDevices
  <2>2. ASSUME NEW u \in Update, Apply(u)
        PROVE  reply'.call = "apply" /\ reply'.source = "lan"
    <3>1. ApplyMerge(u)
      BY <2>2 DEF Apply, ApplyUnknownDevice, ApplyMalformed, ApplyStale, Raise
    <3>2. p \in Accepted(u, versions[d])
      BY <1>1, <2>0, <3>1, MergeOnPath
    <3>3. versions[d][p] # NoVersion
      BY DEF NoVersion
    <3>4. u.version.source = "lan"
      BY <3>2, <3>3 DEF Accepted, IsNewer
    <3> QED
      BY <3>1, <3>4 DEF ApplyMerge
  <2> QED
    BY <1>1, <2>1, <2>2 DEF Next
<1>2. TypeOK /\ [Next]_vars => [Step]_vars
  BY <1>1
<1> QED
  BY <1>2, TypeCorrect, PTL DEF Spec, LanNeverRolledBack

\* In a flat tree apply answers TRUE exactly when what is shown has changed
\* (the flag changed, state_store.py:86-100).
THEOREM ReplyTellsChange ==
    ASSUME PrefixFree(Paths) PROVE Spec => ChangedIffVisible
<1> DEFINE Step ==
      reply'.call = "apply" => (reply'.result = "changed" <=> values' # values)
<1>1. ASSUME TypeOK, TypeOK', [Next]_vars PROVE Step \/ UNCHANGED vars
  <2>1. ASSUME NEW ids \in SUBSET Devices, AddDevices(ids) \/ RetainDevices(ids) PROVE Step
    BY <2>1 DEF AddDevices, RetainDevices
  <2>2. ASSUME NEW u \in Update, Apply(u) PROVE Step
    <3>1. CASE ApplyMerge(u)
      <4> DEFINE d == u.device
                 won == Accepted(u, versions[d])
      <4>0. d \in Devices /\ won \subseteq Paths
        BY UpdateParts DEF Accepted
      <4>1. ASSUME NEW p \in won, values[d][p] # u.leaves[p] PROVE values' # values
        BY <1>1, <3>1, <4>0, <4>1, MergeOnPath
      <4>2. ASSUME \A p \in won : values[d][p] = u.leaves[p] PROVE values' = values
        <5>1. \A e \in Devices, p \in Paths : values'[e][p] = values[e][p]
          BY <1>1, <3>1, <4>2, MergeOnPath
        <5>2. \A e \in Devices : values'[e] = values[e]
          BY <1>1, <5>1 DEF TypeOK
        <5> QED
          BY <1>1, <5>2 DEF TypeOK
      <4>3. reply'.result = "changed" <=> \E p \in won : values[d][p] # u.leaves[p]
        BY <3>1 DEF ApplyMerge
      <4> QED
        BY <4>1, <4>2, <4>3
    <3> QED
      BY <2>2, <3>1 DEF Apply, ApplyUnknownDevice, ApplyMalformed, ApplyStale, Raise
  <2> QED
    BY <1>1, <2>1, <2>2 DEF Next
<1>2. TypeOK /\ TypeOK' /\ [Next]_vars => [Step]_vars
  BY <1>1
<1> QED
  BY <1>2, TypeCorrect, PTL DEF Spec, ChangedIffVisible
-----------------------------------------------------------------------------
\* _is_newer decides the order the offers are ranked by (state_store.py:145).
LEMMA NewerIsNotBelow ==
    ASSUME NEW a \in Version, NEW b \in Version
    PROVE  IsNewer(a, b) <=> ~View!Above(b, a)
BY DEF IsNewer, View!Above, Version, Sources

\* That order has no cycles: what is not above b is not above what b yields to.
LEMMA NotAboveIsTransitive ==
    ASSUME NEW a \in Version, NEW b \in Version, NEW c \in Version,
           ~View!Above(a, b), ~View!Above(b, c)
    PROVE  ~View!Above(a, c)
BY DEF View!Above, Version, Sources

\* A step of the store with its history is a step of the store.
LEMMA HistoryIsAuxiliary == HSpec => Spec
<1>1. HInit => Init
  BY DEF HInit
<1>2. [HNext]_hvars => [Next]_vars
  BY DEF HNext, hvars, HAddDevices, HRetainDevices, HRefuse, HMerge, Next, Apply
<1> QED
  BY <1>1, <1>2, PTL DEF HSpec, Spec

HInv == OffersOK /\ ShowsGreatestOffer

\* Merging keeps the greatest offer of every field in view.
LEMMA MergeKeepsGreatest ==
    ASSUME PrefixFree(Paths), TypeOK, HInv, NEW u \in Update, HMerge(u)
    PROVE  HInv'
<1> DEFINE New(p) == IF p \in DOMAIN u.leaves
                       THEN {[version |-> u.version, value |-> u.leaves[p]]} ELSE {}
<1>0. /\ ApplyMerge(u) /\ u.device \in Devices /\ u.version \in Version
      /\ u.device \in deviceIds /\ deviceIds' = deviceIds
  BY UpdateParts DEF HMerge, ApplyMerge
<1>1. \A d \in Devices, p \in Paths :
        offers'[d][p] = IF d = u.device THEN offers[d][p] \union New(p) ELSE offers[d][p]
  BY DEF HMerge, HInv, OffersOK
<1>2. OffersOK'
  <2>1. offers' = [offers EXCEPT ![u.device] = [p \in Paths |-> offers[u.device][p] \union New(p)]]
    BY DEF HMerge
  <2>2. \A p \in Paths : New(p) \subseteq [version : Version, value : Values]
    BY UpdateParts
  <2>3. [p \in Paths |-> offers[u.device][p] \union New(p)]
          \in [Paths -> SUBSET [version : Version, value : Values]]
    BY <1>0, <2>2 DEF HInv, OffersOK
  <2>4. offers' \in [Devices -> [Paths -> SUBSET [version : Version, value : Values]]]
    BY <1>0, <2>1, <2>3 DEF HInv, OffersOK
  <2>5. \A d \in Devices \ deviceIds : offers'[d] = offers[d]
    BY <1>0, <2>1 DEF HInv, OffersOK
  <2> QED
    BY <1>0, <2>4, <2>5 DEF HInv, OffersOK
<1>3. ShowsGreatestOffer'
  <2> SUFFICES ASSUME NEW d \in Devices, NEW p \in Paths
               PROVE  KeepsGreatest(offers'[d][p], versions'[d][p], values'[d][p])
    BY DEF ShowsGreatestOffer
  <2> DEFINE won == d = u.device /\ p \in Accepted(u, versions[d])
             new == [version |-> u.version, value |-> u.leaves[p]]
  <2>0. \A o \in offers[d][p] : o.version \in Version
    BY DEF HInv, OffersOK
  <2>1. offers[d][p] = {} => values[d][p] = Missing /\ versions[d][p] = NoVersion
    BY DEF HInv, ShowsGreatestOffer, KeepsGreatest
  <2>2. ASSUME offers[d][p] # {}
        PROVE  /\ [version |-> versions[d][p], value |-> values[d][p]] \in offers[d][p]
               /\ \A o \in offers[d][p] : ~View!Above(o.version, versions[d][p])
               /\ versions[d][p] \in Version /\ versions[d][p] # NoVersion
    <3>1. [version |-> versions[d][p], value |-> values[d][p]] \in offers[d][p]
      BY <2>2 DEF HInv, ShowsGreatestOffer, KeepsGreatest
    <3>2. versions[d][p] \in Version
      BY <2>0, <3>1
    <3> QED
      BY <2>2, <3>1, <3>2 DEF HInv, ShowsGreatestOffer, KeepsGreatest, Version, NoVersion, Sources
  <2>3. ~View!Above(u.version, u.version)
    BY <1>0 DEF View!Above, Version
  <2>4. CASE won
    <3>1. values'[d][p] = u.leaves[p] /\ versions'[d][p] = u.version
      BY <1>0, <2>4, MergeOnPath
    <3>2. offers'[d][p] = offers[d][p] \union {new}
      BY <1>1, <2>4 DEF Accepted
    <3>3. \A o \in offers[d][p] : ~View!Above(o.version, u.version)
      <4> SUFFICES ASSUME NEW o \in offers[d][p] PROVE ~View!Above(o.version, u.version)
        OBVIOUS
      <4>1. IsNewer(u.version, versions[d][p])
        BY <2>2, <2>4 DEF Accepted
      <4>2. ~View!Above(versions[d][p], u.version)
        BY <1>0, <2>2, <4>1, NewerIsNotBelow
      <4> QED
        BY <1>0, <2>0, <2>2, <4>2, NotAboveIsTransitive
    <3>4. \A o \in offers'[d][p] : ~View!Above(o.version, u.version)
      <4> SUFFICES ASSUME NEW o \in offers'[d][p] PROVE ~View!Above(o.version, u.version)
        OBVIOUS
      <4>1. o \in offers[d][p] \/ o = new
        BY <3>2
      <4> QED
        BY <2>3, <3>3, <4>1
    <3>5. new \in offers'[d][p]
      BY <3>2
    <3> HIDE DEF New
    <3> QED
      BY <3>1, <3>4, <3>5 DEF KeepsGreatest
  <2>5. CASE ~won
    <3>1. values'[d][p] = values[d][p] /\ versions'[d][p] = versions[d][p]
      BY <1>0, <2>5, MergeOnPath
    <3>2. CASE d = u.device /\ p \in DOMAIN u.leaves
      <4>1. versions[d][p] # NoVersion /\ ~IsNewer(u.version, versions[d][p])
        BY <2>5, <3>2 DEF Accepted
      <4>2. offers[d][p] # {}
        BY <2>1, <4>1
      <4>3. View!Above(versions[d][p], u.version)
        BY <1>0, <2>2, <4>1, <4>2, NewerIsNotBelow
      <4>4. ~View!Above(u.version, versions[d][p])
        BY <1>0, <2>2, <4>2, <4>3 DEF View!Above, Version, Sources
      <4>5. offers'[d][p] = offers[d][p] \union {new}
        BY <1>1, <3>2
      <4> QED
        BY <2>2, <3>1, <4>2, <4>4, <4>5 DEF KeepsGreatest
    <3>3. CASE ~(d = u.device /\ p \in DOMAIN u.leaves)
      <4>1. offers'[d][p] = offers[d][p]
        BY <1>1, <3>3
      <4> QED
        BY <2>1, <2>2, <3>1, <4>1 DEF KeepsGreatest
    <3> QED
      BY <3>2, <3>3
  <2> QED
    BY <2>4, <2>5
<1> QED
  BY <1>2, <1>3 DEF HInv
-----------------------------------------------------------------------------
\* The history invariant is inductive.
LEMMA HistoryInvariant ==
    ASSUME PrefixFree(Paths) PROVE HSpec => [](TypeOK /\ HInv)
<1>1. HInit => HInv
  BY DEF HInit, Init, HInv, OffersOK, ShowsGreatestOffer, KeepsGreatest, NoOffers, Blank
<1>2. ASSUME TypeOK, HInv, [HNext]_hvars PROVE HInv'
  <2>0. /\ \A d \in Devices \ deviceIds : offers[d] = NoOffers
        /\ \A d \in Devices, p \in Paths :
              KeepsGreatest(offers[d][p], versions[d][p], values[d][p])
        /\ KeepsGreatest({}, NoVersion, Missing)
    BY <1>2 DEF HInv, OffersOK, ShowsGreatestOffer, KeepsGreatest
  <2>1. ASSUME NEW ids \in SUBSET Devices, HAddDevices(ids) PROVE HInv'
    <3>1. OffersOK'
      BY <1>2, <2>1 DEF HInv, OffersOK, HAddDevices, AddDevices
    <3>2. ShowsGreatestOffer'
      BY <2>0, <2>1 DEF ShowsGreatestOffer, HAddDevices, AddDevices, NoOffers, Blank
    <3> QED
      BY <3>1, <3>2 DEF HInv
  <2>2. ASSUME NEW ids \in SUBSET Devices, HRetainDevices(ids) PROVE HInv'
    <3>0. NoOffers \in [Paths -> SUBSET [version : Version, value : Values]]
      BY DEF NoOffers
    <3>1. OffersOK'
      BY <1>2, <2>2, <3>0 DEF HInv, OffersOK, HRetainDevices, RetainDevices
    <3>2. ShowsGreatestOffer'
      BY <2>0, <2>2 DEF ShowsGreatestOffer, HRetainDevices, RetainDevices, NoOffers, Blank
    <3> QED
      BY <3>1, <3>2 DEF HInv
  <2>3. ASSUME NEW u \in Update, HRefuse(u) PROVE HInv'
    <3>1. UNCHANGED <<deviceIds, values, versions, offers>>
      BY <2>3 DEF HRefuse, ApplyUnknownDevice, ApplyMalformed, ApplyStale, Raise
    <3> QED
      BY <1>2, <3>1 DEF HInv, OffersOK, ShowsGreatestOffer
  <2>4. ASSUME NEW u \in Update, HMerge(u) PROVE HInv'
    BY <1>2, <2>4, MergeKeepsGreatest
  <2>5. CASE UNCHANGED hvars
    BY <1>2, <2>5 DEF HInv, OffersOK, ShowsGreatestOffer, hvars, vars
  <2> QED
    BY <1>2, <2>1, <2>2, <2>3, <2>4, <2>5 DEF HNext
<1>3. HSpec => []TypeOK
  BY HistoryIsAuxiliary, TypeCorrect, PTL
<1> QED
  BY <1>1, <1>2, <1>3, PTL DEF HSpec

\* What the store shows for a field is the value of the greatest offer made to
\* it since its device was added, in whatever order cloud snapshots and LAN
\* pushes arrived (apply, state_store.py:71).
THEOREM GreatestOfferIsShown ==
    ASSUME PrefixFree(Paths) PROVE HSpec => []ShowsGreatestOffer
<1>1. HInv => ShowsGreatestOffer
  BY DEF HInv
<1> QED
  BY <1>1, HistoryInvariant, PTL

\* The store implements MergedView: an accepted update is one set of offers, a
\* removal is a Forget, everything else changes nothing that is shown.
THEOREM StoreImplementsMergedView ==
    ASSUME PrefixFree(Paths) PROVE HSpec => ImplementsMergedView
<1>1. HInit => View!ViewInit
  BY DEF HInit, Init, View!ViewInit, NoOffers, Blank
<1>2. ASSUME TypeOK, HInv, TypeOK', HInv', [HNext]_hvars PROVE [View!ViewNext]_(View!viewVars)
  <2>1. ASSUME NEW ids \in SUBSET Devices, HAddDevices(ids) PROVE UNCHANGED <<offers, values>>
    <3>1. \A d \in ids \ deviceIds, p \in Paths : values[d][p] = Missing
      <4>1. \A d \in Devices \ deviceIds, p \in Paths : offers[d][p] = {}
        BY <1>2 DEF HInv, OffersOK, NoOffers
      <4>2. \A d \in Devices, p \in Paths :
              KeepsGreatest(offers[d][p], versions[d][p], values[d][p])
        BY <1>2 DEF HInv, ShowsGreatestOffer
      <4> QED
        BY <4>1, <4>2 DEF KeepsGreatest
    <3>2. \A d \in ids \ deviceIds : values[d] = Blank(Missing)
      BY <1>2, <3>1 DEF TypeOK, Blank
    <3>3. \A d \in Devices : values'[d] = values[d]
      BY <2>1, <3>2 DEF HAddDevices, AddDevices
    <3> QED
      BY <1>2, <2>1, <3>3 DEF TypeOK, HAddDevices
  <2>2. ASSUME NEW ids \in SUBSET Devices, HRetainDevices(ids) PROVE View!ViewNext
    <3>1. View!Forget(deviceIds \ ids)
      BY <2>2 DEF HRetainDevices, RetainDevices, View!Forget, NoOffers, Blank
    <3>2. deviceIds \ ids \in SUBSET Devices
      BY <1>2 DEF TypeOK
    <3> QED
      BY <3>1, <3>2 DEF View!ViewNext
  <2>3. ASSUME NEW u \in Update, HRefuse(u) PROVE UNCHANGED <<offers, values>>
    BY <2>3 DEF HRefuse, ApplyUnknownDevice, ApplyMalformed, ApplyStale, Raise
  <2>4. ASSUME NEW u \in Update, HMerge(u) PROVE View!ViewNext
    <3>1. ApplyMerge(u) /\ u.device \in Devices
      BY <2>4, UpdateParts DEF HMerge
    <3>2. \A e \in Devices, p \in Paths :
            IF e = u.device /\ p \in DOMAIN u.leaves
              THEN View!Shows(offers'[e][p], values'[e][p])
              ELSE values'[e][p] = values[e][p]
      <4> SUFFICES ASSUME NEW e \in Devices, NEW p \in Paths
                   PROVE  IF e = u.device /\ p \in DOMAIN u.leaves
                            THEN View!Shows(offers'[e][p], values'[e][p])
                            ELSE values'[e][p] = values[e][p]
        OBVIOUS
      <4>1. CASE e = u.device /\ p \in DOMAIN u.leaves
        <5>1. KeepsGreatest(offers'[e][p], versions'[e][p], values'[e][p])
          BY <1>2 DEF HInv, ShowsGreatestOffer
        <5> QED
          BY <4>1, <5>1 DEF KeepsGreatest, View!Shows, View!Greatest
      <4>2. CASE ~(e = u.device /\ p \in DOMAIN u.leaves)
        BY <1>2, <3>1, <4>2, MergeOnPath DEF Accepted
      <4> QED
        BY <4>1, <4>2
    <3>3. View!MakeOffers(u.device, u.version, u.leaves)
      BY <1>2, <2>4, <3>2 DEF View!MakeOffers, HMerge, TypeOK
    <3>4. PICK S \in SUBSET Paths : u.leaves \in [S -> Values]
      BY DEF Update, Leaves
    <3> QED
      BY <3>1, <3>3, <3>4, UpdateParts DEF View!ViewNext
  <2>5. CASE UNCHANGED hvars
    BY <2>5 DEF hvars, vars, View!viewVars
  <2> QED
    BY <1>2, <2>1, <2>2, <2>3, <2>4, <2>5 DEF HNext, View!viewVars
<1> QED
  BY <1>1, <1>2, HistoryInvariant, PTL DEF HSpec, ImplementsMergedView, View!ViewSpec
=============================================================================
