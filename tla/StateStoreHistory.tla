-------------------------- MODULE StateStoreHistory -------------------------
(***************************************************************************)
(* StateStore with a history variable: every value offered to a field by   *)
(* an update that passed the stale-generation check, since the device was  *)
(* last added.  The store itself keeps one version per field; the history  *)
(* is what lets one say that this is enough.                               *)
(***************************************************************************)
EXTENDS StateStore

CONSTANT MaxOffers   \* bound: offers remembered per field

ASSUME MaxOffersAssumption == MaxOffers \in Nat

VARIABLE offers      \* device -> path -> set of offers

hvars == <<vars, offers>>

View == INSTANCE MergedView WITH view <- values
-----------------------------------------------------------------------------
NoOffers == [p \in Paths |-> {}]

HInit == Init /\ offers = [d \in Devices |-> NoOffers]

HAddDevices(ids) ==
    /\ AddDevices(ids)
    /\ UNCHANGED offers

HRetainDevices(ids) ==
    /\ RetainDevices(ids)
    /\ offers' = [d \in Devices |-> IF d \in deviceIds \ ids THEN NoOffers ELSE offers[d]]

HRefuse(u) ==
    /\ ApplyUnknownDevice(u) \/ ApplyMalformed(u) \/ ApplyStale(u)
    /\ UNCHANGED offers

HMerge(u) ==
    /\ ApplyMerge(u)
    /\ offers' = [offers EXCEPT ![u.device] =
          [p \in Paths |-> offers[u.device][p] \union
              (IF p \in DOMAIN u.leaves
                 THEN {[version |-> u.version, value |-> u.leaves[p]]} ELSE {})]]
    /\ \A p \in Paths : Cardinality(offers'[u.device][p]) <= MaxOffers

HNext ==
    \/ \E ids \in SUBSET Devices : HAddDevices(ids)
    \/ \E ids \in SUBSET Devices : HRetainDevices(ids)
    \/ \E u \in Update : HRefuse(u)
    \/ \E u \in Update : HMerge(u)

HSpec == HInit /\ [][HNext]_hvars
-----------------------------------------------------------------------------
\* A field to which S was offered keeps the version and shows the value of a
\* greatest offer.
KeepsGreatest(S, version, value) ==
    IF S = {}
      THEN value = Missing /\ version = NoVersion
      ELSE /\ [version |-> version, value |-> value] \in S
           /\ \A o \in S : ~View!Above(o.version, version)

\* The version kept for a field is the greatest one ever offered to it, and
\* the value shown was offered with that version: keeping one version per
\* field loses nothing, whatever the order in which updates arrived.
ShowsGreatestOffer ==
    \A d \in Devices, p \in Paths : KeepsGreatest(offers[d][p], versions[d][p], values[d][p])

\* The offers have their type, and only kept devices have any: with
\* ShowsGreatestOffer, what makes the history inductive.
OffersOK ==
    /\ offers \in [Devices -> [Paths -> SUBSET [version : Version, value : Values]]]
    /\ \A d \in Devices \ deviceIds : offers[d] = NoOffers

\* The store implements the merged view.
ImplementsMergedView == View!ViewSpec
=============================================================================
