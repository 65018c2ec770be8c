----------------------------- MODULE MergedView -----------------------------
(***************************************************************************)
(* What StateStore promises its callers, without versions or paths: every  *)
(* field shows the value of a greatest offer made for it since its device  *)
(* was added.  Offers are ranked by source (LAN above cloud), then by      *)
(* timestamp, then by generation, so what is shown does not depend on the  *)
(* order in which the offers arrived, ties apart.                          *)
(***************************************************************************)
EXTENDS Integers

CONSTANTS Devices, Paths, Values, Missing, Version

VARIABLES
    offers,  \* device -> path -> the offers made since the device was added
    view     \* device -> path -> the value shown, or Missing

viewVars == <<offers, view>>
-----------------------------------------------------------------------------
Offer == [version : Version, value : Values]

\* a is strictly above b
Above(a, b) ==
    \/ a.source = "lan" /\ b.source = "cloud"
    \/ /\ a.source = b.source
       /\ \/ a.monotonic > b.monotonic
          \/ a.monotonic = b.monotonic /\ a.generation > b.generation

Greatest(S) == {o \in S : \A other \in S : ~Above(other.version, o.version)}

Shows(S, value) ==
    IF S = {} THEN value = Missing ELSE \E o \in Greatest(S) : o.value = value

ViewInit ==
    /\ offers = [d \in Devices |-> [p \in Paths |-> {}]]
    /\ view = [d \in Devices |-> [p \in Paths |-> Missing]]

\* One update offers a value to some fields of one device.  The other fields
\* of that device and all other devices show what they showed.
MakeOffers(d, version, leaves) ==
    /\ offers' = [offers EXCEPT ![d] =
          [p \in Paths |-> offers[d][p] \union
              (IF p \in DOMAIN leaves
                 THEN {[version |-> version, value |-> leaves[p]]} ELSE {})]]
    /\ view' \in [Devices -> [Paths -> Values \union {Missing}]]
    /\ \A e \in Devices, p \in Paths :
          IF e = d /\ p \in DOMAIN leaves
            THEN Shows(offers'[e][p], view'[e][p])
            ELSE view'[e][p] = view[e][p]

\* Removing devices forgets what was offered for them.
Forget(S) ==
    /\ offers' = [d \in Devices |-> IF d \in S THEN [p \in Paths |-> {}] ELSE offers[d]]
    /\ view' = [d \in Devices |-> IF d \in S THEN [p \in Paths |-> Missing] ELSE view[d]]

ViewNext ==
    \/ \E d \in Devices, v \in Version, S \in SUBSET Paths :
          \E leaves \in [S -> Values] : MakeOffers(d, v, leaves)
    \/ \E S \in SUBSET Devices : Forget(S)

ViewSpec == ViewInit /\ [][ViewNext]_viewVars
=============================================================================
