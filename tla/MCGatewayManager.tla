-------------------------- MODULE MCGatewayManager --------------------------
(* Instances of GatewayManager for TLC. *)
EXTENDS GatewayManager, TLC

CONSTANTS u1, u2, h1, h2

OneUid == {u1}

\* The cloud drops the gateway and names it again.
Dropping == {u1 :> h1, NoScan}

\* A scan sees u1 where the cloud has it or elsewhere.
Seen == {u1 :> h1, u1 :> h2}
=============================================================================
