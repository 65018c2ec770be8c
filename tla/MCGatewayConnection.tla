------------------------- MODULE MCGatewayConnection -------------------------
(* Instances of GatewayConnection for TLC. *)
EXTENDS GatewayConnection, TLC

CONSTANTS r1, u1, u2

\* Every request has a key of its own.
OwnKeys == [r \in Reqs |-> <<r>>]
ReqKeys == Reqs

\* r1 has drawn the serial that u1 draws too;
\* their uniSerials differ.
SameSerial ==
    [r \in Reqs |-> CASE r = r1 -> <<"serial", r1>>
                      [] r = u1 -> <<"serial", u1>>
                      [] OTHER -> <<r>>]
SerialKeys == Reqs \union {"serial"}
=============================================================================
