---------------------------- MODULE MCCoordinator ----------------------------
(* An instance of Coordinator for TLC. *)
EXTENDS Coordinator, TLC

CONSTANTS d1, d2, g1, g2, v1, v2

In(g, v) == [gateway |-> g, value |-> v]

\* The cloud names both devices, one of them with another state or at another
\* gateway, or none.
Results ==
    {d1 :> In(g1, v1) @@ d2 :> In(g1, v1), d1 :> In(g1, v2), d1 :> In(g2, v1), <<>>}
=============================================================================
