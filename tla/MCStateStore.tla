---------------------------- MODULE MCStateStore ----------------------------
(* Instances of StateStore and its history for TLC. *)
EXTENDS StateStoreHistory

OnePath == {<<"properties", "onoff">>}
=============================================================================
