------------------------------ MODULE MCDevices ------------------------------
(* Instances of Devices for TLC. *)
EXTENDS Devices, TLC
=============================================================================
