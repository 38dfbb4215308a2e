-------------------------- MODULE MC_VpnServiceGate ---------------------------
(* Model-checking instance of VpnServiceGate. *)
EXTENDS VpnServiceGate
=============================================================================
