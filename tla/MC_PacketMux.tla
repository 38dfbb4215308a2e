---------------------------- MODULE MC_PacketMux ----------------------------
(* PacketMux on small instances; the .cfg files give the bounds.           *)
EXTENDS PacketMux
=============================================================================
