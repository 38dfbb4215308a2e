------------------------- MODULE MC_TunnelManager -------------------------
(* TunnelManager for TLC.  Engines are interchangeable (no action compares *)
(* two of them except for equality), so a safety run uses the symmetry.    *)
EXTENDS TunnelManager, TLC

EngineSymmetry == Permutations(Engines)
=============================================================================
