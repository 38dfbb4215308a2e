---------------------------- MODULE MC_DnsStage -----------------------------
(* DnsStage on small instances; the .cfg files give the bounds.            *)
EXTENDS DnsStage
=============================================================================
