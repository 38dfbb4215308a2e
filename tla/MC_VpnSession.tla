---------------------------- MODULE MC_VpnSession -----------------------------
(* VpnSession for TLC: networks and connection ids are model values, and   *)
(* interchangeable.  The process starts for a user who wants no tunnel,    *)
(* with an account that can connect, or with any account; MixedStart has   *)
(* both networks with Auto-Secure and networks without it.                 *)
EXTENDS VpnSession, TLC
Symmetry == Permutations(Networks) \cup Permutations(Ids)
Rows == [Networks -> BOOLEAN]
IdleStart == [wants : {FALSE}, secured : Rows, known : {"okay", "expired"}, server : {"okay", "expired"}]
FreshStart == {start \in IdleStart : start.known = "okay" /\ start.server = "okay"}
MixedStart == {start \in FreshStart : \E n, m \in Networks : start.secured[n] /\ ~start.secured[m]}
T1 == {s \in IdleStart : s.server = "okay" /\ \E n, m \in Networks : s.secured[n] /\ ~s.secured[m]}
=====
