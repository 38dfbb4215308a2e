----------------------------- MODULE PacketPath -----------------------------
(***************************************************************************)
(* What TunnelManager, the services and the engine threads promise         *)
(* together, whoever replaces the TUN and in whatever order they report    *)
(* it: one packet path that reads an open interface, moves only to younger *)
(* ones and only before the one it leaves is closed, and an engine that    *)
(* has packets to carry only while there is a path.  A path that is        *)
(* abandoned leaves pumps behind on an interface closed under them, which  *)
(* no later path reads.                                                    *)
(***************************************************************************)
EXTENDS Naturals

VARIABLES
  tuns,      \* the open interfaces, numbered in the order they were made
  newest,    \* the youngest one ever made
  reading,   \* the one the packet path reads, or 0: there is no path
  carried,   \* an engine carries the packets; otherwise they are dropped
  leaving    \* the closed ones that pumps of abandoned paths still read

vars == <<tuns, newest, reading, carried, leaving>>

Init == tuns = {} /\ newest = 0 /\ reading = 0 /\ carried = FALSE /\ leaving = {}

(* A new interface, which nothing reads yet.                               *)
Open ==
  /\ newest' = newest + 1
  /\ tuns' = tuns \cup {newest'}
  /\ UNCHANGED <<reading, carried, leaving>>

(* Interfaces that the path does not read are closed.                      *)
Close ==
  /\ tuns' \subseteq tuns
  /\ reading # 0 => reading \in tuns'
  /\ UNCHANGED <<newest, reading, carried, leaving>>

(* The path begins on an open interface.                                   *)
Begin ==
  /\ reading = 0 /\ reading' \in tuns \ ({0} \cup leaving)
  /\ UNCHANGED <<tuns, newest, carried, leaving>>

(* It moves to a younger one; the ones it leaves behind are closed.        *)
Move ==
  /\ reading # 0 /\ reading' > reading
  /\ tuns' \subseteq tuns /\ reading' \in tuns' \ leaving
  /\ UNCHANGED <<newest, carried, leaving>>

(* The path ends with its engine, and interfaces with it.                  *)
End ==
  /\ reading' = 0 /\ ~carried'
  /\ tuns' \subseteq tuns
  /\ UNCHANGED <<newest, leaving>>

(* The path is abandoned: its interface is closed, and its pumps go on     *)
(* until they are stopped.                                                 *)
Abandon ==
  /\ reading # 0 /\ reading' = 0 /\ ~carried'
  /\ tuns' \subseteq tuns \ {reading}
  /\ leaving' = leaving \cup {reading}
  /\ UNCHANGED newest

PumpsStop ==
  /\ leaving' \subseteq leaving
  /\ UNCHANGED <<tuns, newest, reading, carried>>

(* An engine is put on the path, or taken off while the path stays.        *)
Attach == reading # 0 /\ carried' /\ UNCHANGED <<tuns, newest, reading, leaving>>
Detach == ~carried' /\ UNCHANGED <<tuns, newest, reading, leaving>>

Next == Open \/ Close \/ Begin \/ Move \/ End \/ Abandon \/ PumpsStop \/ Attach \/ Detach

Spec == Init /\ [][Next]_vars

=============================================================================
