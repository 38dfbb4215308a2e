------------------------ MODULE VpnServiceGateProofs ------------------------
(***************************************************************************)
(* Theorems about VpnServiceGate, for any number of callers, of session    *)
(* ends and of instances of the service.                                   *)
(***************************************************************************)
EXTENDS VpnServiceGate, TLAPS

(* Whoever is ending a session, or being destroyed, is an instance.        *)
ActorsNamed ==
  /\ \A e \in Enders : ender[e].pc # "idle" => ender[e].service \in Instances
  /\ main.pc = "detaching" => main.service \in Instances

TInv == TypeOK /\ ActorsNamed

(* No instance is None, and the gate starts with an attachment.            *)
LEMMA GateConstants ==
  /\ None \notin Instances
  /\ Detached \in Attachments
  BY GateAssumption DEF None, Instances, Detached, Attachments

(* The gate starts typed.                                                  *)
LEMMA InitTyped == Init => TInv
  <1> SUFFICES ASSUME Init PROVE TInv
    OBVIOUS
  <1>1. /\ attachment \in Attachments /\ stopAsked \subseteq Instances
        /\ life \in [Instances -> {"unborn", "running", "leaving", "dead"}]
        /\ starts \in 0..MaxStarts /\ ends \in 0..MaxEnds
    BY GateConstants, GateAssumption DEF Init
  <1>2. /\ main \in [pc : {"idle", "detaching"}, service : Instances \cup {None}, read : Attachments]
        /\ main.pc = "idle"
    BY GateConstants DEF Init, NoDestroy
  <1>3. caller \in [Callers -> [pc : {"idle", "await", "served"}, service : Instances \cup {None}]]
    BY DEF Init, Idle
  <1>4. /\ ender \in [Enders -> [pc : {"idle", "mark", "marking", "stop"}, service : Instances \cup {None}, read : Attachments]]
        /\ \A e \in Enders : ender[e].pc = "idle"
    BY GateConstants DEF Init, Resting
  <1> QED
    BY <1>1, <1>2, <1>3, <1>4 DEF TInv, TypeOK, ActorsNamed

(* What the gate writes back is an attachment.                             *)
LEMMA WritesTyped ==
  ASSUME NEW r \in Attachments, NEW i \in Instances
  PROVE  Stopping(r) \in Attachments /\ Without(r, i) \in Attachments
  <1>1. CASE r = Detached
    BY <1>1, GateConstants DEF Stopping, Without, Detached
  <1>2. CASE r \in [service : Instances, stopping : BOOLEAN]
    BY <1>2, GateConstants DEF Stopping, Without, Attachments
  <1> QED
    BY <1>1, <1>2 DEF Attachments

(* An attached instance is one.                                            *)
LEMMA AttachTyped ==
  ASSUME NEW i \in Instances, attach(i)
  PROVE  attachment' \in Attachments
  BY DEF attach, Attachments

(* The gate offers an instance or none.                                    *)
LEMMA LiveTyped ==
  ASSUME TypeOK
  PROVE  live \in Instances \cup {None} /\ current \in Instances \cup {None}
  BY DEF TypeOK, live, current, Attachments, Detached

(* Every step of the gate, Android and the callers keeps TInv.             *)
LEMMA NextTyped == TInv /\ [Next]_vars => TInv'
  <1> SUFFICES ASSUME TInv, [Next]_vars PROVE TInv'
    OBVIOUS
  <1> USE GateConstants, GateAssumption DEF TInv, TypeOK, ActorsNamed
  <1>1. ASSUME NEW i \in Instances, StartCommand(i) PROVE TInv'
    BY <1>1, AttachTyped DEF StartCommand
  <1>2. ASSUME NEW i \in Instances, CreateInstance(i) PROVE TInv'
    BY <1>2, AttachTyped DEF CreateInstance
  <1>3. ASSUME NEW i \in Instances, StopTakesEffect(i) PROVE TInv'
    BY <1>3 DEF StopTakesEffect
  <1>4. ASSUME NEW i \in Instances, DestroyReads(i) PROVE TInv'
    BY <1>4 DEF DestroyReads
  <1>5. ASSUME DestroyWrites PROVE TInv'
    BY <1>5, WritesTyped DEF DestroyWrites, NoDestroy
  <1>6. ASSUME NEW e \in Enders, EndBegins(e) PROVE TInv'
    BY <1>6, LiveTyped DEF EndBegins
  <1>7. ASSUME NEW e \in Enders, MarkReads(e) PROVE TInv'
    BY <1>7 DEF MarkReads
  <1>8. ASSUME NEW e \in Enders, MarkWrites(e) PROVE TInv'
    <2>1. Stopping(ender[e].read) \in Attachments
      BY WritesTyped, <1>8 DEF MarkWrites
    <2> QED
      BY <1>8, <2>1 DEF MarkWrites
  <1>9. ASSUME NEW e \in Enders, StopSelf(e) PROVE TInv'
    BY <1>9 DEF StopSelf, Resting
  <1>10. ASSUME NEW c \in Callers, EnsureFindsLive(c) PROVE TInv'
    BY <1>10, LiveTyped DEF EnsureFindsLive
  <1>11. ASSUME NEW c \in Callers, EnsureStarts(c) PROVE TInv'
    BY <1>11 DEF EnsureStarts
  <1>12. ASSUME NEW c \in Callers, AwaitSees(c) PROVE TInv'
    BY <1>12, LiveTyped DEF AwaitSees
  <1>13. ASSUME NEW c \in Callers, AwaitTimesOut(c) PROVE TInv'
    BY <1>13 DEF AwaitTimesOut, Idle
  <1>14. ASSUME NEW c \in Callers, CallerDone(c) PROVE TInv'
    BY <1>14 DEF CallerDone, Idle
  <1>15. ASSUME UNCHANGED vars PROVE TInv'
    BY <1>15 DEF vars
  <1> QED
    BY <1>1, <1>2, <1>3, <1>4, <1>5, <1>6, <1>7, <1>8, <1>9, <1>10, <1>11, <1>12, <1>13,
       <1>14, <1>15 DEF Next

(* An attachment that must not be handed out says so.                      *)
Honest(a) == a.service # None /\ life[a.service] = "dead" => a.stopping

(* What is registered is honest, and so is what an onDestroy on its way    *)
(* will write back.  It need not be current: between the read and the      *)
(* write of detach(), markStopping() may have written something else.      *)
GateInv ==
  /\ TInv
  /\ Honest(attachment)
  /\ main.pc = "detaching" => Honest(main.read)

(* A step that destroys nothing and writes no attachment keeps it.         *)
LEMMA HonestKept ==
  ASSUME GateInv, TInv', UNCHANGED <<attachment, main>>,
         \A i \in Instances : life'[i] = "dead" => life[i] = "dead"
  PROVE  GateInv'
  <1>1. \A a \in Attachments : a.service # None => a.service \in Instances
    BY DEF Attachments, Detached
  <1>2. attachment \in Attachments /\ main.read \in Attachments
    BY DEF GateInv, TInv, TypeOK
  <1> QED
    BY <1>1, <1>2 DEF GateInv, Honest

(* Every step keeps a destroyed instance behind the stopping flag.         *)
LEMMA NextHonest == GateInv /\ [Next]_vars => GateInv'
  <1> SUFFICES ASSUME GateInv, [Next]_vars PROVE GateInv'
    OBVIOUS
  <1>t. TInv /\ TInv'
    BY NextTyped DEF GateInv
  <1> USE GateConstants
  <1>1. ASSUME NEW i \in Instances, StartCommand(i) PROVE GateInv'
    BY <1>t, <1>1 DEF StartCommand, attach, Running, GateInv, Honest, TInv, TypeOK
  <1>2. ASSUME NEW i \in Instances, CreateInstance(i) PROVE GateInv'
    BY <1>t, <1>2 DEF CreateInstance, attach, GateInv, Honest, TInv, TypeOK
  <1>3. ASSUME NEW i \in Instances, StopTakesEffect(i) PROVE GateInv'
    BY <1>t, <1>3, HonestKept DEF StopTakesEffect, TInv, TypeOK
  <1>4. ASSUME NEW i \in Instances, DestroyReads(i) PROVE GateInv'
    BY <1>t, <1>4 DEF DestroyReads, GateInv, Honest
  <1>5. ASSUME DestroyWrites PROVE GateInv'
    BY <1>t, <1>5 DEF DestroyWrites, NoDestroy, Without, Detached, GateInv, Honest, TInv, TypeOK,
                      ActorsNamed, Attachments
  <1>6. ASSUME NEW e \in Enders, MarkWrites(e) PROVE GateInv'
    <2>1. Honest(attachment)'
      BY <1>t, <1>6 DEF MarkWrites, Stopping, Detached, Honest, TInv, TypeOK, Attachments
    <2> QED
      BY <1>t, <1>6, <2>1 DEF MarkWrites, GateInv, Honest
  <1>7. CASE UNCHANGED <<attachment, main, life>>
    BY <1>t, <1>7, HonestKept
  <1> QED
    BY <1>1, <1>2, <1>3, <1>4, <1>5, <1>6, <1>7
       DEF Next, EndBegins, MarkReads, StopSelf, EnsureFindsLive, EnsureStarts, AwaitSees,
           AwaitTimesOut, CallerDone, vars

(* The caller that is handed a service is handed the registered one, which *)
(* is not leaving.                                                         *)
LEMMA HandsOutLive ==
  ASSUME GateInv, [Next]_vars, NEW c \in Callers,
         caller[c].pc # "served", caller'[c].pc = "served"
  PROVE  life[caller'[c].service] # "dead"
  <1>1. ASSUME NEW d \in Callers, EnsureFindsLive(d) PROVE caller'[c].service = live /\ live # None
    BY <1>1 DEF EnsureFindsLive, GateInv, TInv, TypeOK
  <1>2. ASSUME NEW d \in Callers, AwaitSees(d) PROVE caller'[c].service = live /\ live # None
    BY <1>2 DEF AwaitSees, GateInv, TInv, TypeOK
  <1>3. ASSUME NEW d \in Callers, EnsureStarts(d) PROVE FALSE
    BY <1>3 DEF EnsureStarts, GateInv, TInv, TypeOK
  <1>4. ASSUME NEW d \in Callers, AwaitTimesOut(d) \/ CallerDone(d) PROVE FALSE
    BY <1>4 DEF AwaitTimesOut, CallerDone, Idle, GateInv, TInv, TypeOK
  <1>5. caller' # caller
    OBVIOUS
  <1>6. caller'[c].service = live /\ live # None
    BY <1>1, <1>2, <1>3, <1>4, <1>5
       DEF Next, vars, StartCommand, CreateInstance, StopTakesEffect, DestroyReads, DestroyWrites,
           EndBegins, MarkReads, MarkWrites, StopSelf
  <1> QED
    BY <1>6 DEF live, GateInv, Honest

(* Type correctness of the gate, of Android's view of the service and of   *)
(* the coroutines that use them.                                           *)
THEOREM GateTypeCorrect == Spec => []TypeOK
  <1>1. TInv => TypeOK
    BY DEF TInv
  <1> QED
    BY <1>1, InitTyped, NextTyped, PTL DEF Spec

(* No caller of ensureRunning() is ever given a service whose onDestroy    *)
(* has run, although markStopping() may register one again.                *)
THEOREM GateHandsOutNoDeadService == Spec => DeadIsNeverHandedOut
  <1>1. Init => GateInv
    BY InitTyped, GateConstants DEF Init, GateInv, Honest, Detached, NoDestroy
  <1>2. GateInv /\ [Next]_vars => GateInv'
    BY NextHonest
  <1>3. GateInv /\ [Next]_vars =>
          [\A c \in Callers : caller[c].pc # "served" /\ caller'[c].pc = "served"
                                => life[caller'[c].service] # "dead"]_vars
    BY HandsOutLive
  <1> QED
    BY <1>1, <1>2, <1>3, PTL DEF Spec, DeadIsNeverHandedOut

=============================================================================
