-------------------------- MODULE PacketMuxProofs --------------------------
(***************************************************************************)
(* Theorems about PacketMux, for any number of swaps, of TUNs and of pump  *)
(* restarts, and for every interleaving of the controller with the pumps.  *)
(***************************************************************************)
EXTENDS PacketMux, TLAPS

(* Which operation can be at which step.                                   *)
Quiescing == {"latch", "publish", "wake", "await"}

CtlWellFormed ==
  /\ ctl.pc = "idle" => ctl.kind = "none"
  /\ ctl.pc \in Quiescing => ctl.kind \in {"setTun", "detach", "attach"}
  /\ ctl.pc \in {"publish2", "release"} => ctl.kind = "setTun"
  /\ ctl.pc = "wake2" => ctl.kind \in {"setTun", "attach"}
  /\ ctl.pc = "close" => ctl.kind \in {"detach", "attach"}
  /\ ctl.pc = "attach" => ctl.kind = "attach"
  /\ ctl.pc \in {"publishStop", "wakeStop", "join"} => ctl.kind = "stop"

(* The snapshot the controller works from is the published one until it    *)
(* publishes the quiet target, which stands until the swap goes on.        *)
Quieted == {"wake", "await", "publish2", "close"}

CtlOnSnapshot ==
  /\ ctl.pc \in {"latch", "publish"} => snap = ctl.cur
  /\ ctl.pc \in Quieted => snap = QuietTarget

(* A step that will publish has an epoch left for it: the operations were  *)
(* begun with room for all they publish.                                   *)
RoomLeft ==
  /\ ctl.pc \in {"latch", "publish"} =>
       ctl.cur.epoch + (IF ctl.kind = "detach" THEN 1 ELSE 2) <= MaxEpoch
  /\ ctl.pc \in Quieted /\ ctl.kind # "detach" => ctl.cur.epoch + 2 <= MaxEpoch
  /\ ctl.pc \in {"attach", "publishStop"} => snap.epoch + 1 <= MaxEpoch

(* A pump that still works has a restart left.                             *)
RestartLeft ==
  \A p \in Pumps : pump[p].pc \notin {"exit", "dead"} => pump[p].restarts < MaxRestarts

TInv == TypeOK /\ CtlWellFormed /\ CtlOnSnapshot /\ RoomLeft /\ RestartLeft

(* Before start() nothing has happened: no epoch but 0 is published.       *)
NotStarted ==
  snap.epoch = 0 => ~running /\ ctl.pc = "idle" /\ muxSide = 0 /\ tuns = 1

(* The mux holds the socket of the engine attached last and no other.  The *)
(* snapshot names it and forwards to it, except in the stretch of a swap   *)
(* that has published the quiet target, and of a stop.                     *)
Steady(s) == s.eng = muxSide /\ (s.state = "FORWARD" <=> muxSide # 0)
Parked(s) == s.eng = 0 /\ s.state = "DROP"

EngInv ==
  /\ openEng = {muxSide} \ {0}
  /\ ctl.pc \in {"idle", "latch", "publish", "wake2", "release", "attach", "return",
                 "publishStop"} => Steady(snap)
  /\ ctl.pc \in Quieted /\ ctl.kind = "setTun" => Steady(ctl.cur)
  /\ ctl.pc \in Quieted /\ ctl.kind # "setTun" => Parked(snap)
  /\ ctl.pc \in {"wakeStop", "join"} => Parked(snap)
  /\ ctl.pc = "attach" => muxSide = 0

(* The newest TUN is open, and what a replacement closes is an older one   *)
(* that the snapshot no longer names.                                      *)
TunInv ==
  /\ tuns \in openTun /\ openTun \subseteq 1..tuns
  /\ snap.tun # 0 => snap.tun \in openTun
  /\ ctl.kind = "setTun" /\ ctl.pc \in Quiescing \cup {"publish2", "wake2", "release"} =>
       ctl.cur.tun < tuns
  /\ ctl.kind = "setTun" /\ ctl.pc \in {"wake2", "release"} => snap.tun = tuns

(* A pump between its load of the snapshot and its poll either holds the   *)
(* published snapshot, or its pipe holds a byte, or the controller is      *)
(* about to write one.                                                     *)
WakeInv ==
  \A p \in Pumps :
    (/\ pump[p].pc \in {"ack", "poll"} /\ pump[p].s.epoch # snap.epoch
     /\ ctl.pc \notin {"wake", "wake2", "wakeStop"}) => wake[p]

-----------------------------------------------------------------------------
(* Types.                                                                  *)

CtlPc == {"idle", "latch", "publish", "wake", "await", "publish2", "wake2", "release",
          "close", "attach", "return", "publishStop", "wakeStop", "join"}
CtlType == [kind : {"none", "setTun", "detach", "attach", "stop"}, pc : CtlPc, cur : Snapshots]
PumpPc == {"start", "top", "ack", "poll", "read", "write", "exit", "dead"}
LocalEpoch == {0 - 1} \cup Epoch
PumpType == [pc : PumpPc, s : Snapshots, local : LocalEpoch, restarts : 0..MaxRestarts]

(* Null is an epoch, the idle records are typed, and so is a pump's count. *)
LEMMA Constants ==
  /\ 0 \in Epoch /\ 1 \in Epoch /\ Epoch \subseteq Int /\ 1..MaxEpoch \subseteq Epoch
  /\ 0 \in 0..MaxRestarts /\ MaxRestarts \in Nat
  /\ NoSnap \in Snapshots /\ Idle \in CtlType /\ Fresh \in PumpType
  <1>1. 0 \in Epoch /\ 1 \in Epoch /\ Epoch \subseteq Int /\ 1..MaxEpoch \subseteq Epoch /\ 0 \in 0..MaxRestarts
    BY MuxAssumptions DEF Epoch
  <1>2. NoSnap \in Snapshots
    BY <1>1 DEF NoSnap, Snapshots
  <1> QED
    BY <1>1, <1>2, MuxAssumptions DEF Idle, Fresh, CtlType, CtlPc, PumpType, PumpPc, LocalEpoch

(* The mux starts typed.                                                   *)
LEMMA InitTyped == Init => TInv
  <1> SUFFICES ASSUME Init PROVE TInv
    OBVIOUS
  <1>1. /\ snap \in Snapshots /\ latch \in Epoch /\ acks \in [1..MaxEpoch -> 0..2]
        /\ muxSide \in Epoch /\ openEng \subseteq 1..MaxEpoch /\ openTun \subseteq 1..MaxEpoch
        /\ tuns \in 1..MaxEpoch /\ ctl \in CtlType
    BY Constants, MuxAssumptions DEF Init
  <1>2. /\ pump \in [Pumps -> PumpType] /\ wake \in [Pumps -> BOOLEAN]
        /\ running \in BOOLEAN /\ stage \in BOOLEAN
    BY Constants DEF Init
  <1>3. TypeOK
    BY <1>1, <1>2 DEF TypeOK, CtlType, CtlPc, PumpType, PumpPc, LocalEpoch
  <1>4. CtlWellFormed /\ CtlOnSnapshot /\ RoomLeft /\ RestartLeft
    BY DEF Init, Idle, Fresh, CtlWellFormed, CtlOnSnapshot, RoomLeft, RestartLeft, Quiescing, Quieted
  <1> QED
    BY <1>3, <1>4 DEF TInv

(* TypeOK, one variable at a time.                                         *)
LEMMA TypeParts ==
  TypeOK <=>
    /\ running \in BOOLEAN /\ snap \in Snapshots /\ latch \in Epoch
    /\ acks \in [1..MaxEpoch -> 0..2] /\ wake \in [Pumps -> BOOLEAN]
    /\ muxSide \in Epoch /\ openEng \subseteq 1..MaxEpoch /\ openTun \subseteq 1..MaxEpoch
    /\ tuns \in 1..MaxEpoch /\ ctl \in CtlType /\ pump \in [Pumps -> PumpType]
    /\ stage \in BOOLEAN
  BY DEF TypeOK, CtlType, CtlPc, PumpType, PumpPc, LocalEpoch

(* The same in the next state.                                             *)
LEMMA TypePartsNext ==
  TypeOK' <=>
    /\ running' \in BOOLEAN /\ snap' \in Snapshots /\ latch' \in Epoch
    /\ acks' \in [1..MaxEpoch -> 0..2] /\ wake' \in [Pumps -> BOOLEAN]
    /\ muxSide' \in Epoch /\ openEng' \subseteq 1..MaxEpoch /\ openTun' \subseteq 1..MaxEpoch
    /\ tuns' \in 1..MaxEpoch /\ ctl' \in CtlType /\ pump' \in [Pumps -> PumpType]
    /\ stage' \in BOOLEAN
  BY DEF TypeOK, CtlType, CtlPc, PumpType, PumpPc, LocalEpoch

(* A pump thread leaves the controller and the snapshot alone.             *)
LEMMA PumpsOnly ==
  ASSUME TInv, Quietly, acks' \in [1..MaxEpoch -> 0..2], wake' \in [Pumps -> BOOLEAN],
         pump' \in [Pumps -> PumpType], RestartLeft'
  PROVE  TInv'
  <1>1. TypeOK'
    BY TypeParts, TypePartsNext DEF TInv, Quietly, channel
  <1>2. CtlWellFormed' /\ CtlOnSnapshot' /\ RoomLeft'
    BY DEF TInv, Quietly, CtlWellFormed, CtlOnSnapshot, RoomLeft, QuietTarget
  <1> QED
    BY <1>1, <1>2 DEF TInv

(* A pump's record with typed fields is typed.                             *)
LEMMA PumpFields ==
  ASSUME NEW q \in PumpType, NEW pc \in PumpPc, NEW s \in Snapshots, NEW l \in LocalEpoch,
         NEW n \in 0..MaxRestarts
  PROVE  /\ [q EXCEPT !.pc = pc] \in PumpType
         /\ [q EXCEPT !.pc = pc, !.local = l] \in PumpType
         /\ [q EXCEPT !.pc = pc, !.s = s] \in PumpType
         /\ [q EXCEPT !.pc = pc, !.s = s, !.local = l] \in PumpType
         /\ [q EXCEPT !.pc = pc, !.restarts = n] \in PumpType
  BY DEF PumpType

(* Replacing the record of one pump keeps them typed, and RestartLeft with *)
(* them when a record that still works has a restart left.                 *)
LEMMA OnePump ==
  ASSUME pump \in [Pumps -> PumpType], RestartLeft, NEW p \in Pumps, NEW q \in PumpType,
         pump' = [pump EXCEPT ![p] = q],
         q.pc \notin {"exit", "dead"} => q.restarts < MaxRestarts
  PROVE  pump' \in [Pumps -> PumpType] /\ RestartLeft'
  BY DEF RestartLeft

(* Moving a pump on keeps it typed, and spends no restart.                 *)
LEMMA PumpMoves ==
  ASSUME TInv, NEW p \in Pumps, NEW pc \in PumpPc, PumpTo(p, pc),
         pump[p].pc \notin {"exit", "dead"}
  PROVE  pump' \in [Pumps -> PumpType] /\ RestartLeft'
  <1> DEFINE q == [pump[p] EXCEPT !.pc = pc]
  <1>1. pump \in [Pumps -> PumpType] /\ RestartLeft
    BY TypeParts DEF TInv
  <1>2. q \in PumpType
    BY <1>1, PumpFields, Constants DEF PumpType
  <1>3. pump' = [pump EXCEPT ![p] = q]
    BY DEF PumpTo
  <1>4. q.restarts = pump[p].restarts
    BY <1>1 DEF PumpType
  <1>5. q.pc \notin {"exit", "dead"} => q.restarts < MaxRestarts
    BY <1>1, <1>4 DEF RestartLeft
  <1> HIDE DEF q
  <1> QED
    BY <1>1, <1>2, <1>3, <1>5, OnePump

(* Every step of a pump thread keeps TInv.                                 *)
LEMMA PumpTyped ==
  ASSUME TInv, NEW p \in Pumps, PumpSteps(p) \/ PumpFails(p)
  PROVE  TInv'
  <1>t. /\ pump \in [Pumps -> PumpType] /\ RestartLeft /\ snap \in Snapshots /\ running \in BOOLEAN
        /\ acks \in [1..MaxEpoch -> 0..2] /\ wake \in [Pumps -> BOOLEAN] /\ latch \in Epoch
    BY TypeParts DEF TInv
  <1>p. /\ pump[p] \in PumpType /\ pump[p].s \in Snapshots /\ pump[p].local \in LocalEpoch
        /\ pump[p].restarts \in 0..MaxRestarts
    BY <1>t DEF PumpType
  <1>r. pump[p].pc \notin {"exit", "dead"} => pump[p].restarts < MaxRestarts
    BY <1>t DEF RestartLeft
  <1>s. snap.epoch \in LocalEpoch
    BY <1>t DEF Snapshots, LocalEpoch
  <1>1. CASE PumpStarts(p)
    <2>0. PICK pc \in {"top", "exit"} : pump' = [pump EXCEPT ![p].pc = pc, ![p].local = 0 - 1]
      BY <1>1 DEF PumpStarts
    <2> DEFINE q == [pump[p] EXCEPT !.pc = pc, !.local = 0 - 1]
    <2>1. pc \in PumpPc /\ 0 - 1 \in LocalEpoch
      BY <2>0 DEF PumpPc, LocalEpoch
    <2>2. q \in PumpType
      BY <2>1, <1>p, PumpFields
    <2>3. pump' = [pump EXCEPT ![p] = q]
      BY <2>0, <1>t
    <2>4. q.restarts = pump[p].restarts
      BY <1>p DEF PumpType
    <2>5. pump[p].pc \notin {"exit", "dead"}
      BY <1>1 DEF PumpStarts, At
    <2> HIDE DEF q
    <2>6. pump' \in [Pumps -> PumpType] /\ RestartLeft'
      BY <1>t, <1>r, <2>2, <2>3, <2>4, <2>5, OnePump
    <2> QED
      BY <1>1, <1>t, <2>6, PumpsOnly DEF PumpStarts
  <1>2. CASE PumpLoads(p)
    <2>0. pump[p].pc \notin {"exit", "dead"}
      BY <1>2 DEF PumpLoads, At
    <2>1. CASE ~running
      <3>1. PumpTo(p, "exit") /\ "exit" \in PumpPc
        BY <1>2, <2>1 DEF PumpLoads, PumpTo, PumpPc
      <3>2. pump' \in [Pumps -> PumpType] /\ RestartLeft'
        BY <2>0, <3>1, PumpMoves
      <3> QED
        BY <1>2, <1>t, <3>2, PumpsOnly DEF PumpLoads
    <2>2. CASE running /\ snap.epoch # pump[p].local
      <3> DEFINE q == [pump[p] EXCEPT !.pc = "ack", !.s = snap, !.local = snap.epoch]
      <3>1. pump' = [pump EXCEPT ![p].pc = "ack", ![p].s = snap, ![p].local = snap.epoch]
        BY <1>2, <2>2 DEF PumpLoads
      <3>2. pump' = [pump EXCEPT ![p] = q]
        BY <3>1, <1>t
      <3>3. "ack" \in PumpPc
        BY DEF PumpPc
      <3>4. q \in PumpType
        BY <3>3, <1>s, <1>t, <1>p, PumpFields
      <3>5. q.restarts = pump[p].restarts
        BY <1>p DEF PumpType
      <3> HIDE DEF q
      <3>6. pump' \in [Pumps -> PumpType] /\ RestartLeft'
        BY <1>t, <1>r, <2>0, <3>2, <3>4, <3>5, OnePump
      <3> QED
        BY <1>2, <1>t, <3>6, PumpsOnly DEF PumpLoads
    <2>3. CASE running /\ snap.epoch = pump[p].local
      <3> DEFINE q == [pump[p] EXCEPT !.pc = "poll", !.s = snap]
      <3>1. pump' = [pump EXCEPT ![p].pc = "poll", ![p].s = snap]
        BY <1>2, <2>3 DEF PumpLoads
      <3>2. pump' = [pump EXCEPT ![p] = q]
        BY <3>1, <1>t
      <3>3. "poll" \in PumpPc
        BY DEF PumpPc
      <3>4. q \in PumpType
        BY <3>3, <1>t, <1>p, PumpFields
      <3>5. q.restarts = pump[p].restarts
        BY <1>p DEF PumpType
      <3> HIDE DEF q
      <3>6. pump' \in [Pumps -> PumpType] /\ RestartLeft'
        BY <1>t, <1>r, <2>0, <3>2, <3>4, <3>5, OnePump
      <3> QED
        BY <1>2, <1>t, <3>6, PumpsOnly DEF PumpLoads
    <2> QED
      BY <2>1, <2>2, <2>3, <1>t
  <1>3. CASE PumpAcks(p)
    <2>1. pump' \in [Pumps -> PumpType] /\ RestartLeft'
      BY <1>3, PumpMoves DEF PumpAcks, At, PumpPc
    <2>2. acks' \in [1..MaxEpoch -> 0..2]
      BY <1>3, <1>t, MuxAssumptions DEF PumpAcks, Epoch
    <2> QED
      BY <1>3, <1>t, <2>1, <2>2, PumpsOnly DEF PumpAcks
  <1>4. CASE PumpPolls(p)
    <2>1. pump' \in [Pumps -> PumpType] /\ RestartLeft'
      BY <1>4, PumpMoves DEF PumpPolls, At, PumpPc
    <2>2. wake' \in [Pumps -> BOOLEAN]
      BY <1>4, <1>t DEF PumpPolls
    <2> QED
      BY <1>4, <1>t, <2>1, <2>2, PumpsOnly DEF PumpPolls
  <1>5. CASE PumpReads(p) \/ PumpWrites(p)
    <2>1. pump' \in [Pumps -> PumpType] /\ RestartLeft'
      BY <1>5, PumpMoves DEF PumpReads, PumpWrites, At, PumpPc
    <2> QED
      BY <1>5, <1>t, <2>1, PumpsOnly DEF PumpReads, PumpWrites
  <1>6. CASE PumpFails(p)
    <2>1. PICK before \in {0, pump[p].restarts} :
            pump' = [pump EXCEPT ![p].pc = AfterFailure(before + 1),
                                 ![p].restarts = IF running THEN before + 1 ELSE @]
      BY <1>6 DEF PumpFails
    <2>0. pump[p].pc \notin {"exit", "dead"}
      BY <1>6 DEF PumpFails
    <2>2. before \in 0..MaxRestarts /\ before < MaxRestarts
      BY <2>0, <1>p, <1>r, MuxAssumptions
    <2>3. /\ before + 1 \in 0..MaxRestarts
          /\ AfterFailure(before + 1) \in {"exit", "dead", "start"}
          /\ AfterFailure(before + 1) = "start" => before + 1 < MaxRestarts /\ running
      BY <2>2, MuxAssumptions DEF AfterFailure
    <2> DEFINE n == IF running THEN before + 1 ELSE pump[p].restarts
               pc == AfterFailure(before + 1)
               q == [pump[p] EXCEPT !.pc = pc, !.restarts = n]
    <2>4. pump' = [pump EXCEPT ![p] = q]
      BY <2>1, <1>t
    <2>5. n \in 0..MaxRestarts /\ pc \in PumpPc
      BY <2>3, <1>p DEF PumpPc
    <2>n. pc \notin {"exit", "dead"} => n < MaxRestarts
      BY <2>3
    <2> HIDE DEF n, pc
    <2>6. q \in PumpType
      BY <2>5, <1>p, PumpFields
    <2>7. q.pc = pc /\ q.restarts = n
      BY <1>p DEF PumpType
    <2> HIDE DEF q
    <2>8. pump' \in [Pumps -> PumpType] /\ RestartLeft'
      BY <1>t, <2>4, <2>6, <2>7, <2>n, OnePump
    <2> QED
      BY <1>6, <1>t, <2>8, PumpsOnly DEF PumpFails
  <1> QED
    BY <1>1, <1>2, <1>3, <1>4, <1>5, <1>6 DEF PumpSteps

(* The snapshot that quiesces the pumps is one.                            *)
LEMMA QuietTargetTyped ==
  ASSUME TypeOK, ctl.cur.epoch + 1 <= MaxEpoch
  PROVE  QuietTarget \in Snapshots
  <1>1. ctl.cur \in Snapshots
    BY DEF TypeOK
  <1>2. ctl.cur.epoch + 1 \in Epoch
    BY <1>1, MuxAssumptions DEF Snapshots, Epoch
  <1> QED
    BY <1>1, <1>2, Constants DEF QuietTarget, Snapshots

(* start() gives each pump all its restarts.                               *)
LEMMA FreshPumps ==
  ASSUME Start
  PROVE  pump' \in [Pumps -> PumpType] /\ RestartLeft'
  <1> DEFINE f == [Fresh EXCEPT !.pc = "start"]
  <1>1. f \in PumpType /\ f.restarts = 0
    BY Constants DEF Fresh, PumpType, PumpPc
  <1>2. pump' = [p \in Pumps |-> f]
    BY DEF Start
  <1>3. 0 < MaxRestarts
    BY MuxAssumptions
  <1> HIDE DEF f
  <1> QED
    BY <1>1, <1>2, <1>3 DEF RestartLeft

(* A controller's record with typed fields is typed, and says what it was  *)
(* told.                                                                   *)
LEMMA CtlFields ==
  ASSUME TypeOK, NEW kind \in {"none", "setTun", "detach", "attach", "stop"}, NEW pc \in CtlPc
  PROVE  /\ Step(pc) => /\ ctl' \in CtlType /\ ctl'.pc = pc
                        /\ ctl'.kind = ctl.kind /\ ctl'.cur = ctl.cur
         /\ Go(kind, pc) => /\ ctl' \in CtlType /\ ctl'.pc = pc
                            /\ ctl'.kind = kind /\ ctl'.cur = snap
  <1>1. ctl \in CtlType /\ snap \in Snapshots
    BY TypeParts
  <1>2. ASSUME Step(pc) PROVE ctl' \in CtlType /\ ctl'.pc = pc /\ ctl'.kind = ctl.kind /\ ctl'.cur = ctl.cur
    BY <1>1, <1>2 DEF Step, CtlType
  <1>3. ASSUME Go(kind, pc) PROVE ctl' \in CtlType /\ ctl'.pc = pc /\ ctl'.kind = kind /\ ctl'.cur = snap
    BY <1>1, <1>3 DEF Go, CtlType
  <1> QED
    BY <1>2, <1>3

(* Every step keeps TInv.                                                  *)
LEMMA NextTyped == TInv /\ [Next]_vars => TInv'
  <1> SUFFICES ASSUME TInv, [Next]_vars PROVE TInv'
    OBVIOUS
  <1>t. /\ running \in BOOLEAN /\ snap \in Snapshots /\ latch \in Epoch
        /\ acks \in [1..MaxEpoch -> 0..2] /\ wake \in [Pumps -> BOOLEAN]
        /\ muxSide \in Epoch /\ openEng \subseteq 1..MaxEpoch /\ openTun \subseteq 1..MaxEpoch
        /\ tuns \in 1..MaxEpoch /\ ctl \in CtlType /\ pump \in [Pumps -> PumpType]
        /\ stage \in BOOLEAN
    BY TypeParts DEF TInv
  <1>c. /\ TypeOK /\ CtlWellFormed /\ CtlOnSnapshot /\ RoomLeft /\ RestartLeft
        /\ ctl.kind \in {"none", "setTun", "detach", "attach", "stop"}
        /\ ctl.pc \in CtlPc /\ ctl.cur \in Snapshots
    BY <1>t DEF TInv, CtlType
  <1>n. /\ snap.epoch \in Epoch /\ ctl.cur.epoch \in Epoch /\ snap.tun \in Epoch
        /\ snap.epoch \in Nat /\ ctl.cur.epoch \in Nat
        /\ QuietTarget.epoch = ctl.cur.epoch + 1
    BY <1>t, <1>c, MuxAssumptions DEF Snapshots, Epoch, QuietTarget
  <1>p. /\ \A pc \in CtlPc : Step(pc) => /\ ctl' \in CtlType /\ ctl'.pc = pc
                                         /\ ctl'.kind = ctl.kind /\ ctl'.cur = ctl.cur
        /\ \A pc \in CtlPc, kind \in {"none", "setTun", "detach", "attach", "stop"} :
             Go(kind, pc) => /\ ctl' \in CtlType /\ ctl'.pc = pc
                             /\ ctl'.kind = kind /\ ctl'.cur = snap
    BY <1>c, CtlFields
  <1>w. Wake => wake' \in [Pumps -> BOOLEAN]
    BY DEF Wake
  <1>q. /\ (ctl'.kind = ctl.kind /\ ctl'.cur = ctl.cur) => QuietTarget' = QuietTarget
        /\ UNCHANGED pump => RestartLeft'
    BY <1>c DEF QuietTarget, RestartLeft
  <1>m. MaxEpoch \in Nat
    BY MuxAssumptions
  <1> DEFINE Ctl == CtlWellFormed' /\ CtlOnSnapshot' /\ RoomLeft'
  <1>z. ASSUME TypeOK', Ctl, RestartLeft' PROVE TInv'
    BY <1>z DEF TInv
  <1>1. ASSUME Start PROVE TInv'
    <2>1. snap' \in Snapshots /\ running' \in BOOLEAN
      BY <1>1, Constants DEF Start, Snapshots
    <2>2. pump' \in [Pumps -> PumpType] /\ RestartLeft'
      BY <1>1, FreshPumps
    <2>3. TypeOK'
      BY <1>1, <1>t, <2>1, <2>2, TypePartsNext DEF Start, channel
    <2>4. ctl' = ctl /\ ctl.pc = "idle"
      BY <1>1 DEF Start
    <2>5. Ctl
      BY <1>c, <2>4 DEF CtlWellFormed, CtlOnSnapshot, RoomLeft, Quiescing, Quieted
    <2> QED
      BY <1>z, <2>2, <2>3, <2>5
  <1>2. ASSUME SetTun PROVE TInv'
    <2>1. /\ ctl' \in CtlType /\ ctl'.pc = "latch" /\ ctl'.kind = "setTun" /\ ctl'.cur = snap
          /\ snap' = snap /\ snap.epoch + 2 <= MaxEpoch
      BY <1>2, <1>p DEF SetTun, CtlPc, RoomFor
    <2>2. tuns' \in 1..MaxEpoch /\ openTun' \subseteq 1..MaxEpoch
      BY <1>2, <1>t, <1>m DEF SetTun
    <2>3. TypeOK'
      BY <1>2, <1>t, <2>1, <2>2, TypePartsNext DEF SetTun
    <2>4. Ctl
      BY <2>1 DEF CtlWellFormed, CtlOnSnapshot, RoomLeft, Quiescing, Quieted
    <2> QED
      BY <1>2, <1>q, <1>z, <2>3, <2>4 DEF SetTun
  <1>3. ASSUME DetachEngine PROVE TInv'
    <2>1. /\ ctl' \in CtlType /\ ctl'.pc = "latch" /\ ctl'.kind = "detach" /\ ctl'.cur = snap
          /\ snap' = snap /\ snap.epoch + 1 <= MaxEpoch
      BY <1>3, <1>p DEF DetachEngine, CtlPc, RoomFor
    <2>2. TypeOK'
      BY <1>3, <1>t, <2>1, TypePartsNext DEF DetachEngine, channel
    <2>3. Ctl
      BY <2>1 DEF CtlWellFormed, CtlOnSnapshot, RoomLeft, Quiescing, Quieted
    <2> QED
      BY <1>3, <1>q, <1>z, <2>2, <2>3 DEF DetachEngine
  <1>4. ASSUME AttachEngine PROVE TInv'
    <2>0. PICK pc \in {"attach", "latch"} : Go("attach", pc)
      BY <1>4 DEF AttachEngine
    <2>1. /\ ctl' \in CtlType /\ ctl'.pc \in {"attach", "latch"} /\ ctl'.kind = "attach"
          /\ ctl'.cur = snap /\ snap' = snap /\ snap.epoch + 2 <= MaxEpoch
      BY <1>4, <1>p, <2>0 DEF AttachEngine, CtlPc, RoomFor
    <2>2. TypeOK'
      BY <1>4, <1>t, <2>1, TypePartsNext DEF AttachEngine, channel
    <2>3. Ctl
      BY <1>n, <1>m, <2>1 DEF CtlWellFormed, CtlOnSnapshot, RoomLeft, Quiescing, Quieted
    <2> QED
      BY <1>4, <1>q, <1>z, <2>2, <2>3 DEF AttachEngine
  <1>5. ASSUME StopBegins PROVE TInv'
    <2>1. /\ ctl' \in CtlType /\ ctl'.pc = "publishStop" /\ ctl'.kind = "stop"
          /\ snap' = snap /\ snap.epoch + 1 <= MaxEpoch
      BY <1>5, <1>p DEF StopBegins, CtlPc, RoomFor
    <2>2. TypeOK'
      BY <1>5, <1>t, <2>1, TypePartsNext DEF StopBegins, channel
    <2>3. Ctl
      BY <2>1 DEF CtlWellFormed, CtlOnSnapshot, RoomLeft, Quiescing, Quieted
    <2> QED
      BY <1>5, <1>q, <1>z, <2>2, <2>3 DEF StopBegins
  <1>6. ASSUME SetDnsStage PROVE TInv'
    <2>1. ctl' = ctl /\ snap' = snap
      BY <1>6 DEF SetDnsStage
    <2>2. stage' \in BOOLEAN
      BY <1>6, <1>t DEF SetDnsStage
    <2>3. TypeOK'
      BY <1>6, <1>t, <2>2, TypePartsNext DEF SetDnsStage, channel
    <2>4. Ctl
      BY <1>c, <1>q, <2>1 DEF CtlWellFormed, CtlOnSnapshot, RoomLeft
    <2> QED
      BY <1>6, <1>q, <1>z, <2>3, <2>4 DEF SetDnsStage
  <1>7. ASSUME Quiesce PROVE TInv'
    <2>0. UNCHANGED <<running, acks, channel, pump, stage>> /\ RestartLeft'
      BY <1>7, <1>q DEF Quiesce
    <2>1. CASE ctl.pc = "latch"
      <3>1. InstallLatch /\ Step("publish")
        BY <1>7, <2>1 DEF Quiesce
      <3>2. /\ ctl' \in CtlType /\ ctl'.pc = "publish" /\ ctl'.kind = ctl.kind
            /\ ctl'.cur = ctl.cur /\ snap' = snap
        BY <1>p, <3>1 DEF CtlPc, InstallLatch
      <3>3. latch' \in Epoch
        BY <1>c, <1>n, <1>m, <2>1, <3>1 DEF RoomLeft, InstallLatch, Epoch
      <3>4. TypeOK'
        BY <1>t, <2>0, <3>1, <3>2, <3>3, TypePartsNext DEF InstallLatch, channel
      <3>5. Ctl
        BY <1>c, <2>1, <3>2 DEF CtlWellFormed, CtlOnSnapshot, RoomLeft, Quiescing, Quieted
      <3> QED
        BY <1>z, <2>0, <3>4, <3>5
    <2>2. CASE ctl.pc = "publish"
      <3>1. Publish(QuietTarget) /\ Step("wake")
        BY <1>7, <2>2 DEF Quiesce
      <3>2. /\ ctl' \in CtlType /\ ctl'.pc = "wake" /\ ctl'.kind = ctl.kind
            /\ ctl'.cur = ctl.cur /\ snap' = QuietTarget /\ QuietTarget' = QuietTarget
        BY <1>p, <1>q, <3>1 DEF CtlPc, Publish
      <3>3. snap' \in Snapshots
        <4>1. ctl.cur.epoch + 1 <= MaxEpoch
          BY <1>c, <1>n, <1>m, <2>2 DEF RoomLeft
        <4> QED
          BY <1>c, <3>2, <4>1, QuietTargetTyped
      <3>4. TypeOK'
        BY <1>t, <2>0, <3>1, <3>2, <3>3, TypePartsNext DEF Publish, channel
      <3>5. CtlWellFormed' /\ CtlOnSnapshot'
        BY <1>c, <2>2, <3>2 DEF CtlWellFormed, CtlOnSnapshot, Quiescing, Quieted
      <3>6. RoomLeft'
        BY <1>c, <1>n, <1>m, <2>2, <3>2 DEF RoomLeft, Quieted
      <3> QED
        BY <1>z, <2>0, <3>4, <3>5, <3>6
    <2>3. CASE ctl.pc = "wake"
      <3>1. Wake /\ Step("await")
        BY <1>7, <2>3 DEF Quiesce
      <3>2. /\ ctl' \in CtlType /\ ctl'.pc = "await" /\ ctl'.kind = ctl.kind
            /\ ctl'.cur = ctl.cur /\ snap' = snap /\ QuietTarget' = QuietTarget
        BY <1>p, <1>q, <3>1 DEF CtlPc, Wake
      <3>3. TypeOK'
        BY <1>t, <1>w, <2>0, <3>1, <3>2, TypePartsNext DEF Wake, channel
      <3>4. Ctl
        BY <1>c, <2>3, <3>2 DEF CtlWellFormed, CtlOnSnapshot, RoomLeft, Quiescing, Quieted
      <3> QED
        BY <1>z, <2>0, <3>3, <3>4
    <2> QED
      BY <1>7, <2>1, <2>2, <2>3 DEF Quiesce
  <1>8. ASSUME Await \/ AwaitTimesOut PROVE TInv'
    <2>0. ctl.pc = "await" /\ Awaited
      BY <1>8 DEF Await, AwaitTimesOut
    <2>p. PICK pc \in {"publish2", "close"} :
            Step(pc) /\ (pc = "publish2" <=> ctl.kind = "setTun")
      BY <2>0 DEF Awaited
    <2>1. /\ ctl' \in CtlType /\ ctl'.pc = pc /\ ctl'.kind = ctl.kind
          /\ ctl'.cur = ctl.cur /\ snap' = snap /\ QuietTarget' = QuietTarget
      BY <1>p, <1>q, <2>0, <2>p DEF CtlPc, Awaited
    <2>2. latch' \in Epoch
      BY <2>0, Constants DEF Awaited
    <2>3. TypeOK'
      BY <1>t, <2>0, <2>1, <2>2, TypePartsNext DEF Awaited, channel
    <2>4. CtlWellFormed'
      BY <1>c, <2>0, <2>p, <2>1 DEF CtlWellFormed, Quiescing
    <2>5. CtlOnSnapshot' /\ RoomLeft'
      BY <1>c, <2>0, <2>p, <2>1 DEF CtlOnSnapshot, RoomLeft, Quieted
    <2> QED
      BY <1>q, <1>z, <2>0, <2>3, <2>4, <2>5 DEF Awaited
  <1>9. ASSUME PublishTun PROVE TInv'
    <2>0. /\ ctl' \in CtlType /\ ctl'.pc = "wake2" /\ ctl'.kind = ctl.kind
          /\ ctl'.cur = ctl.cur
      BY <1>9, <1>p DEF PublishTun, CtlPc
    <2>1. ctl.kind = "setTun"
      BY <1>9, <1>c DEF PublishTun, CtlWellFormed
    <2>2. snap.epoch + 1 \in Epoch /\ tuns \in Epoch
      BY <1>9, <1>c, <1>n, <1>m, <1>t, <2>1 DEF PublishTun, CtlOnSnapshot, RoomLeft, Quieted, Epoch
    <2>3. snap' \in Snapshots
      BY <1>9, <1>c, <2>2 DEF PublishTun, Publish, Snapshots
    <2>4. TypeOK'
      BY <1>9, <1>t, <2>0, <2>3, TypePartsNext DEF PublishTun, Publish, channel
    <2>5. Ctl
      BY <2>0, <2>1 DEF CtlWellFormed, CtlOnSnapshot, RoomLeft, Quiescing, Quieted
    <2> QED
      BY <1>9, <1>q, <1>z, <2>4, <2>5 DEF PublishTun
  <1>10. ASSUME WakeAfterPublish PROVE TInv'
    <2>p. PICK pc \in {"release", "return"} :
            Step(pc) /\ (pc = "release" <=> ctl.kind = "setTun")
      BY <1>10 DEF WakeAfterPublish
    <2>1. ctl' \in CtlType /\ ctl'.pc = pc /\ ctl'.kind = ctl.kind
      BY <1>p, <2>p DEF CtlPc
    <2>2. TypeOK'
      BY <1>10, <1>t, <1>w, <2>1, TypePartsNext DEF WakeAfterPublish, Wake, channel
    <2>3. Ctl
      BY <2>p, <2>1 DEF CtlWellFormed, CtlOnSnapshot, RoomLeft, Quiescing, Quieted
    <2> QED
      BY <1>10, <1>q, <1>z, <2>2, <2>3 DEF WakeAfterPublish
  <1>11. ASSUME ReleasePreviousTun PROVE TInv'
    <2>1. ctl' \in CtlType /\ ctl'.pc = "return"
      BY <1>11, <1>p DEF ReleasePreviousTun, CtlPc
    <2>2. openTun' \subseteq 1..MaxEpoch
      BY <1>11, <1>t DEF ReleasePreviousTun
    <2>3. TypeOK'
      BY <1>11, <1>t, <2>1, <2>2, TypePartsNext DEF ReleasePreviousTun
    <2>4. Ctl
      BY <2>1 DEF CtlWellFormed, CtlOnSnapshot, RoomLeft, Quiescing, Quieted
    <2> QED
      BY <1>11, <1>q, <1>z, <2>3, <2>4 DEF ReleasePreviousTun
  <1>12. ASSUME CloseEngine PROVE TInv'
    <2>p. PICK pc \in {"attach", "return"} :
            Step(pc) /\ (pc = "attach" <=> ctl.kind = "attach")
      BY <1>12 DEF CloseEngine
    <2>1. ctl' \in CtlType /\ ctl'.pc = pc /\ ctl'.kind = ctl.kind /\ snap' = snap
      BY <1>12, <1>p, <2>p DEF CtlPc, CloseEngine
    <2>2. muxSide' \in Epoch /\ openEng' \subseteq 1..MaxEpoch
      BY <1>12, <1>t, Constants DEF CloseEngine
    <2>3. TypeOK'
      BY <1>12, <1>t, <2>1, <2>2, TypePartsNext DEF CloseEngine
    <2>4. ctl.kind = "attach" => snap.epoch + 1 <= MaxEpoch
      BY <1>12, <1>c, <1>n, <1>m DEF CloseEngine, CtlOnSnapshot, RoomLeft, Quieted
    <2>5. Ctl
      BY <2>p, <2>1, <2>4 DEF CtlWellFormed, CtlOnSnapshot, RoomLeft, Quiescing, Quieted
    <2> QED
      BY <1>12, <1>q, <1>z, <2>3, <2>5 DEF CloseEngine
  <1>13. ASSUME AttachSocket PROVE TInv'
    <2>1. /\ ctl' \in CtlType /\ ctl'.pc = "wake2" /\ ctl'.kind = ctl.kind
          /\ ctl.kind = "attach"
      BY <1>13, <1>p, <1>c DEF AttachSocket, CtlPc, CtlWellFormed
    <2>2. snap.epoch + 1 \in 1..MaxEpoch /\ snap.epoch + 1 \in Epoch
      BY <1>13, <1>c, <1>n, <1>m DEF AttachSocket, RoomLeft, Epoch
    <2>3. snap' \in Snapshots
      BY <1>13, <1>n, <2>2 DEF AttachSocket, Publish, Snapshots
    <2>4. muxSide' \in Epoch /\ openEng' \subseteq 1..MaxEpoch
      BY <1>13, <1>t, <2>2 DEF AttachSocket
    <2>5. TypeOK'
      BY <1>13, <1>t, <2>1, <2>3, <2>4, TypePartsNext DEF AttachSocket, Publish
    <2>6. Ctl
      BY <2>1 DEF CtlWellFormed, CtlOnSnapshot, RoomLeft, Quiescing, Quieted
    <2> QED
      BY <1>13, <1>q, <1>z, <2>5, <2>6 DEF AttachSocket
  <1>14. ASSUME AttachFails PROVE TInv'
    <2>1. ctl' \in CtlType /\ ctl'.pc = "return"
      BY <1>14, <1>p DEF AttachFails, CtlPc
    <2>2. TypeOK'
      BY <1>14, <1>t, <2>1, TypePartsNext DEF AttachFails, channel
    <2>3. Ctl
      BY <2>1 DEF CtlWellFormed, CtlOnSnapshot, RoomLeft, Quiescing, Quieted
    <2> QED
      BY <1>14, <1>q, <1>z, <2>2, <2>3 DEF AttachFails
  <1>15. ASSUME Return PROVE TInv'
    <2>1. ctl' \in CtlType /\ ctl'.pc = "idle" /\ ctl'.kind = "none"
      BY <1>15, Constants DEF Return, Idle
    <2>2. TypeOK'
      BY <1>15, <1>t, <2>1, TypePartsNext DEF Return, channel
    <2>3. Ctl
      BY <2>1 DEF CtlWellFormed, CtlOnSnapshot, RoomLeft, Quiescing, Quieted
    <2> QED
      BY <1>15, <1>q, <1>z, <2>2, <2>3 DEF Return
  <1>16. ASSUME StopPublishes PROVE TInv'
    <2>0. UNCHANGED <<running, acks, channel, pump, stage>> /\ RestartLeft'
      BY <1>16, <1>q DEF StopPublishes
    <2>1. CASE ctl.pc = "publishStop"
      <3>0. Publish([NoSnap EXCEPT !.epoch = snap.epoch + 1]) /\ Step("wakeStop")
        BY <1>16, <2>1 DEF StopPublishes
      <3>1. /\ ctl' \in CtlType /\ ctl'.pc = "wakeStop" /\ ctl'.kind = "stop"
        BY <1>c, <1>p, <2>1, <3>0 DEF CtlPc, CtlWellFormed
      <3>2. snap.epoch + 1 \in Epoch
        BY <1>c, <1>n, <1>m, <2>1 DEF RoomLeft, Epoch
      <3>3. snap' \in Snapshots
        BY <3>0, <3>2, Constants DEF Publish, Snapshots
      <3>4. TypeOK'
        BY <1>t, <2>0, <3>0, <3>1, <3>3, TypePartsNext DEF Publish, channel
      <3>5. Ctl
        BY <3>1 DEF CtlWellFormed, CtlOnSnapshot, RoomLeft, Quiescing, Quieted
      <3> QED
        BY <1>z, <2>0, <3>4, <3>5
    <2>2. CASE ctl.pc = "wakeStop"
      <3>0. Wake /\ Step("join")
        BY <1>16, <2>2 DEF StopPublishes
      <3>1. /\ ctl' \in CtlType /\ ctl'.pc = "join" /\ ctl'.kind = "stop"
        BY <1>c, <1>p, <2>2, <3>0 DEF CtlPc, CtlWellFormed
      <3>2. TypeOK'
        BY <1>t, <1>w, <2>0, <3>0, <3>1, TypePartsNext DEF Wake, channel
      <3>3. Ctl
        BY <3>1 DEF CtlWellFormed, CtlOnSnapshot, RoomLeft, Quiescing, Quieted
      <3> QED
        BY <1>z, <2>0, <3>2, <3>3
    <2> QED
      BY <1>16, <2>1, <2>2 DEF StopPublishes
  <1>17. ASSUME StopJoins PROVE TInv'
    <2>1. ctl' \in CtlType /\ ctl'.pc = "return"
      BY <1>17, <1>p DEF StopJoins, CtlPc
    <2>2. stage' \in BOOLEAN /\ muxSide' \in Epoch /\ openEng' \subseteq 1..MaxEpoch
      BY <1>17, <1>t, Constants DEF StopJoins
    <2>3. TypeOK'
      BY <1>17, <1>t, <2>1, <2>2, TypePartsNext DEF StopJoins
    <2>4. Ctl
      BY <2>1 DEF CtlWellFormed, CtlOnSnapshot, RoomLeft, Quiescing, Quieted
    <2> QED
      BY <1>17, <1>q, <1>z, <2>3, <2>4 DEF StopJoins
  <1>18. ASSUME NEW p \in Pumps, PumpSteps(p) \/ PumpFails(p) PROVE TInv'
    BY <1>18, PumpTyped
  <1>19. ASSUME UNCHANGED vars PROVE TInv'
    BY <1>19 DEF vars, TInv, TypeOK, CtlWellFormed, CtlOnSnapshot, RoomLeft, RestartLeft, QuietTarget
  <1> QED
    BY <1>1, <1>2, <1>3, <1>4, <1>5, <1>6, <1>7, <1>8, <1>9, <1>10, <1>11, <1>12, <1>13,
       <1>14, <1>15, <1>16, <1>17, <1>18, <1>19
       DEF Next, ControlSteps

(* Every operation but start() is for a mux that runs.                     *)
LEMMA NextNotStarted == TInv /\ NotStarted /\ [Next]_vars => NotStarted'
  <1> SUFFICES ASSUME TInv, NotStarted, [Next]_vars PROVE NotStarted'
    OBVIOUS
  <1>t. /\ CtlOnSnapshot /\ snap \in Snapshots /\ ctl.cur \in Snapshots
        /\ ctl \in CtlType
    BY DEF TInv, TypeOK, CtlType, CtlPc
  <1>0. snap.epoch \in Nat /\ ctl.cur.epoch \in Nat
    BY <1>t, MuxAssumptions DEF Snapshots, Epoch
  <1>1. ASSUME NEW p \in Pumps, PumpSteps(p) \/ PumpFails(p) PROVE NotStarted'
    <2>1. UNCHANGED <<running, snap, muxSide, tuns, ctl>>
      BY <1>1 DEF PumpSteps, PumpStarts, PumpLoads, PumpAcks, PumpPolls, PumpReads, PumpWrites,
         PumpFails, Quietly, channel
    <2> QED
      BY <2>1 DEF NotStarted
  <1>2. ASSUME Start \/ SetTun \/ DetachEngine \/ AttachEngine \/ StopBegins \/ SetDnsStage
        PROVE  NotStarted'
    BY <1>2 DEF Start, SetTun, DetachEngine, AttachEngine, StopBegins, SetDnsStage, Controls,
       NotStarted, channel
  <1>3. ASSUME ControlSteps \/ AwaitTimesOut PROVE NotStarted'
    <2>1. ctl.pc # "idle"
      BY <1>3 DEF ControlSteps, AwaitTimesOut, Quiesce, Await, PublishTun, WakeAfterPublish,
         ReleasePreviousTun, CloseEngine, AttachSocket, AttachFails, Return, StopPublishes,
         StopJoins
    <2>2. snap.epoch # 0
      BY <2>1 DEF NotStarted
    <2>3. CASE snap' = snap
      BY <2>2, <2>3 DEF NotStarted
    <2>4. CASE snap' # snap
      <3>1. \/ snap' = QuietTarget
            \/ snap'.epoch = snap.epoch + 1
        BY <1>3, <2>4, <1>t DEF ControlSteps, AwaitTimesOut, Awaited, Quiesce, Await, PublishTun,
           WakeAfterPublish, ReleasePreviousTun, CloseEngine, AttachSocket, AttachFails, Return,
           StopPublishes, StopJoins, Publish, Wake, InstallLatch, NoSnap
      <3>2. snap'.epoch # 0
        BY <3>1, <1>0 DEF QuietTarget
      <3> QED
        BY <3>2 DEF NotStarted
    <2> QED
      BY <2>3, <2>4
  <1>4. ASSUME UNCHANGED vars PROVE NotStarted'
    BY <1>4 DEF vars, NotStarted
  <1> QED
    BY <1>1, <1>2, <1>3, <1>4 DEF Next

-----------------------------------------------------------------------------
(* The attached engine.                                                    *)

(* It starts with no engine.                                               *)
LEMMA InitEng == Init => EngInv
  BY DEF Init, EngInv, Steady, Idle, NoSnap, Quieted

(* The socket the mux holds, and what the snapshot says of it, change      *)
(* together: publishing parks the pumps first, closing comes after.        *)
LEMMA NextEng == TInv /\ NotStarted /\ EngInv /\ [Next]_vars => EngInv'
  <1> SUFFICES ASSUME TInv, NotStarted, EngInv, [Next]_vars PROVE EngInv'
    OBVIOUS
  <1>t. /\ ctl \in CtlType /\ CtlWellFormed /\ CtlOnSnapshot /\ snap \in Snapshots /\ ctl.cur \in Snapshots
        /\ muxSide \in Epoch
    BY DEF TInv, TypeOK, CtlType, CtlPc
  <1> USE <1>t, Constants
  <1> USE DEF EngInv, Steady, Parked, CtlWellFormed, CtlOnSnapshot, Quieted, Quiescing, CtlType,
       Snapshots, Controls, Go, Step, Publish, Wake, InstallLatch, channel, QuietTarget
  <1>1. ASSUME Start PROVE EngInv'
    BY <1>1 DEF Start, NotStarted
  <1>2. ASSUME SetTun PROVE EngInv'
    BY <1>2 DEF SetTun
  <1>3. ASSUME DetachEngine PROVE EngInv'
    BY <1>3 DEF DetachEngine
  <1>4. ASSUME AttachEngine PROVE EngInv'
    BY <1>4 DEF AttachEngine
  <1>5. ASSUME StopBegins PROVE EngInv'
    BY <1>5 DEF StopBegins
  <1>6. ASSUME SetDnsStage PROVE EngInv'
    BY <1>6 DEF SetDnsStage
  <1>7. ASSUME Quiesce PROVE EngInv'
    BY <1>7 DEF Quiesce
  <1>8. ASSUME Await \/ AwaitTimesOut PROVE EngInv'
    BY <1>8 DEF Await, AwaitTimesOut, Awaited
  <1>9. ASSUME PublishTun PROVE EngInv'
    BY <1>9 DEF PublishTun
  <1>10. ASSUME WakeAfterPublish PROVE EngInv'
    BY <1>10 DEF WakeAfterPublish
  <1>11. ASSUME ReleasePreviousTun PROVE EngInv'
    BY <1>11 DEF ReleasePreviousTun
  <1>12. ASSUME CloseEngine PROVE EngInv'
    BY <1>12 DEF CloseEngine
  <1>13. ASSUME AttachSocket PROVE EngInv'
    <2>1. openEng = {}
      BY <1>13 DEF AttachSocket
    <2>2. snap.epoch + 1 # 0
      BY MuxAssumptions DEF Epoch
    <2> QED
      BY <1>13, <2>1, <2>2 DEF AttachSocket
  <1>14. ASSUME AttachFails PROVE EngInv'
    BY <1>14 DEF AttachFails
  <1>15. ASSUME Return PROVE EngInv'
    BY <1>15 DEF Return, Idle
  <1>16. ASSUME StopPublishes PROVE EngInv'
    BY <1>16 DEF StopPublishes, NoSnap
  <1>17. ASSUME StopJoins PROVE EngInv'
    BY <1>17 DEF StopJoins
  <1>18. ASSUME NEW p \in Pumps, PumpSteps(p) \/ PumpFails(p) PROVE EngInv'
    <2>1. UNCHANGED <<snap, muxSide, openEng, openTun, tuns, ctl>>
      BY <1>18 DEF PumpSteps, PumpStarts, PumpLoads, PumpAcks, PumpPolls, PumpReads, PumpWrites,
         PumpFails, Quietly, channel
    <2> QED
      BY <2>1
  <1>19. ASSUME UNCHANGED vars PROVE EngInv'
    BY <1>19 DEF vars
  <1> QED
    BY <1>1, <1>2, <1>3, <1>4, <1>5, <1>6, <1>7, <1>8, <1>9, <1>10, <1>11, <1>12, <1>13,
       <1>14, <1>15, <1>16, <1>17, <1>18, <1>19 DEF Next, ControlSteps

-----------------------------------------------------------------------------
(* The TUN descriptors.                                                    *)

(* It starts with the first TUN.                                           *)
LEMMA InitTun == Init => TunInv
  BY DEF Init, TunInv, Idle, NoSnap, Quiescing

(* A replacement publishes the new TUN before the host closes the old one. *)
LEMMA NextTun == TInv /\ NotStarted /\ TunInv /\ [Next]_vars => TunInv'
  <1> SUFFICES ASSUME TInv, NotStarted, TunInv, [Next]_vars PROVE TunInv'
    OBVIOUS
  <1>t. /\ ctl \in CtlType /\ CtlWellFormed /\ CtlOnSnapshot /\ snap \in Snapshots /\ ctl.cur \in Snapshots
        /\ tuns \in 1..MaxEpoch
    BY DEF TInv, TypeOK, CtlType, CtlPc
  <1> USE <1>t, Constants, MuxAssumptions
  <1> USE DEF TunInv, CtlWellFormed, CtlOnSnapshot, Quieted, Quiescing, CtlType,
       Snapshots, Controls, Go, Step, Publish, Wake, InstallLatch, channel, QuietTarget, Epoch
  <1>1. ASSUME Start PROVE TunInv'
    BY <1>1 DEF Start, NotStarted
  <1>2. ASSUME SetTun PROVE TunInv'
    BY <1>2 DEF SetTun
  <1>3. ASSUME DetachEngine PROVE TunInv'
    BY <1>3 DEF DetachEngine
  <1>4. ASSUME AttachEngine PROVE TunInv'
    BY <1>4 DEF AttachEngine
  <1>5. ASSUME StopBegins PROVE TunInv'
    BY <1>5 DEF StopBegins
  <1>6. ASSUME SetDnsStage PROVE TunInv'
    BY <1>6 DEF SetDnsStage
  <1>7. ASSUME Quiesce PROVE TunInv'
    BY <1>7 DEF Quiesce
  <1>8. ASSUME Await \/ AwaitTimesOut PROVE TunInv'
    BY <1>8 DEF Await, AwaitTimesOut, Awaited
  <1>9. ASSUME PublishTun PROVE TunInv'
    BY <1>9 DEF PublishTun
  <1>10. ASSUME WakeAfterPublish PROVE TunInv'
    BY <1>10 DEF WakeAfterPublish
  <1>11. ASSUME ReleasePreviousTun PROVE TunInv'
    BY <1>11 DEF ReleasePreviousTun
  <1>12. ASSUME CloseEngine PROVE TunInv'
    BY <1>12 DEF CloseEngine
  <1>13. ASSUME AttachSocket PROVE TunInv'
    BY <1>13 DEF AttachSocket
  <1>14. ASSUME AttachFails PROVE TunInv'
    BY <1>14 DEF AttachFails
  <1>15. ASSUME Return PROVE TunInv'
    BY <1>15 DEF Return, Idle
  <1>16. ASSUME StopPublishes PROVE TunInv'
    BY <1>16 DEF StopPublishes, NoSnap
  <1>17. ASSUME StopJoins PROVE TunInv'
    BY <1>17 DEF StopJoins
  <1>18. ASSUME NEW p \in Pumps, PumpSteps(p) \/ PumpFails(p) PROVE TunInv'
    <2>1. UNCHANGED <<snap, muxSide, openEng, openTun, tuns, ctl>>
      BY <1>18 DEF PumpSteps, PumpStarts, PumpLoads, PumpAcks, PumpPolls, PumpReads, PumpWrites,
         PumpFails, Quietly, channel
    <2> QED
      BY <2>1
  <1>19. ASSUME UNCHANGED vars PROVE TunInv'
    BY <1>19 DEF vars
  <1> QED
    BY <1>1, <1>2, <1>3, <1>4, <1>5, <1>6, <1>7, <1>8, <1>9, <1>10, <1>11, <1>12, <1>13,
       <1>14, <1>15, <1>16, <1>17, <1>18, <1>19 DEF Next, ControlSteps

-----------------------------------------------------------------------------
(* The wakeups.                                                            *)

(* It starts with no pump past its load.                                   *)
LEMMA InitWake == Init => WakeInv
  BY DEF Init, WakeInv, Fresh

(* A controller's step that publishes nothing and is not its wakeup keeps  *)
(* every promise made to the pumps.                                        *)
LEMMA WakeKept ==
  ASSUME WakeInv, UNCHANGED <<snap, wake, pump>>, ctl.pc \notin {"wake", "wake2", "wakeStop"}
  PROVE  WakeInv'
  BY DEF WakeInv

(* A pump that moves on to a step before its next load owes nothing; the   *)
(* other pump is as it was.                                                *)
LEMMA WakeOther ==
  ASSUME WakeInv, TInv, TInv', NEW p \in Pumps, UNCHANGED <<snap, ctl>>,
         \A r \in Pumps \ {p} : pump'[r] = pump[r] /\ wake'[r] = wake[r],
         pump'[p].pc \in {"ack", "poll"} /\ pump'[p].s.epoch # snap.epoch =>
            /\ pump[p].pc \in {"ack", "poll"} /\ pump'[p].s = pump[p].s /\ wake'[p] = wake[p]
  PROVE  WakeInv'
  BY DEF WakeInv

(* Every step leaves a pump on an old snapshot its wakeup.                 *)
LEMMA NextWake == TInv /\ WakeInv /\ [Next]_vars => WakeInv'
  <1> SUFFICES ASSUME TInv, WakeInv, [Next]_vars PROVE WakeInv'
    OBVIOUS
  <1>t. pump \in [Pumps -> PumpType] /\ ctl \in CtlType /\ wake \in [Pumps -> BOOLEAN] /\ TInv'
    BY NextTyped, TypeParts DEF TInv
  <1>1. ASSUME Start PROVE WakeInv'
    <2>1. \A p \in Pumps : pump'[p].pc = "start"
      BY <1>1 DEF Start, Fresh
    <2> QED
      BY <2>1 DEF WakeInv
  <1>2. ASSUME SetTun \/ DetachEngine \/ AttachEngine \/ StopBegins \/ SetDnsStage PROVE WakeInv'
    BY <1>2, WakeKept DEF SetTun, DetachEngine, AttachEngine, StopBegins, SetDnsStage, Controls
  <1>3. ASSUME \/ Await \/ AwaitTimesOut \/ ReleasePreviousTun \/ CloseEngine \/ AttachFails
               \/ Return \/ StopJoins
        PROVE  WakeInv'
    BY <1>3, WakeKept DEF Await, AwaitTimesOut, Awaited, ReleasePreviousTun, CloseEngine,
       AttachFails, Return, StopJoins
  <1>4. ASSUME Quiesce \/ PublishTun \/ WakeAfterPublish \/ AttachSocket \/ StopPublishes
        PROVE  WakeInv'
    <2>1. CASE ctl.pc = "latch"
      BY <1>4, <2>1, WakeKept DEF Quiesce, PublishTun, WakeAfterPublish, AttachSocket,
         StopPublishes, InstallLatch
    <2>2. CASE ctl.pc \in {"wake", "wake2", "wakeStop"}
      <3>1. wake' = [p \in Pumps |-> TRUE]
        BY <1>4, <2>2 DEF Quiesce, PublishTun, WakeAfterPublish, AttachSocket, StopPublishes, Wake
      <3> QED
        BY <3>1 DEF WakeInv
    <2>3. CASE ctl.pc \in {"publish", "publish2", "attach", "publishStop"}
      <3>1. ctl'.pc \in {"wake", "wake2", "wakeStop"}
        BY <1>4, <2>3, <1>t DEF Quiesce, PublishTun, WakeAfterPublish, AttachSocket,
           StopPublishes, Step, CtlType
      <3> QED
        BY <3>1 DEF WakeInv
    <2> QED
      BY <1>4, <2>1, <2>2, <2>3 DEF Quiesce, PublishTun, WakeAfterPublish, AttachSocket,
         StopPublishes
  <1>5. ASSUME NEW p \in Pumps, PumpSteps(p) \/ PumpFails(p) PROVE WakeInv'
    <2>1. UNCHANGED <<snap, ctl>>
      BY <1>5 DEF PumpSteps, PumpStarts, PumpLoads, PumpAcks, PumpPolls, PumpReads, PumpWrites,
         PumpFails, Quietly
    <2>2. \A r \in Pumps \ {p} : pump'[r] = pump[r] /\ wake'[r] = wake[r]
      BY <1>5, <1>t DEF PumpSteps, PumpStarts, PumpLoads, PumpAcks, PumpPolls, PumpReads,
         PumpWrites, PumpFails, PumpTo
    <2>3. CASE PumpLoads(p)
      <3>1. pump'[p].pc = "exit" \/ pump'[p].s = snap
        BY <2>3, <1>t DEF PumpLoads, PumpType
      <3> QED
        BY <2>1, <2>2, <3>1, <1>t, WakeOther
    <2>4. CASE PumpAcks(p)
      <3>1. /\ pump[p].pc = "ack" /\ pump'[p].s = pump[p].s /\ wake'[p] = wake[p]
        BY <2>4, <1>t DEF PumpAcks, At, PumpTo, PumpType
      <3> QED
        BY <2>1, <2>2, <3>1, <1>t, WakeOther
    <2>5. CASE PumpStarts(p) \/ PumpPolls(p) \/ PumpReads(p) \/ PumpWrites(p) \/ PumpFails(p)
      <3>1. pump'[p].pc \notin {"ack", "poll"}
        BY <2>5, <1>t DEF PumpStarts, PumpPolls, PumpReads, PumpWrites, PumpFails, PumpTo,
           AfterFailure, PumpType
      <3> QED
        BY <2>1, <2>2, <3>1, <1>t, WakeOther
    <2> QED
      BY <1>5, <2>3, <2>4, <2>5 DEF PumpSteps
  <1>6. ASSUME UNCHANGED vars PROVE WakeInv'
    BY <1>6 DEF vars, WakeInv
  <1> QED
    BY <1>1, <1>2, <1>3, <1>4, <1>5, <1>6 DEF Next, ControlSteps

-----------------------------------------------------------------------------
(* The theorems.                                                           *)

MuxInv == TInv /\ NotStarted /\ EngInv /\ TunInv /\ WakeInv

(* The invariant holds throughout.                                         *)
LEMMA MuxInductive == Spec => []MuxInv
  <1>1. Init => MuxInv
    <2>1. Init => NotStarted
      BY DEF Init, NotStarted, Idle
    <2> QED
      BY <2>1, InitTyped, InitEng, InitTun, InitWake DEF MuxInv
  <1>2. MuxInv /\ [Next]_vars => MuxInv'
    BY NextTyped, NextNotStarted, NextEng, NextTun, NextWake DEF MuxInv
  <1> QED
    BY <1>1, <1>2, PTL DEF Spec

(* The mux keeps its types: in particular no epoch, and no restart of a    *)
(* pump, is used beyond its bound, since every operation that publishes    *)
(* was begun with room for all it publishes.                               *)
THEOREM MuxTypeCorrect == Spec => []TypeOK
  <1>1. MuxInv => TypeOK
    BY DEF MuxInv, TInv
  <1> QED
    BY <1>1, MuxInductive, PTL

(* No publication of a snapshot is slept through by a pump that holds an   *)
(* older one, whatever the pumps do between the publication and the wakeup *)
(* that follows it.                                                        *)
THEOREM MuxLosesNoWakeup == Spec => []NoLostWakeup
  <1>1. MuxInv => NoLostWakeup
    BY DEF MuxInv, WakeInv, NoLostWakeup, At
  <1> QED
    BY <1>1, MuxInductive, PTL

(* At no point of setTun(), detachEngine(), attachEngine() or stop(),      *)
(* whether the pumps acknowledged or the wait timed out, does the          *)
(* published snapshot name a descriptor that is closed.                    *)
THEOREM MuxNamesOpenDescriptors == Spec => []SnapshotOpen
  <1>1. MuxInv => SnapshotOpen
    <2> SUFFICES ASSUME MuxInv PROVE SnapshotOpen
      OBVIOUS
    <2>1. ctl.pc \in CtlPc /\ snap \in Snapshots /\ ctl.cur \in Snapshots
      BY DEF MuxInv, TInv, TypeOK, CtlPc
    <2>2. snap.eng # 0 => snap.eng = muxSide
      BY <2>1 DEF MuxInv, TInv, CtlOnSnapshot, EngInv, Steady, Parked, Quieted, QuietTarget, CtlPc
    <2> QED
      BY <2>2 DEF MuxInv, EngInv, TunInv, SnapshotOpen
  <1> QED
    BY <1>1, MuxInductive, PTL

(* Between two operations the mux forwards exactly when an engine is       *)
(* attached, to that engine, and has closed the socket of every other.     *)
THEOREM MuxForwardsToItsEngine == Spec => []ForwardsToItsEngine
  <1>1. MuxInv => ForwardsToItsEngine
    BY DEF MuxInv, EngInv, Steady, ForwardsToItsEngine
  <1> QED
    BY <1>1, MuxInductive, PTL

=============================================================================
