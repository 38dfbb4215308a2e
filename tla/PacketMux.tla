----------------------------- MODULE PacketMux -----------------------------
(***************************************************************************)
(* The packet path between the TUN and the attached engine.                *)
(*                                                                         *)
(* Two pump threads move packets; a controller (TunnelManager, under the   *)
(* mux's monitor) swaps the TUN or the engine under them.  State and       *)
(* descriptors travel in one immutable snapshot with an epoch.  A swap     *)
(* installs a latch, publishes an epoch that names no descriptor to be     *)
(* closed, wakes both pumps and waits, bounded, for both to acknowledge.   *)
(* What the DNS stage does with a packet is DnsStage's; here it is a flag.*)
(*                                                                         *)
(* An engine socket is named by the epoch that attached it, a TUN by a     *)
(* counter, a latch by the epoch it waits for; 0 is null.                  *)
(***************************************************************************)
EXTENDS Integers, FiniteSets

CONSTANTS
  MaxEpoch,     \* bound on published epochs
  MaxRestarts   \* MAX_PUMP_RESTARTS

ASSUME MuxAssumptions ==
  /\ MaxEpoch \in Nat \ {0} /\ MaxRestarts \in Nat \ {0}

Pumps == {"egress", "ingress"}
Epoch == 0..MaxEpoch
Snapshots == [state : {"FORWARD", "DROP"}, tun : Epoch, eng : Epoch, epoch : Epoch]

VARIABLES
  running, snap, latch,
  acks,      \* what each latch still waits for
  wake,      \* a pump's wakeup pipe holds a byte
  muxSide,   \* engineMuxSide
  openEng,   \* engine sockets open on the mux's side
  openTun,   \* TUN descriptors open in the kernel; the host's
  tuns,      \* TUNs made so far
  ctl,       \* the controller: what it does, at which step, on which snapshot
  pump,      \* each pump thread; "dead" once onMuxFailure was called
  stage      \* a DNS stage is installed

vars == <<running, snap, latch, acks, wake, muxSide, openEng, openTun, tuns, ctl, pump,
          stage>>
channel == <<muxSide, openEng, openTun, tuns>>

NoSnap == [state |-> "DROP", tun |-> 0, eng |-> 0, epoch |-> 0]
Idle == [kind |-> "none", pc |-> "idle", cur |-> NoSnap]
Fresh == [pc |-> "exit", s |-> NoSnap, local |-> 0 - 1, restarts |-> 0]

Init ==
  /\ running = FALSE /\ snap = NoSnap /\ latch = 0
  /\ acks = [l \in 1..MaxEpoch |-> 2]
  /\ wake = [p \in Pumps |-> FALSE]
  /\ muxSide = 0 /\ openEng = {} /\ openTun = {1} /\ tuns = 1
  /\ ctl = Idle /\ pump = [p \in Pumps |-> Fresh]
  /\ stage \in BOOLEAN

-----------------------------------------------------------------------------
(* The controller.                                                         *)

Controls == ctl.pc = "idle" /\ running
Go(kind, pc) == ctl' = [kind |-> kind, pc |-> pc, cur |-> snap]
Step(pc) == ctl' = [ctl EXCEPT !.pc = pc]
RoomFor(n) == snap.epoch + n <= MaxEpoch

Start ==
  /\ ctl.pc = "idle" /\ ~running /\ snap.epoch = 0
  /\ running' = TRUE
  /\ snap' = [state |-> "DROP", tun |-> 1, eng |-> 0, epoch |-> 1]
  /\ pump' = [p \in Pumps |-> [Fresh EXCEPT !.pc = "start"]]
  /\ UNCHANGED <<latch, acks, wake, channel, ctl, stage>>

(* The caller of setTun() has just established the new TUN.                *)
SetTun ==
  /\ Controls /\ RoomFor(2) /\ tuns < MaxEpoch
  /\ Go("setTun", "latch")
  /\ tuns' = tuns + 1 /\ openTun' = openTun \cup {tuns + 1}
  /\ UNCHANGED <<running, snap, latch, acks, wake, muxSide, openEng, pump, stage>>

DetachEngine ==
  /\ Controls /\ RoomFor(1)
  /\ snap.eng # 0 \/ muxSide # 0
  /\ Go("detach", "latch")
  /\ UNCHANGED <<running, snap, latch, acks, wake, channel, pump, stage>>

AttachEngine ==
  /\ Controls /\ RoomFor(2)
  /\ Go("attach", IF snap.eng = 0 /\ muxSide = 0 THEN "attach" ELSE "latch")
  /\ UNCHANGED <<running, snap, latch, acks, wake, channel, pump, stage>>

(* quiesce(): latch before epoch, epoch before wakeup, wakeup before wait. *)
(* The target names no descriptor that is about to be closed.              *)
QuietTargetKeepingEngine ==
  [state |-> "DROP",
   tun   |-> IF ctl.kind = "setTun" THEN 0 ELSE ctl.cur.tun,
   eng   |-> ctl.cur.eng,
   epoch |-> ctl.cur.epoch + 1]

QuietTarget ==
  [state |-> "DROP",
   tun   |-> IF ctl.kind = "setTun" THEN 0 ELSE ctl.cur.tun,
   eng   |-> IF ctl.kind = "setTun" THEN ctl.cur.eng ELSE 0,
   epoch |-> ctl.cur.epoch + 1]

InstallLatch == latch' = ctl.cur.epoch + 1 /\ UNCHANGED <<snap, wake>>
Publish(s) == snap' = s /\ UNCHANGED <<latch, wake>>
Wake == wake' = [p \in Pumps |-> TRUE] /\ UNCHANGED <<snap, latch>>

QuiesceLatchLast ==
  /\ \/ ctl.pc = "latch" /\ Publish(QuietTarget) /\ Step("publish")
     \/ ctl.pc = "publish" /\ InstallLatch /\ Step("wake")
     \/ ctl.pc = "wake" /\ Wake /\ Step("await")
  /\ UNCHANGED <<running, acks, channel, pump, stage>>

QuiesceWakeFirst ==
  /\ \/ ctl.pc = "latch" /\ InstallLatch /\ Step("publish")
     \/ ctl.pc = "publish" /\ Wake /\ Step("wake")
     \/ ctl.pc = "wake" /\ Publish(QuietTarget) /\ Step("await")
  /\ UNCHANGED <<running, acks, channel, pump, stage>>

Quiesce ==
  /\ \/ ctl.pc = "latch" /\ InstallLatch /\ Step("publish")
     \/ ctl.pc = "publish" /\ Publish(QuietTarget) /\ Step("wake")
     \/ ctl.pc = "wake" /\ Wake /\ Step("await")
  /\ UNCHANGED <<running, acks, channel, pump, stage>>

(* The bounded wait for both acknowledgements; a pump may be starved for   *)
(* longer.                                                                 *)
Awaited ==
  /\ latch' = 0
  /\ Step(IF ctl.kind = "setTun" THEN "publish2" ELSE "close")
  /\ UNCHANGED <<running, snap, acks, wake, channel, pump, stage>>

Await == ctl.pc = "await" /\ acks[latch] = 0 /\ Awaited
AwaitTimesOut == ctl.pc = "await" /\ acks[latch] # 0 /\ Awaited

(* The rest of setTun(): the new TUN, the state as it was before; once it  *)
(* has returned, the host closes the TUN it superseded.                    *)
PublishTun ==
  /\ ctl.pc = "publish2"
  /\ Publish([state |-> ctl.cur.state, tun |-> tuns, eng |-> ctl.cur.eng,
              epoch |-> snap.epoch + 1])
  /\ Step("wake2")
  /\ UNCHANGED <<running, acks, channel, pump, stage>>

WakeAfterPublish ==
  /\ ctl.pc = "wake2"
  /\ Wake
  /\ Step(IF ctl.kind = "setTun" THEN "release" ELSE "return")
  /\ UNCHANGED <<running, acks, channel, pump, stage>>

ReleasePreviousTun ==
  /\ ctl.pc = "release"
  /\ openTun' = openTun \ {ctl.cur.tun}
  /\ Step("return")
  /\ UNCHANGED <<running, snap, latch, acks, wake, muxSide, openEng, tuns, pump, stage>>

(* The rest of detachEngine(), and of attachEngine() that called it.       *)
CloseEngineForgetting ==
  /\ ctl.pc = "close"
  /\ muxSide' = 0
  /\ Step(IF ctl.kind = "attach" THEN "attach" ELSE "return")
  /\ UNCHANGED <<running, snap, latch, acks, wake, openEng, openTun, tuns, pump, stage>>

CloseEngine ==
  /\ ctl.pc = "close"
  /\ openEng' = openEng \ {muxSide}
  /\ muxSide' = 0
  /\ Step(IF ctl.kind = "attach" THEN "attach" ELSE "return")
  /\ UNCHANGED <<running, snap, latch, acks, wake, openTun, tuns, pump, stage>>

AttachSocket ==
  /\ ctl.pc = "attach"
  /\ LET e == snap.epoch + 1
     IN  /\ muxSide' = e
         /\ openEng' = openEng \cup {e}
         /\ Publish([state |-> "FORWARD", tun |-> snap.tun, eng |-> e, epoch |-> e])
  /\ Step("wake2")
  /\ UNCHANGED <<running, acks, openTun, tuns, pump, stage>>

(* socketpair() or dup() failed: both ends are closed, nothing is attached.*)
AttachFails ==
  /\ ctl.pc = "attach"
  /\ Step("return")
  /\ UNCHANGED <<running, snap, latch, acks, wake, channel, pump, stage>>

Return ==
  /\ ctl.pc = "return"
  /\ ctl' = Idle
  /\ UNCHANGED <<running, snap, latch, acks, wake, channel, pump, stage>>

(* stop(): the wait for the pumps is bounded too, and whether they are     *)
(* gone or not it goes on.                                                 *)
StopBegins ==
  /\ Controls /\ RoomFor(1)
  /\ running' = FALSE
  /\ Go("stop", "publishStop")
  /\ UNCHANGED <<snap, latch, acks, wake, channel, pump, stage>>

StopPublishes ==
  /\ \/ /\ ctl.pc = "publishStop"
        /\ Publish([NoSnap EXCEPT !.epoch = snap.epoch + 1])
        /\ Step("wakeStop")
     \/ ctl.pc = "wakeStop" /\ Wake /\ Step("join")
  /\ UNCHANGED <<running, acks, channel, pump, stage>>

StopJoins ==
  /\ ctl.pc = "join"
  /\ stage' = FALSE
  /\ openEng' = openEng \ {muxSide}
  /\ muxSide' = 0
  /\ Step("return")
  /\ UNCHANGED <<running, snap, latch, acks, wake, openTun, tuns, pump>>

(* setDnsStage(): joins the old stage's threads before it returns, bounded.*)
SetDnsStage ==
  /\ Controls
  /\ stage' = ~stage
  /\ UNCHANGED <<running, snap, latch, acks, wake, channel, ctl, pump>>

-----------------------------------------------------------------------------
(* A pump thread.                                                          *)

Src(p) == IF p = "egress" THEN pump[p].s.tun ELSE pump[p].s.eng

At(p, pc) == pump[p].pc = pc
PumpTo(p, pc) == pump' = [pump EXCEPT ![p].pc = pc]
Quietly == UNCHANGED <<running, snap, latch, channel, ctl, stage>>

(* supervise() calls pump() as long as the mux runs.                       *)
PumpStarts(p) ==
  /\ At(p, "start")
  /\ pump' = [pump EXCEPT ![p].pc = IF running THEN "top" ELSE "exit", ![p].local = 0 - 1]
  /\ Quietly /\ UNCHANGED <<acks, wake>>

PumpLoads(p) ==
  /\ At(p, "top")
  /\ pump' = IF ~running THEN [pump EXCEPT ![p].pc = "exit"]
             ELSE IF snap.epoch # pump[p].local
             THEN [pump EXCEPT ![p].pc = "ack", ![p].s = snap, ![p].local = snap.epoch]
             ELSE [pump EXCEPT ![p].pc = "poll", ![p].s = snap]
  /\ Quietly /\ UNCHANGED <<acks, wake>>

(* The latch is read only now, when a later quiesce() may have put its own *)
(* there.  A countDown on a latch nobody waits for any more has no effect. *)
PumpAcks(p) ==
  /\ At(p, "ack")
  /\ acks' = IF latch # 0 /\ acks[latch] > 0 THEN [acks EXCEPT ![latch] = @ - 1] ELSE acks
  /\ PumpTo(p, "poll")
  /\ Quietly /\ UNCHANGED wake

(* poll() on the source, if any, and the pipe, for 200 ms at most.         *)
PumpPolls(p) ==
  /\ At(p, "poll")
  /\ \/ wake[p] /\ wake' = [wake EXCEPT ![p] = FALSE] /\ PumpTo(p, "top")
     \/ ~wake[p] /\ UNCHANGED wake /\ PumpTo(p, "top")
     \/ ~wake[p] /\ Src(p) # 0 /\ UNCHANGED wake /\ PumpTo(p, "read")
  /\ Quietly /\ UNCHANGED acks

(* EAGAIN, EOF and a descriptor closed under the pump send it round again. *)
PumpReads(p) ==
  /\ At(p, "read")
  /\ PumpTo(p, "top") \/ PumpTo(p, "write")
  /\ Quietly /\ UNCHANGED <<acks, wake>>

(* handleEgress() and writeTo(): dropped, handed to the DNS stage, written,*)
(* or lost to a congested peer.                                            *)
PumpWrites(p) ==
  /\ At(p, "write")
  /\ PumpTo(p, "top")
  /\ Quietly /\ UNCHANGED <<acks, wake>>

(* poll() or read() threw.  A long healthy run has reset the count.        *)
RestartsOffByOne(n) ==
  IF ~running THEN "exit" ELSE IF n > MaxRestarts THEN "dead" ELSE "start"

AfterFailure(n) ==
  IF ~running THEN "exit" ELSE IF n >= MaxRestarts THEN "dead" ELSE "start"

PumpFails(p) ==
  /\ pump[p].pc \in {"poll", "read"}
  /\ \E before \in {0, pump[p].restarts} :
       pump' = [pump EXCEPT ![p].pc = AfterFailure(before + 1),
                            ![p].restarts = IF running THEN before + 1 ELSE @]
  /\ Quietly /\ UNCHANGED <<acks, wake>>

PumpSteps(p) ==
  \/ PumpStarts(p) \/ PumpLoads(p) \/ PumpAcks(p)
  \/ PumpPolls(p) \/ PumpReads(p) \/ PumpWrites(p)

ControlSteps ==
  \/ Quiesce \/ Await \/ PublishTun \/ WakeAfterPublish \/ ReleasePreviousTun
  \/ CloseEngine \/ AttachSocket \/ AttachFails \/ Return \/ StopPublishes \/ StopJoins

Next ==
  \/ Start \/ SetTun \/ DetachEngine \/ AttachEngine \/ StopBegins \/ SetDnsStage
  \/ ControlSteps \/ AwaitTimesOut
  \/ \E p \in Pumps : PumpSteps(p) \/ PumpFails(p)

Spec == Init /\ [][Next]_vars

(* Threads that can run do run; the controller goes on with what it began. *)
(* No wait is owed its timeout: that would end every wait by itself.       *)
FairSpec ==
  /\ Spec
  /\ WF_vars(ControlSteps)
  /\ \A p \in Pumps : WF_vars(PumpSteps(p))

-----------------------------------------------------------------------------
(* Properties.                                                             *)

TypeOK ==
  /\ running \in BOOLEAN /\ snap \in Snapshots /\ latch \in Epoch
  /\ acks \in [1..MaxEpoch -> 0..2] /\ wake \in [Pumps -> BOOLEAN]
  /\ muxSide \in Epoch /\ openEng \subseteq 1..MaxEpoch /\ openTun \subseteq 1..MaxEpoch
  /\ tuns \in 1..MaxEpoch
  /\ ctl \in [kind : {"none", "setTun", "detach", "attach", "stop"},
              pc : {"idle", "latch", "publish", "wake", "await", "publish2", "wake2",
                    "release", "close", "attach", "return", "publishStop", "wakeStop",
                    "join"},
              cur : Snapshots]
  /\ pump \in [Pumps ->
       [pc : {"start", "top", "ack", "poll", "read", "write", "exit", "dead"},
        s : Snapshots, local : {0 - 1} \cup Epoch, restarts : 0..MaxRestarts]]
  /\ stage \in BOOLEAN

(* No lost wakeup: a pump that is about to sleep on a superseded snapshot  *)
(* finds a byte in its pipe, unless the publisher is still about to write  *)
(* it.  Otherwise a swap would wait out the poll's 200 ms.                 *)
NoLostWakeup ==
  \A p \in Pumps :
    (/\ At(p, "poll") /\ pump[p].s.epoch # snap.epoch
     /\ ctl.pc \notin {"wake", "wake2", "wakeStop"}) => wake[p]

(* The published snapshot names open descriptors only, at every point of a *)
(* swap, also when it goes on after a wait that timed out.                 *)
SnapshotOpen ==
  /\ snap.eng # 0 => snap.eng \in openEng
  /\ snap.tun # 0 => snap.tun \in openTun

(* Between operations the mux forwards exactly when an engine is attached, *)
(* and holds that engine's socket and no other.                            *)
ForwardsToItsEngine ==
  ctl.pc = "idle" => /\ openEng = {muxSide} \ {0}
                     /\ snap.state = "FORWARD" <=> muxSide # 0
                     /\ snap.eng = muxSide

(* A swap is acknowledged, and does not have to be waited out: the latch   *)
(* is in place before a pump can see the epoch.                            *)
Waiting == ctl.pc = "await" /\ acks[latch] # 0
SomePumpDead == \E p \in Pumps : At(p, "dead")
QuiesceSettles == Waiting ~> (~Waiting \/ SomePumpDead)

(* "Safe now: both pumps have acknowledged the epoch and released the      *)
(* descriptor": once the latch has counted two acknowledgements, no pump   *)
(* still works on a snapshot that names the socket about to be closed.     *)
AcknowledgedIsReleased ==
  ctl.pc = "close" /\ acks[ctl.cur.epoch + 1] = 0 =>
    \A p \in Pumps : pump[p].pc \in {"ack", "poll", "read", "write"} => pump[p].s.eng \notin {muxSide} \ {0}

=============================================================================
