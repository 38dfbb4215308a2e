---------------------------- MODULE VpnServiceGate ----------------------------
(***************************************************************************)
(* VpnServiceGate.kt: the one place a coroutine gets the running           *)
(* WindscribeVpnService from, together with the lifecycle Android gives    *)
(* that service.  onCreate, onStartCommand and onDestroy run on the main   *)
(* thread; session ends and connects run on the IO dispatcher, so the two  *)
(* interleave between any two accesses of the gate's attachment.           *)
(*                                                                         *)
(* Instances of the service are numbered in the order they are created.    *)
(* Android itself is external and is modelled by what the code relies on:  *)
(* a start command cancels a stopSelf() that has not taken effect          *)
(* (WindscribeVpnService.onStartCommand), and a replacement can be created *)
(* before the outgoing instance's onDestroy (VpnServiceGate.detach).       *)
(***************************************************************************)
EXTENDS Naturals

CONSTANTS
  Callers,        \* coroutines that need a service: connects, workers
  Enders,         \* coroutines that end a session with nothing left to watch
  MaxInstances,   \* bound on the instances Android creates
  MaxEnds,        \* bound on the session ends
  MaxStarts       \* bound on the start commands not yet delivered

ASSUME GateAssumption == MaxInstances \in Nat /\ MaxEnds \in Nat /\ MaxStarts \in Nat

Instances == 1..MaxInstances
None == 0

(* Attachment?: the registered instance and whether it is leaving, "one    *)
(* value"; null has no flag.                                               *)
Detached == [service |-> None, stopping |-> FALSE]
Attachments == [service : Instances, stopping : BOOLEAN] \cup {Detached}

VARIABLES
  attachment,   \* the gate's MutableStateFlow<Attachment?>
  life,         \* Android: each instance is unborn, running, leaving or dead
  stopAsked,    \* Android: running instances whose stopSelf() is not in effect yet
  starts,       \* Android: start commands accepted and not delivered
  main,         \* what the main thread is in the middle of: an onDestroy, or nothing
  caller,       \* ensureRunning(): where each caller is, and what it was given
  ender,        \* endSession(Off): where each ender is, its service, its stale read
  ends          \* session ends so far, for the bound

vars == <<attachment, life, stopAsked, starts, main, caller, ender, ends>>

Idle == [pc |-> "idle", service |-> None]
Resting == [pc |-> "idle", service |-> None, read |-> Detached]
NoDestroy == [pc |-> "idle", service |-> None, read |-> Detached]

Init ==
  /\ attachment = Detached
  /\ life = [i \in Instances |-> "unborn"]
  /\ stopAsked = {}
  /\ starts = 0
  /\ main = NoDestroy
  /\ caller = [c \in Callers |-> Idle]
  /\ ender = [e \in Enders |-> Resting]
  /\ ends = 0

(***************************************************************************)
(* The gate's own operations on its attachment.                            *)
(***************************************************************************)

(* current: still returns an instance that is leaving.                     *)
current == attachment.service

(* live: the registered instance, unless it is leaving.                    *)
live == IF attachment.stopping THEN None ELSE attachment.service

(* attach(instance).                                                       *)
attach(i) == attachment' = [service |-> i, stopping |-> FALSE]

(* Faulty variant: markStopping() raises the flag whoever is attached.     *)
StoppingAnyway(read) == [read EXCEPT !.stopping = TRUE]

(* What markStopping() writes back for the value it read.                  *)
Stopping(read) == IF read.service = None THEN Detached ELSE [read EXCEPT !.stopping = TRUE]

(* Faulty variant: onDestroy leaves the instance registered.               *)
WithoutKeeping(read, i) == read

(* What detach(instance) writes back for the value it read.                *)
Without(read, i) == IF read.service = i THEN Detached ELSE read

(***************************************************************************)
(* Android and the service's callbacks on the main thread.                 *)
(***************************************************************************)

Running(i) == life[i] = "running"

(* Faulty variant: onStartCommand does not attach, as if onCreate had.     *)
StartCommandUnattached(i) ==
  /\ main.pc = "idle"
  /\ starts > 0
  /\ Running(i)
  /\ starts' = starts - 1
  /\ stopAsked' = stopAsked \ {i}
  /\ UNCHANGED <<attachment, life, main, caller, ender, ends>>

(* A start command reaches a running instance: onStartCommand attaches it  *)
(* again, and Android drops a stopSelf() that had not taken effect.        *)
StartCommand(i) ==
  /\ main.pc = "idle"
  /\ starts > 0
  /\ Running(i)
  /\ starts' = starts - 1
  /\ attach(i)
  /\ stopAsked' = stopAsked \ {i}
  /\ UNCHANGED <<life, main, caller, ender, ends>>

(* A start command with no running instance: Android creates the next one, *)
(* whose onCreate and onStartCommand both attach it.                       *)
CreateInstance(i) ==
  /\ main.pc = "idle"
  /\ starts > 0
  /\ life[i] = "unborn"
  /\ \A j \in Instances : ~Running(j) /\ (j < i => life[j] # "unborn")
  /\ starts' = starts - 1
  /\ life' = [life EXCEPT ![i] = "running"]
  /\ attach(i)
  /\ UNCHANGED <<stopAsked, main, caller, ender, ends>>

(* A stopSelf() takes effect: the instance will be destroyed and can no    *)
(* longer be revived.                                                      *)
StopTakesEffect(i) ==
  /\ i \in stopAsked
  /\ stopAsked' = stopAsked \ {i}
  /\ life' = [life EXCEPT ![i] = "leaving"]
  /\ UNCHANGED <<attachment, starts, main, caller, ender, ends>>

(* onDestroy reaches serviceGate.detach(this) and reads the attachment ... *)
DestroyReads(i) ==
  /\ main.pc = "idle"
  /\ life[i] = "leaving"
  /\ main' = [pc |-> "detaching", service |-> i, read |-> attachment]
  /\ UNCHANGED <<attachment, life, stopAsked, starts, caller, ender, ends>>

(* ... and writes it back without this instance, if it was the one.        *)
DestroyWrites ==
  /\ main.pc = "detaching"
  /\ attachment' = Without(main.read, main.service)
  /\ life' = [life EXCEPT ![main.service] = "dead"]
  /\ main' = NoDestroy
  /\ UNCHANGED <<stopAsked, starts, caller, ender, ends>>

(***************************************************************************)
(* endSession(Off) of WindscribeVpnService, on the instance the gate named *)
(* when the end began: markStopping(), a read and a write of whatever is   *)
(* attached, and then this instance's stopSelf().                          *)
(***************************************************************************)
EndBegins(e) ==
  /\ ender[e].pc = "idle"
  /\ ends < MaxEnds
  /\ current # None
  /\ ender' = [ender EXCEPT ![e] = [pc |-> "mark", service |-> current, read |-> Detached]]
  /\ ends' = ends + 1
  /\ UNCHANGED <<attachment, life, stopAsked, starts, main, caller>>

MarkReads(e) ==
  /\ ender[e].pc = "mark"
  /\ ender' = [ender EXCEPT ![e].pc = "marking", ![e].read = attachment]
  /\ UNCHANGED <<attachment, life, stopAsked, starts, main, caller, ends>>

MarkWrites(e) ==
  /\ ender[e].pc = "marking"
  /\ attachment' = Stopping(ender[e].read)
  /\ ender' = [ender EXCEPT ![e].pc = "stop"]
  /\ UNCHANGED <<life, stopAsked, starts, main, caller, ends>>

(* stopSelf(): nothing to do for an instance Android already let go.       *)
StopSelf(e) ==
  /\ ender[e].pc = "stop"
  /\ stopAsked' = IF Running(ender[e].service) THEN stopAsked \cup {ender[e].service} ELSE stopAsked
  /\ ender' = [ender EXCEPT ![e] = Resting]
  /\ UNCHANGED <<attachment, life, starts, main, caller, ends>>

(***************************************************************************)
(* ensureRunning(): a live instance at once, or start one and await().     *)
(***************************************************************************)
EnsureFindsLive(c) ==
  /\ caller[c].pc = "idle"
  /\ live # None
  /\ caller' = [caller EXCEPT ![c] = [pc |-> "served", service |-> live]]
  /\ UNCHANGED <<attachment, life, stopAsked, starts, main, ender, ends>>

EnsureStarts(c) ==
  /\ caller[c].pc = "idle"
  /\ live = None
  /\ starts < MaxStarts
  /\ starts' = starts + 1
  /\ caller' = [caller EXCEPT ![c].pc = "await"]
  /\ UNCHANGED <<attachment, life, stopAsked, main, ender, ends>>

AwaitSees(c) ==
  /\ caller[c].pc = "await"
  /\ live # None
  /\ caller' = [caller EXCEPT ![c] = [pc |-> "served", service |-> live]]
  /\ UNCHANGED <<attachment, life, stopAsked, starts, main, ender, ends>>

(* AWAIT_TIMEOUT_MS passed: null, and the connect reports a failure.       *)
AwaitTimesOut(c) ==
  /\ caller[c].pc = "await"
  /\ live = None
  /\ caller' = [caller EXCEPT ![c] = Idle]
  /\ UNCHANGED <<attachment, life, stopAsked, starts, main, ender, ends>>

(* The session the service was for is over; the coroutine may ask again.   *)
CallerDone(c) ==
  /\ caller[c].pc = "served"
  /\ caller' = [caller EXCEPT ![c] = Idle]
  /\ UNCHANGED <<attachment, life, stopAsked, starts, main, ender, ends>>

Next ==
  \/ \E i \in Instances : StartCommand(i) \/ CreateInstance(i) \/ StopTakesEffect(i) \/ DestroyReads(i)
  \/ DestroyWrites
  \/ \E e \in Enders : EndBegins(e) \/ MarkReads(e) \/ MarkWrites(e) \/ StopSelf(e)
  \/ \E c \in Callers : EnsureFindsLive(c) \/ EnsureStarts(c) \/ AwaitSees(c) \/ AwaitTimesOut(c) \/ CallerDone(c)

(* Android delivers starts, stops and destroys in time, coroutines run to   *)
(* their end, and a caller that got nothing asks again (BootWorker retries; *)
(* so does the user).  Nobody is obliged to end a session or a call.        *)
Spec ==
  /\ Init /\ [][Next]_vars
  /\ \A i \in Instances : WF_vars(StartCommand(i)) /\ WF_vars(CreateInstance(i)) /\ WF_vars(StopTakesEffect(i)) /\ WF_vars(DestroyReads(i))
  /\ WF_vars(DestroyWrites)
  /\ \A e \in Enders : WF_vars(MarkReads(e)) /\ WF_vars(MarkWrites(e)) /\ WF_vars(StopSelf(e))
  /\ \A c \in Callers : WF_vars(EnsureFindsLive(c)) /\ WF_vars(EnsureStarts(c)) /\ WF_vars(AwaitSees(c)) /\ WF_vars(AwaitTimesOut(c))

TypeOK ==
  /\ attachment \in Attachments
  /\ life \in [Instances -> {"unborn", "running", "leaving", "dead"}]
  /\ stopAsked \subseteq Instances
  /\ starts \in 0..MaxStarts
  /\ main \in [pc : {"idle", "detaching"}, service : Instances \cup {None}, read : Attachments]
  /\ caller \in [Callers -> [pc : {"idle", "await", "served"}, service : Instances \cup {None}]]
  /\ ender \in [Enders -> [pc : {"idle", "mark", "marking", "stop"}, service : Instances \cup {None}, read : Attachments]]
  /\ ends \in 0..MaxEnds

(* A service whose onDestroy has run is never handed out to start a session  *)
(* on.  markStopping() is a read and a write, so it can put a destroyed      *)
(* instance back after detach() removed it; what saves the caller is that    *)
(* the stale write always carries the stopping flag (VpnServiceGate.live).   *)
DeadIsNeverHandedOut ==
  [][\A c \in Callers :
       caller[c].pc # "served" /\ caller'[c].pc = "served" => life[caller'[c].service] # "dead"]_vars

(* Whatever order stops, revivals, replacements and stale writes come in, a  *)
(* caller that keeps asking is given a service: no attachment is left in a   *)
(* state from which a start command does not recover (onStartCommand's       *)
(* attach is "the only thing that can clear the stopping flag").             *)
RetryingCallerIsServed ==
  \A c \in Callers : (caller[c].pc = "await") ~> (caller[c].pc = "served")

=============================================================================
