# Windscribe Android: a TLA+ model of the tunnel core

This directory specifies, model-checks and, its safety, proves the core of the
Windscribe Android client: who holds the VPN interface, which descriptor the
packets flow through, when traffic is held back, how the DNS stage fits in, and
how the app's users, networks, account and failover drive a session through all
of it. The code is concurrent and hard to test: it swaps file descriptors under
running threads, replaces the TUN from threads that do not hold the manager's
lock, holds traffic back with timers that race the reconnects they guard, and
decides what the service becomes from state other coroutines are changing.

Paths are relative to the repository. `common/...` stands for
`common/src/main/java/com/windscribe/common/tunnel`, `base/...` for
`base/src/main/java/com/windscribe/vpn`.

## 1. The system

| Component | State it keeps | Operations | Talks to |
|---|---|---|---|
| `TunnelManager` (`common/.../TunnelManager.kt`) | host, active engine, mux, `tunnelUp`, last applied generation, hold watchdog, record of the DNS stage | `attachHost`, `detachHost`, `connect`, `disconnect(hold)`, `beginBlocking`, `holdForBlocking`, `releaseHeldTunnel`, `onRevoked`, `onTunReplaced`, `onHoldExpired` | calls the host's `requestTun` and the mux; called by backends, service, watcher, timers |
| `WindscribeVpnService` (`base/.../backend/tunnel`) | live TUN, its config, superseded TUNs by generation, replacement listener | `requestTun`, `releasePreviousTun`, `releaseTun`, start commands, `endSession`, `beginBlocking`, `onRevoke`, `onDestroy` | `TunnelManager`, `VpnServiceGate`, `ConnectionPolicy` |
| `PacketMux` (`common/.../PacketMux.java`) | one immutable snapshot (state, TUN, engine socket, epoch), quiesce latch, wakeup pipes, two pump threads | `start`, `setTun`, `attachEngine`, `detachEngine`, `setDnsStage`, `stop` | the TUN, the engine's socket, the DNS stage |
| `ControlDDnsStage` (`common/.../ControlDDnsStage.java`) | inbound queue, pending table by upstream id, timers, one-shot bypass | `start`, `offer`, `onEngineAttached`, `stop`; tx, rx and timer threads | the local resolver, the mux's two sinks |
| engines (OpenVPN, IKEv2, WireGuard) | the host they were started on | `prepare`, `start`, `stop`; OpenVPN and charon call `requestTun` from threads of their own | `TunnelManager`, the service |
| `WindVpnController`, `VpnBackend`, `VpnBackendHolder` (`base/.../backend`) | connect job, current attempt, connection and connectivity-test jobs | connect, disconnect, pause, turn off, `endSession` | `TunnelManager`, service gate, state manager |
| `ConnectionPolicy` (`base/.../state`) | none: pure decisions | `shouldAutoConnect`, `blockingApplies`, `serviceModeAfterSession`, ... | controller, service, watcher |
| `VPNConnectionStateManager`, `VpnServiceGate`, `AutoConnectWatcher` | published state and mode; attached service and its "stopping" flag; last network | publish, attach/detach/await, react to networks | controller, service |
| `AutoConnectionManager` (`base/.../autoconnection`) | protocol list, failover job | next protocol, give up | controller |
| workers, repositories, profile creator, UI, API client, vendored engines | configuration and I/O | | |

What is hard here, component by component:

* **TunnelManager and the service's descriptors.** A TUN can be replaced by an
  engine's thread in the middle of an operation of the manager. The replacement
  is made under the service's `tunLock`, its notification comes later and takes
  the manager's monitor, so two notifications can arrive in the wrong order,
  after a disconnect, or for a service that is gone. Correct means: the session's
  pumps never read a closed descriptor, end up on the live one, never go back, and
  no descriptor is leaked. The end of a service closes the TUN under the pumps and
  leaves stopping them to an executor: they must be stopped, and no later session
  may read what they read. Holding the TUN for a handover blackholes the device, so
  the hold must end; blocking holds must not be ended by a timer armed for
  something else.
* **PacketMux.** Lock-free publication of a snapshot to two threads that sleep
  in `poll`. Correct means: no wakeup is lost, a swap is acknowledged by both
  pumps, no descriptor is closed while a pump or the DNS stage still uses it.
* **ControlDDnsStage.** 16-bit ids that wrap around, timers that are never
  cancelled, answers that come late, a `stop()` at any moment. Correct means: an
  app gets the answer to its own question or none, and every query settles.
* **VpnServiceGate.** A service that has decided to stop can be revived by a start
  command or replaced before its `onDestroy` runs, and the gate's updates are
  reads followed by writes on different threads. Correct means: a destroyed
  service is never handed out, and a caller that keeps asking gets a live one.
* **Session** (controller, backends, failover, policy, watcher, refresh). The
  application scope is a pool of threads: connects, teardowns and session ends go on
  beside each other, decide from facts another coroutine is changing, and published
  states land when their own coroutine runs. Correct means: a session that is torn
  down does not get its engine back; a user's disconnect holds back the app's own
  connects; a dropped or blocked session gets its answer.

## 2. Modules

| Module | Models |
|---|---|
| `TunnelManager` | `TunnelManager.kt` and the descriptor book-keeping of `WindscribeVpnService.kt`, for several service instances and engines |
| `PacketPath` | abstract specification of what `TunnelManager` promises about packets |
| `PacketMux` | `PacketMux.java` |
| `DnsStage` | `ControlDDnsStage.java` |
| `VpnServiceGate` | `VpnServiceGate.kt` with the life cycle of `WindscribeVpnService` |
| `ConnectionPolicy` | `ConnectionPolicy.kt`: the decisions, as operators |
| `VpnSession` | a session: `WindVpnController`, `VpnBackend`, `AutoConnectionManager`, `AutoConnectWatcher`, `DeviceStateManager`, `SessionWorker` and the service's `endSession`, over `ConnectionPolicy` |
| `TunnelManagerProofs`, `PacketPathProofs`, `TunnelReplacementProofs` | theorems about `TunnelManager`, each extending the one before |
| `PacketMuxProofs`, `DnsStageProofs`, `VpnServiceGateProofs`, `ConnectionPolicyProofs`, `VpnSessionProofs` | theorems about the module each is named after |
| `MC_*` | what TLC needs to run them |

### TunnelManager

The monitor of `TunnelManager` is the variable `op`: `Free`, or what the thread
inside still has to do. Operations that never call the host finish in one action
(`DisconnectNone`, `ReleaseHeldTunnel`, `OnRevoked`, `DetachHost`, ...).
Operations that call `requestTun` are split where another thread can get in:
`OpEstablish` (under `tunLock`), `OpNotify` (the service calls `onTunReplaced` on
the same thread, which already holds the monitor), `OpStartMux`,
`OpAttachEngine`, each with its failure. `DetachHost` and `OnRevoked` close the TUN
at once and queue a task for `teardownExecutor`; until `TeardownStopsMux` the pumps
they leave behind read a closed descriptor, which is then in `orphans`.
`TeardownStopsEngine` comes first, on the engine object, which sessions share. An engine's own thread is `req[e]`:
asked, established, listener read, notified. Only the last of these takes the
monitor (`RequestTunNotifies`).

A descriptor is named by the generation whose `establish()` made it, so "the
descriptor was closed" is `g \notin open`. `superseded[h][g]` is
`supersededTuns`: the descriptor that generation `g` replaced. `hold` and
`connKey` are history variables: why a TUN without an engine is up, and which DNS
port the last connect saw.

A configuration is "in" (an engine's) or "out" (our own package excluded). That
is what `coversSameInterfaceAs` can distinguish with certainty here; two engines'
configurations may or may not cover each other, so `Connect` and `RequestTunEnds`
allow both.

Assumed of Android, not under `src/`: `establish()` may fail at any time, and a
second service is created beside one that is still to be destroyed only when that one
has stopped itself, which it does when its session is over (`ServiceMayBeCreated`). So
two instances overlap, in either order of `attachHost` and `detachHost`, but no
session is up on the older one when the newer attaches. Starting a DNS stage does not
fail: its `start` creates threads and throws nothing.

### PacketPath

The packet path without the manager: which TUNs are open, the youngest ever
opened, the one being read, whether an engine is carried, and what abandoned pumps
still read (`leaving`). Packets are read from one open TUN, the reader only moves to a
younger one, an engine is attached only while one is read, and a TUN is closed under
its reader only in the step that abandons the path (`Abandon`); no later path reads
what abandoned pumps still do. `TunnelManager!Path` instantiates it: the open
descriptors, the last generation, the mux's descriptor, whether there is an active
engine, and `orphans`.

### PacketMux

The controller is one thread inside the mux's monitor (`ctl`), split at every
write another thread can see: latch, snapshot, wakeup, wait, close. A pump is
`load`, `ack`, `poll`, `read`, `write`, with the supervisor's restarts; the load of
the snapshot and the read of the latch to count down are two steps. Packets
have no content: what matters is which snapshot a pump is using when a descriptor
is closed. Every bounded wait may give up (`AwaitTimesOut`). The writes of the DNS
stage are left out: no swap waits for them, and a write to a closed descriptor is
a dropped packet.

### DnsStage

Queries are numbered in the order of the offers and `fate` says what became of
each. `offer` is one action: the gap between its test of `running` and the
enqueue can only add a query to the queue of a stage that has just stopped, which
`QueriesSettle` allows for. The resolver is external: it answers, answers another
name, or stays silent.

### VpnServiceGate

`attachment` is the gate's one value. `markStopping` and `detach` read it and
write it back, so each is two actions; `attach` is one write. Service instances
are numbered; `life` says what Android has made of each, `main` is the main
thread inside `onDestroy`, `caller` a coroutine in `ensureRunning` or `await`,
`ender` one in the `Off` branch of `endSession`. `StopTakesEffect` is Android's:
a stop asked for takes effect unless a start command came in between.

### ConnectionPolicy and VpnSession

`ConnectionPolicy` has one operator per function, under the source's names, over
the record of policy inputs. `VpnSession` composes the components that read it:

* the device and `DeviceStateManager`: `net` is the truth, `detail` what has been
  published; a change is published (`DeviceEmits`) before the facts of the last
  network are dropped (`DeviceClears`); `NetworkInfoManager`'s row and the
  watcher's wake-ups are in `info`;
* a connect: `request` holds the sources of `connectInForeground` calls that have not
  begun. `attempt[TRUE]` is the walk's connect (`attemptJob`), `attempt[FALSE]` that of
  `connectAsync` (`connectJob`); each is `WindVpnController.connect` split where it
  suspends: `Hand` (a live backend is torn down as a handover), `Announce` (Connecting
  is handed to `setState`), `Block` (`blockBeforeBuildingProfile`), `Settle` (the
  location is there, a user's connect clears the stand-down), `Launch`. The backend
  holder's connect is another coroutine (`launching`, `HolderConnects`), the engine's
  start one more (`EngineStarts`). None of them waits for a teardown under way;
* `driver` is the failover walk, waiting for the outcome of the attempt whose
  connection id it knows, or between two protocols;
* published states: `setState` only adds to `emits`; `Emit` shows them, in any order,
  and a backend's with the id it had at the call or has by then;
* a session end: a backend reads its inputs, stops the engine, and tells the service
  with the id it has *by then*, in three steps (`Teardown`, `BackendStops`,
  `BackendEnds`), so `EndSession` compares it with the connect shown at that moment.
  The controller and the service launch a coroutine that reads its inputs when it
  runs; `pause()` and `onEngineStopped` launch a disconnect (`DisconnectRuns`).
  `endings` holds all that is on its way;
* the watcher looks (`WatchEvaluates`) and acts (`WatchActs`) in two steps, and anything
  may begin in between;
* `vpn`: status, mode, what holds the TUN, the service and whether it is sticky;
  `be`: the backend, its holder and its engine;
* `ProcessDies`: the system kills the process and, if the service was sticky,
  starts it again with a null intent.

Connection ids are fresh in the code; here one that nothing mentions any more is used
again (`FreshIds`), which keeps the state space finite and merges no two connects.

Abstractions and assumptions: networks can be named, VPN permission is granted, the
system's own killswitch is off and the location is Windscribe's. All protocols share one
backend object, as UDP, TCP, Stealth and WSTunnel do. The watcher makes one evaluation
at a time; requests of the same source that have not begun are one; a walk may retry
nodes without limit; the teardown of a handover, which keeps the TUN and reads no policy
inputs, is one step. Runs of `SessionWorker` are hours apart or follow a drop, so one
finds the walk of the one before announced (`BeingReconnected`). A refresh that fails is
one that has not run yet: the worker's retries are in its fairness. A connect from the
notification may read `globalUserConnectionPreference` before or after
`ShortcutStateManager` has set it. `TunnelManager`, `PacketMux` and `VpnServiceGate`
appear as what holds the TUN, whether an engine is up and whether a service is registered.

## 3. Runs

Every run but `gate` says `CHECK_DEADLOCK FALSE`: the systems may stop (every
service destroyed, the mux stopped, the stage stopped, the user done), and counters
reach their bounds.

| Run | Checks | Shows |
|---|---|---|
| `tun` | `TypeOK`, `PacketPathOpen`, `NoOrphanedTun`, `PacketPathCatchesUp`, `NeverMovesBack`, `ImplementsPacketPath`, `SelfInsideWithEngine`, `DnsStageAsConnected`, `HandoverHoldEnds`, `AbandonedPumpsStop` | replacements of the TUN concurrent with the manager's operations are safe in every order, and the manager implements `PacketPath`; a connect undoes what a hold did to the interface and intercepts DNS as asked; a handover hold does not blackhole for ever, and pumps left on a closed TUN are stopped |
| `tun_teardown` (violation) | `ActiveEngineRuns` | finding 1 |
| `mux` | `TypeOK`, `NoLostWakeup`, `SnapshotOpen`, `ForwardsToItsEngine`, `QuiesceSettles` | swaps under running, failing and restarting pumps, with waits that time out; a swap is acknowledged and need not be waited out |
| `mux_ack` (violation) | `AcknowledgedIsReleased` | finding 5 |
| `dns_match` | `TypeOK`, `WaitingIsPending`, `PendingBounded`, `AnswersTheQuestion`, `SettledOnce` | reused ids, late answers and old timers; what became of a query is final |
| `dns_settle` | `QueriesSettle` | every query the stage took settles |
| `gate` | `TypeOK`, `DeadIsNeverHandedOut`, `RetryingCallerIsServed` | a service that is gone is never handed out; a caller that keeps asking is served |
| `session` | `TypeOK`, `UserStopStands`, `TornDownStartStays` | with connects, teardowns, ends and emissions interleaved freely, the app makes no connect of its own against a user's disconnect, and a session being torn down does not get its engine back |
| `session_recovers` | `AwaitingSessionEnds`, `BlockedAccountRecovers` | a dropped session and a blocked account get their answer |
| `session_disconnect` (violation) | `DisconnectedAttemptStays` | finding 2 |
| `session_sticky` (violation) | `IdleServiceStaysDead` | finding 3 |
| `session_dark` (violation) | `StoodDownIsNotBlocked` | finding 4 |

Each property of a passing run has a mutant: a plausible mistake in one mapped
definition under which TLC finds it violated. The mutated forms stand just before
the definitions they replace.

**Bounds.** `tun` has one service, one engine, three generations and one DNS port:
the engine's thread of an earlier session can still be in `requestTun` beside an
operation of the manager, a replacement can be overtaken by the next, and a hold takes
three generations (connect, exclusion of our own package, reconnect). Its eight safety
properties are theorems for every set of services and engines (section 5), so the run
has to show that they are not vacuous and to check the liveness; TLC also passed the
safety properties with two services and two engines (2.4 million states), where the
liveness takes too long. `tun_teardown` has two services and two engines, which are
symmetric. `mux` publishes four epochs: start, attach, and either a TUN
swap or a detach with a second attach; `MaxRestarts = 2` lets a pump restart once
and die once, and `mux_ack` needs one restart less. `dns_match` has four queries over
three ids with two in flight, the smallest instance in which the id counter wraps onto
an id in use. `gate` has enough instances for one to be replaced while its destruction
is pending.

In the session runs `MaxEvents` bounds what comes from outside (the user, the device
moving, the account, a process death) and what goes wrong (failures, drops, failed
builds, expired holds, a refresh that finds the location moved); what the app does with
it is unbounded. Two events are a connect and whatever disturbs it; `session_sticky`
takes three (connect, disconnect, process death) and the app's surface only, so that its
trace is the in-app one. `Ids` is two: the connect that ends and the one beside it, each
free again when nothing mentions it; a connect that finds no free id waits, and TLC
passed `session` with one network and three ids as well (6.9 million states).
`MaxEmits = 2` states on their way at once are enough for one to overtake another.
`session` starts from a fresh process with an account that can connect, has both surfaces
and two networks, one with Auto-Secure and one without; the other session runs have one
network. `session_recovers` starts with every combination of what the app and the server
take the account to be, and has no user and one event: the sessions are Auto-Connect's.

**Fairness.** In `tun`: the thread that holds the monitor goes on (weak), an
armed timer fires (weak), the executor's thread runs what is queued (weak), and the
fired watchdog gets the monitor in the end (strong: others take and release the monitor
around it, and a Java monitor starves nobody for ever in practice). No user action is
fair. In `mux`: the controller and the pump threads run (weak); `poll` returns after
200 ms. In `dns_settle`: the tx and rx threads run, scheduled expiries come, a thread
that has ended is joined; the resolver is not fair. In `gate`: the threads of the app
and Android's delivery of start and stop requests go on (weak); session ends are
bounded, not fair. In `session_recovers`: states are emitted, the coroutines that carry
session ends and connects run, and `SessionWorker` runs periodically while there is a
network (weak each); users, servers, engines, the walk and the device owe nothing.

## 4. Findings

Each is a run in which the code breaks a sentence of the repository.

1. **A deferred stop reaches the next session** (`TunnelManager.kt:119`). The
   engine object is shared by all sessions of its protocol; the queued `stop()` of
   one session can run after the next session's `start`.
2. **The walk's connect survives a disconnect** (`AutoConnectionManager.kt:166`).
   `disconnect` cancels `connectJob`; the failover walk prepares its connect in a
   `runBlocking` of its own, and `launchVPNService` checks nothing. The comment of
   `WindVpnController.kt:96` says a disconnect ends failover, and the review document
   lists this as fixed.
3. **An idle service comes back** (`WindscribeVpnService.kt:240`). Stickiness is
   decided at a start command and an in-app disconnect sends none: what was answered
   when an in-app connect created the service stands. After a process death the system
   restarts the service and it connects.
4. **Dark on a stood-down network** (`WindVpnController.kt:735`). Disconnecting
   during the build, with no backend yet, settles the service and leaves the
   blocking TUN; the documentation says a watching service holds none. Turning off
   releases it.
5. **A pump acknowledges a swap it has not seen** (`PacketMux.java:567`). It loads the
   snapshot and then reads the latch; delayed in between, it counts down the latch of a
   later swap. `detachEngine` closes the socket on the strength of that, while the
   comment at `:345` says both pumps have released it.

Seen while modelling, recorded as hazards without a run:

* a session end names the connect that has reached its backend meanwhile as its own and
  settles over it (`VpnBackend.kt:652` reads the id after the teardown;
  `WindscribeVpnService.kt:318-320` means to prevent it);
* Connecting is emitted after the disconnect of a failed build has looked for it, and
  stays shown (`VPNConnectionStateManager.kt:91`, against `WindVpnController.kt:717-718`);
* the watcher releases the hold of a connect that began after it looked
  (`AutoConnectWatcher.kt:121`);
* two teardowns overlap and the walk hears the wrong one (`VpnBackend.kt:611`), and a
  walk between two protocols does not hear a disconnect (`AutoConnectionManager.kt:719`):
  two more ways past "ends failover" (`WindVpnController.kt:96`, `:500-501`);
* a teardown takes the holder's entry from a newer connect (`VpnBackendHolder.kt:76`);
* a session Auto-Secure took away is settled as Off before the watcher gives it back
  (`Windscribe.kt:230`);
* a late `onTunReplaced` sets `tunnelUp` after the TUN was closed
  (`TunnelManager.kt:550`); a watchdog that was not cancelled acts on another TUN (`:355`);
* a DNS write reaches a closed socket (`PacketMux.java:705`); a re-arm of the DNS bypass
  is lost (`ControlDDnsStage.java:307`).

Also, the table of modes in `docs/architecture/VPN_BACKEND.md`
lists `NoNetwork` as bypassed, while the policy may hold traffic in it and in
`Watching(NetworkNotSecured)`: that is what `BlockIsAnswerable` allows for.

## 5. Proofs

All with TLAPS, for every value of the constants, from the named assumption of each
module only (constants that name nothing coincide with no value, bounds are natural
numbers, the limit on pending queries leaves an id free). Every safety property that a
passing run checks is a theorem. Each inductive invariant was checked with TLC before it
was proved; each `Next...` lemma has one step per action.

### TunnelManager

`TunnelManagerProofs` proves, for every set of services and engines and every bound on
generations:

* `TypeCorrect`: `Spec => []TypeOK`;
* `PacketPathStaysOpen`: `Spec => []PacketPathOpen`. It speaks of the session's mux: open,
  and none of the descriptors left to abandoned pumps, which do read a closed one until
  the executor stops them;
* `PacketPathMovesForward`: `Spec => NeverMovesBack`.

From `ManagerAssumptions` only (no two kinds of values coincide with `None`, ports
are positive). Type correctness needs `TInv`: an operation that establishes does so
on an attached host, and a thread inside `requestTun` names a host.

`PacketPathOpen` is not inductive: that a descriptor is open says nothing about who
may close it next. `IInv` adds

* `SInv`, for each service: what it holds is open; it is the live TUN or superseded
  by exactly one *younger* generation; two services share nothing. So releasing what
  generation `g` superseded cannot close anything else that is held;
* `HostInv`: exactly the attached service has a listener, and no engine names a
  service that does not exist yet;
* `MuxInv`: the pumps are on the last applied generation and the attached service
  still holds it;
* `OpInv`: an operation between establish and notify has a generation younger than
  the applied one, still held;
* `ReqInv`, the heart of it: a late notification finds its TUN still held, or a
  younger one applied, or everything of its age released. In the first case moving
  forward is right, in the second it is stale, in the third there is nothing to move.

`H` is what each service holds; the lemmas `HeldAfter...` say how each descriptor
operation changes it.

`PacketPathProofs` proves `ManagerImplementsPacketPath`: `Spec => ImplementsPacketPath`.
Each action of the manager is a step of `PacketPath` or a stutter; `DetachHost` and
`OnRevoked` are `Abandon`. That a TUN closed by any other step is not being read, that the
reader never comes to a TUN abandoned pumps still read, and that the reader moves to a younger one, come from `IInv`; that
an engine is carried only while a TUN is read needs `EngineInv` (an active engine, a
replacement of the TUN and an engine being attached each have a mux) on top of it.

`TunnelReplacementProofs` proves what replacements leave behind once they have settled,
from `RInv`, which is `IInv` and `EngineInv` with the five parts below:

* `ReplacedTunsAreReleased`: `Spec => []NoOrphanedTun`. The property is inductive over
  `IInv`. `StepKinds` sorts the actions: one that opens no TUN and ends no replacement
  cannot orphan a descriptor, and each of the others either has its replacement in flight
  or closes the entry of the one it ends;
* `ManagerPathCatchesUp`: `Spec => []PacketPathCatchesUp`. That the path is on the live TUN
  *when nothing is in flight* is not inductive. `YoungestInv` says that the live TUN of a
  service is younger than all it superseded and than every replacement still to be
  reported; `BehindInv`, that a path behind the live TUN has the report that takes it
  there on its way. A report that moves the path to an older TUN than the live one is
  then never the last;
* `EngineKeepsSelfInside`: `Spec => []SelfInsideWithEngine`. `InsideInv` carries the fact
  through the operation: only an operation that brings an engine runs while one is
  attached, and from its establish on our own package is inside, whatever an engine's
  thread establishes meanwhile;
* `EngineHasItsDnsStage`: `Spec => []DnsStageAsConnected`. `StageInv` says that the record
  of the DNS stage is true of the mux it names, and that a mux about to start is younger
  than any the record can name. So the mux of `beginBlocking`, which leaves the record
  alone, is never taken for the one that had the stage.

### PacketMux

`PacketMuxProofs` proves `MuxTypeCorrect` (`TypeOK`), `MuxLosesNoWakeup` (`NoLostWakeup`),
`MuxNamesOpenDescriptors` (`SnapshotOpen`) and `MuxForwardsToItsEngine`
(`ForwardsToItsEngine`), for every bound on epochs and restarts. `MuxInv` says where the
controller can be with which snapshot:

* `CtlOnSnapshot` and `RoomLeft`: what it works from is published until the quiet target
  replaces it, and an operation that began has the epochs it will publish;
* `EngInv`: the mux holds the socket attached last and no other; the snapshot names it,
  except in the stretch of a swap that has published the quiet target;
* `TunInv`: the newest TUN is open, and what a swap closes is older and no longer named;
* `WakeInv`: a pump between its load and its poll has the published snapshot, or a byte in
  its pipe, or the controller is about to write one. It is `NoLostWakeup` one step
  earlier in the pump's loop, where the swap can still overtake it.

### DnsStage

`DnsStageProofs` proves `DnsTypeCorrect`, `DnsEntriesAreWaiting` (`WaitingIsPending`),
`DnsPendingBounded` (`PendingBounded`), `DnsAnswersTheQuestion` (`AnswersTheQuestion`) and
`DnsSettlesOnce` (`SettledOnce`), for every number of queries, every id space and every
limit below it. The invariant adds that queries are numbered in the order of their offers,
that the queue holds each once, that the query `tx` works on is nobody else's until it is
registered (`TxInv`), and that no query is pending under two ids (`OneId`). That the
search for a free id finds one needs a count, from `FiniteSetTheorems`: fewer entries
than ids leave an id free. `FateStep` lists the moves of a query's fate, one way only.

### VpnServiceGate and ConnectionPolicy

`VpnServiceGateProofs` proves `GateTypeCorrect` (`Spec => []TypeOK`) and
`GateHandsOutNoDeadService` (`Spec => DeadIsNeverHandedOut`). A destroyed instance
*can* be registered again, by a `markStopping` that read the gate before `detach`
wrote it. `GateInv` says why nobody is given it: an attachment that names a destroyed
instance carries the stopping flag, and so does the value an `onDestroy` on its way
has read and will write back.

`ConnectionPolicyProofs` proves two facts about every policy input:
`BlockIsAnswerable` (a session end that holds traffic leaves a mode that reports it or
waits for a network, never Off, Paused, stood down or opted out) and
`StopLeavesNothingToConnect` (with Auto-Connect on, a session end that stops the
service, other than Turn off, leaves nothing the watcher would have connected).

### VpnSession

`VpnSessionProofs` proves, for every set of networks and ids and any number of outside
events, `SessionTypeCorrect` (`TypeOK`), `SessionUserStopStands` (`UserStopStands`) and
`SessionTornDownStartStays` (`TornDownStartStays`). `SInv` has three parts:

* `TInv`: `TypeOK`, cut into pieces that an action can leave alone;
* `StopInv`: while a user's disconnect stands, the published network is the one the device
  is on and is published as stood down, and no connect on its way is the user's. Without
  the last, a `Settle` of the user's would clear the stand-down and the watcher would
  connect. A walk of a refresh may go on: it does not read the stand-down, and
  `UserStopStands` says nothing of walks;
* `IdInv`: a connect on its way has an id that no other connect, no teardown and not the
  backend has; a backend being torn down has no start left under the id it had. So a start
  that comes after a teardown's stop belongs to another connect.

### Only model-checked

All liveness, which is out of this prover's reach, as `ENABLED` is: `HandoverHoldEnds`,
`AbandonedPumpsStop`, `QuiesceSettles`, `QueriesSettle`, `RetryingCallerIsServed`, `AwaitingSessionEnds` and
`BlockedAccountRecovers`. And the five properties of section 4, which the code violates.

## 6. What is not modelled

Packet contents, the UDP/53 classifier, counters and logging; the engines'
protocols and all vendored code; profile building, repositories, API, billing and
user interface (I/O without a protocol of their own); `TunConfig`'s address and
route lists. Of the session: revoked VPN consent, Always-on and the system's
killswitch, custom configurations and emergency connects, the order of the
protocols and the dialogs, the credential retries inside an attempt, the manual protocol
change, and engines of two backend objects up at once (OpenVPN beside IKEv2 or
WireGuard: here they share one).

## 7. Plan

1. Runs that show the two breaches of a comment recorded in section 4 without one: the
   settlement over a newer connect, and Connecting shown with nothing under way.
2. Proofs: facts about the operators of `ConnectionPolicy` that `VpnSession` relies on
   and no run states; an abstract specification of `DnsStage` (each query gets one
   settlement, its own answer or none) and its refinement from `FateStep`.
