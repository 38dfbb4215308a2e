--------------------------- MODULE TunnelManager ---------------------------
(***************************************************************************)
(* The owner of the VPN interface and of the packet path over it:          *)
(* TunnelManager (a singleton) together with the descriptors that the live *)
(* WindscribeVpnService keeps for it.                                      *)
(*                                                                         *)
(* Two locks are involved.  TunnelManager's monitor serialises its         *)
(* operations; tunLock serialises the descriptor book-keeping of one       *)
(* service.  An engine's own thread calls requestTun without the monitor   *)
(* (OpenVPN's management thread, charon), so a TUN can be replaced in the  *)
(* middle of a monitor operation, and the notifications of two replacements*)
(* can reach onTunReplaced in either order.  A monitor operation is        *)
(* therefore several steps here: "op" is what the holder of the monitor    *)
(* still has to do.                                                        *)
(*                                                                         *)
(* A descriptor is named by the generation whose establish() produced it;  *)
(* 0 is null.                                                              *)
(***************************************************************************)
EXTENDS Integers, Sequences

CONSTANTS
  Hosts,      \* WindscribeVpnService instances, in the order Android makes them
  Engines,    \* the registered engines; each may call requestTun from its own thread
  Ports,      \* ctrld ports; 0 (no interception) is not one of them
  MaxGen,     \* bound on establish() calls: Android makes no promise, the model stops there
  OnlySelfTunnelled, \* split tunnel's inclusive list names our own package alone
  None

ASSUME ManagerAssumptions ==
  /\ MaxGen \in Nat
  /\ None \notin Hosts \cup Engines
  /\ Ports \subseteq Nat \ {0}
  /\ OnlySelfTunnelled \in BOOLEAN

Gen == 1..MaxGen
Fd  == 0..MaxGen

(* The live TunConfig, as far as covering tells configs apart: "in" is an  *)
(* engine's config, "out" one with our own package excluded.               *)
Cfg == {"none", "in", "out"}

VARIABLES
  \* WindscribeVpnService
  phase,       \* each service: "new", "up", "detached" (onDestroy running), "gone"
  open,        \* descriptors open in the kernel
  gen,         \* TUN_GENERATIONS, process wide
  live,        \* liveTun of each service
  cfg,         \* liveTunConfig of each service
  superseded,  \* supersededTuns of each service
  listener,    \* tunReplacementListener of each service is set
  \* TunnelManager
  host, engine, mux, tunnelUp, applied,
  holdExpiry,  \* the scheduled watchdog: "none", "armed" or "fired"
  firing,      \* a watchdog task is past its delay and waits for the monitor
  teardown,    \* the tasks queued on teardownExecutor: an engine to stop, then a mux
  orphans,     \* descriptors the pumps of those muxes still read
  muxId,       \* identity of the mux: the generation it was started on
  stage,       \* DNS stage inside the mux: its ctrld port, or 0
  dnsState,    \* dnsStageState: what the manager believes is installed
  op,          \* what the holder of the monitor is doing
  \* engines
  core,        \* the host an engine is attached to
  req,         \* an engine thread inside requestTun
  \* settings read through the host
  blocking,    \* VpnHost.blockingApplies()
  dnsKey,      \* dnsStageKeyFor(host)
  \* history
  hold,        \* why a TUN without an engine is up: "handover", "blocking" or "none"
  connKey      \* dnsKey as the last connect found it

service  == <<open, gen, live, cfg, superseded>>
settings == <<blocking, dnsKey>>
dns      == <<muxId, stage, dnsState, connKey>>
watchdog == <<holdExpiry, firing>>
vars == <<phase, service, listener, host, engine, mux, tunnelUp, applied, watchdog,
          teardown, orphans, dns, op, core, req, settings, hold>>

Free == [kind |-> "free", stage |-> "none", eng |-> None, gen |-> 0]
Idle == [pc |-> "idle", host |-> None, gen |-> 0]
NoStage == [mux |-> 0, port |-> 0]

MonitorFree == op = Free

-----------------------------------------------------------------------------
(* The service's side, each part under tunLock.                            *)

Held(h) == {f \in Gen : f = live[h] \/ \E g \in Gen : f = superseded[h][g]}

(* A faulty variant: getAndIncrement(), so the first generation is null's. *)
EstablishFromZero(h, c) ==
  /\ gen < MaxGen
  /\ gen' = gen + 1
  /\ open' = open \cup {gen}
  /\ live' = [live EXCEPT ![h] = gen]
  /\ cfg' = [cfg EXCEPT ![h] = c]
  /\ superseded' = [superseded EXCEPT ![h] = [g \in Gen |-> IF g = gen THEN live[h] ELSE @[g]]]

Establish(h, c) ==
  /\ gen < MaxGen
  /\ gen' = gen + 1
  /\ open' = open \cup {gen + 1}
  /\ live' = [live EXCEPT ![h] = gen + 1]
  /\ cfg' = [cfg EXCEPT ![h] = c]
  /\ superseded' = [superseded EXCEPT ![h][gen + 1] = live[h]]

ReleasePrevious(h, g) ==
  /\ open' = open \ {superseded[h][g]}
  /\ superseded' = [superseded EXCEPT ![h][g] = 0]

ReleaseTun(h) ==
  /\ open' = open \ Held(h)
  /\ live' = [live EXCEPT ![h] = 0]
  /\ cfg' = [cfg EXCEPT ![h] = "none"]
  /\ superseded' = [superseded EXCEPT ![h] = [g \in Gen |-> 0]]
  /\ UNCHANGED gen

-----------------------------------------------------------------------------
(* The manager's internals.                                                *)

CloseTun ==
  /\ tunnelUp' = FALSE
  /\ hold' = "none"
  /\ IF tunnelUp /\ host # None THEN ReleaseTun(host) ELSE UNCHANGED service

(* Move the packet path, then let the superseded descriptor go; a stale or *)
(* foreign generation is only let go.                                      *)
StaleIgnoringOrder(h, g) == h # host
Stale(h, g) == h # host \/ g <= applied

KeepingStaleTuns(h, g) ==
  /\ IF Stale(h, g)
     THEN UNCHANGED <<applied, mux, tunnelUp, open, superseded>>
     ELSE /\ ReleasePrevious(h, g)
          /\ applied' = g
          /\ mux' = IF mux = 0 THEN 0 ELSE g
          /\ tunnelUp' = TRUE
  /\ UNCHANGED <<gen, live, cfg>>

RecordingTheNewest(h, g) ==
  /\ ReleasePrevious(h, g)
  /\ IF Stale(h, g)
     THEN UNCHANGED <<applied, mux, tunnelUp>>
     ELSE /\ applied' = gen
          /\ mux' = IF mux = 0 THEN 0 ELSE g
          /\ tunnelUp' = TRUE
  /\ UNCHANGED <<gen, live, cfg>>

OnTunReplaced(h, g) ==
  /\ ReleasePrevious(h, g)
  /\ IF Stale(h, g)
     THEN UNCHANGED <<applied, mux, tunnelUp>>
     ELSE /\ applied' = g
          /\ mux' = IF mux = 0 THEN 0 ELSE g
          /\ tunnelUp' = TRUE
  /\ UNCHANGED <<gen, live, cfg>>

CancelHoldWatchdog == holdExpiry' = "none"
ArmHoldWatchdog == holdExpiry' = "armed"

(* stopEngineQuietly: engine.stop() drops the engine's host.  It does not  *)
(* wait for a thread of the engine that is already inside requestTun.      *)
CoreAfterStop == [e \in Engines |-> IF e = engine THEN None ELSE core[e]]

StopEngine == engine' = None /\ core' = CoreAfterStop

(* dnsStageState is compared by mux and by port; a match leaves the stage. *)
ReconcileByPort ==
  /\ dnsState' = [mux |-> muxId, port |-> dnsKey]
  /\ stage' = IF dnsState.mux # 0 /\ dnsState.port = dnsKey THEN stage ELSE dnsKey
  /\ connKey' = dnsKey
  /\ UNCHANGED muxId

ReconcileDnsStage ==
  LET wanted == [mux |-> muxId, port |-> dnsKey]
  IN  /\ dnsState' = wanted
      /\ stage' = IF dnsState = wanted THEN stage ELSE dnsKey
      /\ connKey' = dnsKey
      /\ UNCHANGED muxId

DropMux ==
  /\ mux' = 0 /\ muxId' = 0 /\ stage' = 0
  /\ UNCHANGED <<dnsState, connKey>>

-----------------------------------------------------------------------------
(* The service's lifecycle.                                                *)

Init ==
  /\ phase = [h \in Hosts |-> "new"]
  /\ open = {} /\ gen = 0
  /\ live = [h \in Hosts |-> 0]
  /\ cfg = [h \in Hosts |-> "none"]
  /\ superseded = [h \in Hosts |-> [g \in Gen |-> 0]]
  /\ listener = [h \in Hosts |-> FALSE]
  /\ host = None /\ engine = None /\ mux = 0 /\ tunnelUp = FALSE /\ applied = 0
  /\ holdExpiry = "none" /\ firing = FALSE /\ teardown = <<>> /\ orphans = {}
  /\ muxId = 0 /\ stage = 0 /\ dnsState = NoStage /\ connKey = 0
  /\ op = Free
  /\ core = [e \in Engines |-> None]
  /\ req = [e \in Engines |-> Idle]
  /\ blocking \in BOOLEAN /\ dnsKey \in Ports \cup {0}
  /\ hold = "none"

(* Android creates a service while an earlier one is still to be destroyed *)
(* only when that one has stopped itself, and it stops itself when its     *)
(* session is over; onCreate and onDestroy both run on the main thread.    *)
ServiceMayBeCreated(h) ==
  \A k \in Hosts \ {h} :
    \/ phase[k] \in {"new", "gone"}
    \/ phase[k] = "up" /\ mux = 0 /\ ~tunnelUp

AttachHost(h) ==
  /\ MonitorFree
  /\ phase[h] = "new"
  /\ ServiceMayBeCreated(h)
  /\ phase' = [phase EXCEPT ![h] = "up"]
  /\ host' = h
  /\ listener' = [listener EXCEPT ![h] = TRUE]
  /\ UNCHANGED <<service, engine, mux, tunnelUp, applied, watchdog, teardown, orphans, dns, op,
                 core, req, settings, hold>>

(* The engine and the mux of the ended session stop later, on              *)
(* teardownExecutor; the fields are cleared and the TUN closed now, under  *)
(* the pumps.  A task with nothing to stop is not worth queueing.          *)
QueueTeardownOfEngine ==
  /\ teardown' = IF engine = None THEN teardown ELSE Append(teardown, [eng |-> engine, mux |-> mux])
  /\ orphans' = orphans \cup ({mux} \ {0})

QueueTeardown ==
  /\ teardown' = IF engine = None /\ mux = 0 THEN teardown ELSE Append(teardown, [eng |-> engine, mux |-> mux])
  /\ orphans' = orphans \cup ({mux} \ {0})

DetachHost(h) ==
  /\ MonitorFree
  /\ phase[h] = "up"
  /\ phase' = [phase EXCEPT ![h] = "detached"]
  /\ IF host # h
     THEN UNCHANGED <<service, listener, host, engine, mux, tunnelUp, holdExpiry,
                      teardown, orphans, dns, hold>>
     ELSE /\ CancelHoldWatchdog
          /\ QueueTeardown
          /\ engine' = None
          /\ mux' = 0 /\ muxId' = 0 /\ stage' = 0 /\ dnsState' = NoStage
          /\ CloseTun
          /\ listener' = [listener EXCEPT ![h] = FALSE]
          /\ host' = None
          /\ UNCHANGED connKey
  /\ UNCHANGED <<applied, firing, op, core, req, settings>>

OnDestroyReleasesTun(h) ==
  /\ phase[h] = "detached"
  /\ phase' = [phase EXCEPT ![h] = "gone"]
  /\ ReleaseTun(h)
  /\ UNCHANGED <<listener, host, engine, mux, tunnelUp, applied, watchdog, teardown, orphans, dns,
                 op, core, req, settings, hold>>

(* A faulty variant: the engine of the revoked session stays recorded.     *)
OnRevokedKeepingEngine ==
  /\ MonitorFree
  /\ \E h \in Hosts : phase[h] = "up"
  /\ CancelHoldWatchdog
  /\ QueueTeardown
  /\ DropMux
  /\ CloseTun
  /\ UNCHANGED <<phase, listener, host, engine, applied, firing, op, core, req, settings>>

OnRevoked ==
  /\ MonitorFree
  /\ \E h \in Hosts : phase[h] = "up"
  /\ CancelHoldWatchdog
  /\ QueueTeardown
  /\ engine' = None
  /\ DropMux
  /\ CloseTun
  /\ UNCHANGED <<phase, listener, host, applied, firing, op, core, req, settings>>

(* teardownExecutor: stop() on the engine object, which is shared by every *)
(* session that uses its protocol ...                                      *)
TeardownStopsEngine ==
  /\ teardown # <<>> /\ Head(teardown).eng # None
  /\ core' = [core EXCEPT ![Head(teardown).eng] = None]
  /\ teardown' = [teardown EXCEPT ![1].eng = None]
  /\ UNCHANGED <<phase, service, listener, host, engine, mux, tunnelUp, applied, watchdog,
                 orphans, dns, op, req, settings, hold>>

(* ... and then on the session's mux, whose pumps have read the closed TUN *)
(* until now.                                                              *)
TeardownStopsMux ==
  /\ teardown # <<>> /\ Head(teardown).eng = None
  /\ orphans' = orphans \ {Head(teardown).mux}
  /\ teardown' = Tail(teardown)
  /\ UNCHANGED <<phase, service, listener, host, engine, mux, tunnelUp, applied, watchdog,
                 dns, op, core, req, settings, hold>>

Teardown == TeardownStopsEngine \/ TeardownStopsMux

-----------------------------------------------------------------------------
(* Operations that finish within one hold of the monitor.                  *)

DisconnectNone ==
  /\ MonitorFree
  /\ StopEngine
  /\ DropMux
  /\ CloseTun
  /\ UNCHANGED <<phase, listener, host, applied, watchdog, teardown, orphans, op, req, settings>>

HasHeldTunnel == tunnelUp /\ engine = None

ReleaseHeldTunnel ==
  /\ MonitorFree
  /\ HasHeldTunnel
  /\ CancelHoldWatchdog
  /\ DropMux
  /\ CloseTun
  /\ UNCHANGED <<phase, listener, host, engine, applied, firing, teardown, orphans, op, core, req,
                 settings>>

(* The timer runs out: the task leaves the queue and waits for the monitor.*)
(* From here cancel(false) no longer reaches it.                           *)
WatchdogFires ==
  /\ holdExpiry = "armed" /\ ~firing
  /\ holdExpiry' = "fired" /\ firing' = TRUE
  /\ UNCHANGED <<phase, service, listener, host, engine, mux, tunnelUp, applied, teardown, orphans,
                 dns, op, core, req, settings, hold>>

OnHoldExpired ==
  /\ MonitorFree
  /\ firing
  /\ firing' = FALSE
  /\ \/ /\ ~HasHeldTunnel
        /\ UNCHANGED <<service, mux, tunnelUp, holdExpiry, dns, hold>>
     \/ /\ HasHeldTunnel /\ host # None /\ blocking
        /\ CancelHoldWatchdog
        /\ hold' = "blocking"
        /\ UNCHANGED <<service, mux, tunnelUp, dns>>
     \/ /\ HasHeldTunnel /\ ~(host # None /\ blocking)
        /\ DropMux
        /\ CloseTun
        /\ UNCHANGED holdExpiry
  /\ UNCHANGED <<phase, listener, host, engine, applied, teardown, orphans, op, core, req, settings>>

-----------------------------------------------------------------------------
(* Operations that call requestTun while they hold the monitor.            *)

Begin(kind, st, e) == op' = [kind |-> kind, stage |-> st, eng |-> e, gen |-> 0]

(* A config that keeps our own package inside may or may not be the one the*)
(* next engine asks for; one that excludes it never is.                    *)
CoversIgnoringApps(h) == cfg[h] # "none"
TunMayCover(h) == cfg[h] = "in"

(* connect(): prepare() has run, off the monitor.                          *)
ConnectWithoutHost ==
  /\ MonitorFree /\ host = None
  /\ CancelHoldWatchdog
  /\ UNCHANGED <<phase, service, listener, host, engine, mux, tunnelUp, applied, firing,
                 teardown, orphans, dns, op, core, req, settings, hold>>

Connect(e) ==
  /\ MonitorFree /\ host # None
  /\ CancelHoldWatchdog
  /\ hold' = "none"
  /\ \/ /\ mux # 0 /\ tunnelUp /\ TunMayCover(host)
        /\ Begin("replace", "attach", e)
        /\ ReconcileDnsStage
     \/ /\ mux # 0 /\ tunnelUp
        /\ Begin("replace", "establish", e)
        /\ UNCHANGED dns
     \/ /\ ~(mux # 0 /\ tunnelUp)
        /\ Begin("first", "establish", e)
        /\ UNCHANGED dns
  /\ UNCHANGED <<phase, service, listener, host, engine, mux, tunnelUp, applied, firing,
                 teardown, orphans, core, req, settings>>

(* excludeSelfWhileHolding() has something to re-establish.                *)
ExcludesSelf == host # None /\ cfg[host] = "in" /\ ~OnlySelfTunnelled

(* What disconnect() does once the exclusion is settled, one way or other. *)
SettleHoldUnbounded(kind) ==
  /\ hold' = CASE ~tunnelUp -> "none"
               [] kind = "handover" -> "handover"
               [] OTHER -> "blocking"
  /\ CancelHoldWatchdog

SettleHold(kind) ==
  /\ hold' = CASE ~tunnelUp -> "none"
               [] kind = "handover" -> "handover"
               [] OTHER -> "blocking"
  /\ IF kind = "handover" THEN ArmHoldWatchdog ELSE CancelHoldWatchdog

DisconnectHolding(kind) ==
  /\ MonitorFree
  /\ StopEngine
  /\ IF ExcludesSelf
     THEN Begin(kind, "establish", None) /\ UNCHANGED <<holdExpiry, hold>>
     ELSE SettleHold(kind) /\ UNCHANGED op
  /\ UNCHANGED <<phase, service, listener, host, mux, tunnelUp, applied, firing, teardown, orphans,
                 dns, req, settings>>

HoldForBlocking ==
  /\ MonitorFree
  /\ HasHeldTunnel
  /\ CancelHoldWatchdog
  /\ hold' = "blocking"
  /\ IF ExcludesSelf THEN Begin("convert", "establish", None) ELSE UNCHANGED op
  /\ UNCHANGED <<phase, service, listener, host, engine, mux, tunnelUp, applied, firing,
                 teardown, orphans, dns, core, req, settings>>

BeginBlocking ==
  /\ MonitorFree
  /\ ~tunnelUp /\ mux = 0 /\ host # None
  /\ Begin("cold", "establish", None)
  /\ UNCHANGED <<phase, service, listener, host, engine, mux, tunnelUp, applied, watchdog,
                 teardown, orphans, dns, core, req, settings, hold>>

-----------------------------------------------------------------------------
(* The rest of those operations, step by step.                             *)

ConfigFor(kind) == IF kind \in {"first", "replace"} THEN "in" ELSE "out"

OpEstablish ==
  /\ op.stage = "establish"
  /\ Establish(host, ConfigFor(op.kind))
  /\ op' = [op EXCEPT !.stage = "notify", !.gen = gen + 1]
  /\ UNCHANGED <<phase, listener, host, engine, mux, tunnelUp, applied, watchdog, teardown, orphans,
                 dns, core, req, settings, hold>>

(* establish() returned null.  connect() throws; a hold goes on with the   *)
(* interface it has; beginBlocking() had no interface to close.            *)
OpEstablishFails ==
  /\ op.stage = "establish"
  /\ op' = Free
  /\ IF op.kind \in {"handover", "block"}
     THEN SettleHold(op.kind)
     ELSE UNCHANGED <<holdExpiry, hold>>
  /\ UNCHANGED <<phase, service, listener, host, engine, mux, tunnelUp, applied, firing,
                 teardown, orphans, dns, core, req, settings>>

(* requestTun notifies its own caller, which already holds the monitor.    *)
OpNotify ==
  /\ op.stage = "notify"
  /\ OnTunReplaced(host, op.gen)
  /\ \/ /\ op.kind \in {"first", "cold"}
        /\ op' = [op EXCEPT !.stage = "start"]
        /\ UNCHANGED <<dns, holdExpiry, hold>>
     \/ /\ op.kind = "replace"
        /\ op' = [op EXCEPT !.stage = "attach"]
        /\ ReconcileDnsStage
        /\ UNCHANGED <<holdExpiry, hold>>
     \/ /\ op.kind \in {"handover", "block"}
        /\ op' = Free
        /\ SettleHold(op.kind)
        /\ UNCHANGED dns
     \/ /\ op.kind = "convert"
        /\ op' = Free
        /\ UNCHANGED <<dns, holdExpiry, hold>>
  /\ UNCHANGED <<phase, listener, host, engine, firing, teardown, orphans, core, req, settings>>

(* A new mux on the descriptor requestTun returned.  The blocking mux has  *)
(* no DNS stage and leaves dnsStageState as it was.                        *)
OpStartMux ==
  /\ op.stage = "start"
  /\ tunnelUp' = TRUE
  /\ mux' = op.gen /\ muxId' = op.gen
  /\ IF op.kind = "first"
     THEN /\ stage' = dnsKey
          /\ dnsState' = [mux |-> op.gen, port |-> dnsKey]
          /\ connKey' = dnsKey
          /\ op' = [op EXCEPT !.stage = "attach"]
          /\ UNCHANGED hold
     ELSE /\ stage' = 0
          /\ op' = Free
          /\ hold' = "blocking"
          /\ UNCHANGED <<dnsState, connKey>>
  /\ UNCHANGED <<phase, service, listener, host, engine, applied, watchdog, teardown, orphans, core,
                 req, settings>>

OpStartMuxFails ==
  /\ op.stage = "start"
  /\ CloseTun
  /\ op' = Free
  /\ UNCHANGED <<phase, listener, host, engine, mux, applied, watchdog, teardown, orphans, dns, core,
                 req, settings>>

OpAttachEngine ==
  /\ op.stage = "attach"
  /\ engine' = op.eng
  /\ core' = [CoreAfterStop EXCEPT ![op.eng] = host]
  /\ op' = Free
  /\ UNCHANGED <<phase, service, listener, host, mux, tunnelUp, applied, watchdog, teardown, orphans,
                 dns, req, settings, hold>>

(* attachEngine() or start() threw: no engine, and the TUN stays.          *)
OpAttachEngineFails ==
  /\ op.stage = "attach"
  /\ StopEngine
  /\ op' = Free
  /\ UNCHANGED <<phase, service, listener, host, mux, tunnelUp, applied, watchdog, teardown, orphans,
                 dns, req, settings, hold>>

-----------------------------------------------------------------------------
(* An engine's own thread (openTun, establish): it reads its host, asks    *)
(* whether the live TUN covers its config, and calls requestTun.           *)

RequestTun(e) ==
  /\ req[e].pc = "idle" /\ core[e] # None
  /\ req' = [req EXCEPT ![e] = [pc |-> "asked", host |-> core[e], gen |-> 0]]
  /\ UNCHANGED <<phase, service, listener, host, engine, mux, tunnelUp, applied, watchdog,
                 teardown, orphans, dns, op, core, settings, hold>>

(* Covered by the live TUN, or establish() failed.                         *)
RequestTunEnds(e) ==
  /\ req[e].pc = "asked"
  /\ req' = [req EXCEPT ![e] = Idle]
  /\ UNCHANGED <<phase, service, listener, host, engine, mux, tunnelUp, applied, watchdog,
                 teardown, orphans, dns, op, core, settings, hold>>

RequestTunEstablishes(e) ==
  /\ req[e].pc = "asked"
  /\ Establish(req[e].host, "in")
  /\ req' = [req EXCEPT ![e].pc = "established", ![e].gen = gen + 1]
  /\ UNCHANGED <<phase, listener, host, engine, mux, tunnelUp, applied, watchdog, teardown, orphans,
                 dns, op, core, settings, hold>>

(* Outside tunLock: with no listener nothing will move the packet path.    *)
RequestTunReadsListener(e) ==
  /\ req[e].pc = "established"
  /\ IF listener[req[e].host]
     THEN /\ req' = [req EXCEPT ![e].pc = "notify"]
          /\ UNCHANGED service
     ELSE /\ req' = [req EXCEPT ![e] = Idle]
          /\ ReleasePrevious(req[e].host, req[e].gen)
          /\ UNCHANGED <<gen, live, cfg>>
  /\ UNCHANGED <<phase, listener, host, engine, mux, tunnelUp, applied, watchdog, teardown, orphans,
                 dns, op, core, settings, hold>>

RequestTunNotifies(e) ==
  /\ MonitorFree
  /\ req[e].pc = "notify"
  /\ OnTunReplaced(req[e].host, req[e].gen)
  /\ req' = [req EXCEPT ![e] = Idle]
  /\ UNCHANGED <<phase, listener, host, engine, watchdog, teardown, orphans, dns, op, core, settings,
                 hold>>

-----------------------------------------------------------------------------
(* Settings.  ctrld is started or stopped before connect(), never during.  *)

SettingsChange ==
  /\ MonitorFree
  /\ blocking' \in BOOLEAN /\ dnsKey' \in Ports \cup {0}
  /\ UNCHANGED <<phase, service, listener, host, engine, mux, tunnelUp, applied, watchdog,
                 teardown, orphans, dns, op, core, req, hold>>

OpStep ==
  \/ OpEstablish \/ OpEstablishFails \/ OpNotify \/ OpStartMux \/ OpStartMuxFails
  \/ OpAttachEngine \/ OpAttachEngineFails

Next ==
  \/ \E h \in Hosts : AttachHost(h) \/ DetachHost(h) \/ OnDestroyReleasesTun(h)
  \/ OnRevoked \/ Teardown
  \/ DisconnectNone \/ ReleaseHeldTunnel \/ HoldForBlocking \/ BeginBlocking
  \/ \E kind \in {"handover", "block"} : DisconnectHolding(kind)
  \/ ConnectWithoutHost
  \/ WatchdogFires \/ OnHoldExpired
  \/ OpStep
  \/ \E e \in Engines :
       \/ Connect(e)
       \/ RequestTun(e) \/ RequestTunEnds(e) \/ RequestTunEstablishes(e)
       \/ RequestTunReadsListener(e) \/ RequestTunNotifies(e)
  \/ SettingsChange

Spec == Init /\ [][Next]_vars

-----------------------------------------------------------------------------
(* Properties.                                                             *)

TypeOK ==
  /\ phase \in [Hosts -> {"new", "up", "detached", "gone"}]
  /\ open \subseteq Gen /\ gen \in Fd
  /\ live \in [Hosts -> Fd]
  /\ cfg \in [Hosts -> Cfg]
  /\ superseded \in [Hosts -> [Gen -> Fd]]
  /\ listener \in [Hosts -> BOOLEAN]
  /\ host \in Hosts \cup {None} /\ engine \in Engines \cup {None}
  /\ mux \in Fd /\ tunnelUp \in BOOLEAN /\ applied \in Fd
  /\ holdExpiry \in {"none", "armed", "fired"} /\ firing \in BOOLEAN
  /\ teardown \in Seq([eng : Engines \cup {None}, mux : Fd])
  /\ orphans \subseteq Gen
  /\ muxId \in Fd /\ stage \in Ports \cup {0} /\ connKey \in Ports \cup {0}
  /\ dnsState \in [mux : Fd, port : Ports \cup {0}]
  /\ op \in [kind : {"free", "first", "replace", "handover", "block", "convert", "cold"},
             stage : {"none", "establish", "notify", "start", "attach"},
             eng : Engines \cup {None}, gen : Fd]
  /\ core \in [Engines -> Hosts \cup {None}]
  /\ req \in [Engines -> [pc : {"idle", "asked", "established", "notify"},
                          host : Hosts \cup {None}, gen : Fd]]
  /\ blocking \in BOOLEAN /\ dnsKey \in Ports \cup {0}
  /\ hold \in {"none", "handover", "blocking"}

(* While a session lasts its pumps are never on a closed descriptor, nor   *)
(* on one that the pumps of an ended session still read: whatever order    *)
(* the replacements of the TUN and their notifications come in, the TUN is *)
(* closed only after the pumps have been moved off it, or with the session *)
(* (then they read a closed TUN until teardownExecutor stops them).        *)
PacketPathOpen == mux # 0 => mux \in open /\ mux \notin orphans

InFlight(h, g) ==
  \/ op.stage = "notify" /\ host = h /\ op.gen = g
  \/ \E e \in Engines :
       req[e].pc \in {"established", "notify"} /\ req[e].host = h /\ req[e].gen = g

(* A superseded descriptor is kept only while the replacement that will    *)
(* release it is still in flight: no interleaving leaks one.               *)
NoOrphanedTun ==
  \A h \in Hosts, g \in Gen : superseded[h][g] # 0 => InFlight(h, g)

(* Once no replacement is in flight the packet path is on the live TUN,    *)
(* even when notifications overtook each other.                            *)
PacketPathCatchesUp ==
  (mux # 0 /\ MonitorFree /\ \A e \in Engines : req[e].pc \in {"idle", "asked"})
    => mux = live[host]

(* The pumps only ever move on to a younger TUN.                           *)
NeverMovesBack == [][mux # 0 /\ mux' # 0 => mux' >= mux]_vars

(* All of it together: every step of the manager, of the services and of   *)
(* the engines' threads is a step of PacketPath or leaves it alone.        *)
Path == INSTANCE PacketPath WITH tuns <- open, newest <- gen, reading <- mux,
                                 carried <- engine # None, leaving <- orphans
ImplementsPacketPath == Path!Spec

(* Our own package is outside the TUN only while no engine is attached; a  *)
(* bypass that outlived the hold would let the connectivity test pass      *)
(* against a dead tunnel.                                                  *)
SelfInsideWithEngine == MonitorFree /\ engine # None => cfg[host] = "in"

(* The mux intercepts DNS as the last connect() asked, although the mux    *)
(* under it may be one that beginBlocking() built without a DNS stage.     *)
DnsStageAsConnected == MonitorFree /\ engine # None => stage = connKey

(* The engine of the current session is running on the current host: the   *)
(* deferred stop of an earlier session's engine does not reach it.         *)
ActiveEngineRuns == MonitorFree /\ engine # None => core[engine] = host

(* The scheduler runs what is ready: the holder of the monitor goes on,    *)
(* the watchdog's timer fires, its task gets the monitor in the end, and   *)
(* teardownExecutor's thread works through its queue.                      *)
Fairness ==
  /\ WF_vars(OpStep) /\ WF_vars(WatchdogFires) /\ SF_vars(OnHoldExpired)
  /\ WF_vars(Teardown)

FairSpec == Spec /\ Fairness

(* A TUN held for a handover does not blackhole for ever: a connect takes  *)
(* it over, it is closed, or the hold is turned into a blocking one.       *)
HeldForHandover == hold = "handover" /\ engine = None /\ host # None /\ live[host] # 0

HandoverHoldEnds == HeldForHandover ~> ~HeldForHandover

(* detachHost() and onRevoked() close the TUN under pumps that still read  *)
(* it; teardownExecutor stops those pumps, engine or no engine.            *)
AbandonedPumpsStop == \A f \in Gen : f \in orphans ~> f \notin orphans

=============================================================================
