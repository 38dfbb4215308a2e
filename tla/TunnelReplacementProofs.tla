---------------------- MODULE TunnelReplacementProofs ----------------------
(***************************************************************************)
(* What the replacements of the TUN leave behind once they have settled,   *)
(* for every set of services and engines and every bound on the            *)
(* generations: no descriptor, a packet path on the live TUN, and, under   *)
(* an engine, a TUN and a DNS stage that are the engine's own.             *)
(***************************************************************************)
EXTENDS PacketPathProofs

(* A replacement that an engine's thread made and has yet to report.       *)
ReqInFlight(h, g) ==
  \E e \in Engines :
    req[e].pc \in {"established", "notify"} /\ req[e].host = h /\ req[e].gen = g

(* The live TUN of a service is its youngest, also among those its engines'*)
(* threads still have to report.                                           *)
YoungestInv ==
  /\ \A h \in Hosts, g \in Gen : superseded[h][g] # 0 => superseded[h][g] < live[h]
  /\ \A e \in Engines :
       req[e].pc \in {"established", "notify"} /\ live[req[e].host] # 0
         => req[e].gen <= live[req[e].host]

(* Whoever is behind the live TUN, the packet path or the operation that   *)
(* will start one, is so because the notification that takes it there is on*)
(* its way.                                                                *)
BehindInv ==
  /\ mux # 0 => mux = live[host] \/ InFlight(host, live[host])
  /\ op.stage \in {"notify", "start"}
       => op.gen = live[host] \/ ReqInFlight(host, live[host])

(* Only an operation that brings an engine runs while one is attached, and *)
(* from the establish() of such an operation on our own package is inside. *)
InsideInv ==
  /\ op.stage # "none" /\ op.kind \notin {"first", "replace"} => engine = None
  /\ engine # None => cfg[host] = "in"
  /\ op.kind \in {"first", "replace"} /\ op.stage \in {"notify", "start", "attach"}
       => cfg[host] = "in"

(* What dnsStageState says of the mux it names is so.  It may be about an  *)
(* older mux, and a mux that is about to start is younger than that one:   *)
(* a blocking mux is never mistaken for the one that had the DNS stage.    *)
StageInv ==
  /\ muxId = 0 <=> mux = 0
  /\ muxId <= applied /\ dnsState.mux <= applied
  /\ op.stage = "start" => dnsState.mux < op.gen
  /\ muxId # 0 /\ dnsState.mux = muxId => stage = dnsState.port
  /\ engine # None \/ op.stage = "attach" => stage = connKey

-----------------------------------------------------------------------------
(* Our own package is inside the TUN under an engine.                      *)

(* A step that the part about our own package does not see.                *)
LEMMA InsideUnseen ==
  ASSUME InsideInv, UNCHANGED <<op, engine, host, cfg>>
  PROVE  InsideInv'
  BY DEF InsideInv

(* With the monitor free and no engine there is nothing to keep inside.    *)
LEMMA InsideIdle ==
  ASSUME op' = Free, engine' = None
  PROVE  InsideInv'
  BY DEF InsideInv, Free

(* With no engine, only an operation past its establish() has a duty.      *)
LEMMA InsideBegins ==
  ASSUME engine' = None, op'.stage = "establish"
  PROVE  InsideInv'
  BY DEF InsideInv

(* Every step keeps our own package inside under an engine.                *)
LEMMA NextInside ==
  ASSUME IInv, EngineInv, InsideInv, [Next]_vars
  PROVE  InsideInv'
  <1>t. TypeOK /\ OpWellFormed /\ ReqWellFormed /\ OpInv /\ MuxInv /\ HostInv
    BY DEF IInv, TInv
  <1>e. engine # None => mux # 0 /\ host \in Hosts /\ cfg[host] = "in"
    BY <1>t DEF EngineInv, MuxInv, InsideInv
  <1>f. MonitorFree => op.stage = "none" /\ op.kind = "free"
    BY DEF MonitorFree, Free
  <1>1. ASSUME NEW h \in Hosts, AttachHost(h) PROVE InsideInv'
    <2>1. mux = 0
      BY <1>t, <1>1 DEF AttachHost, ServiceMayBeCreated, HostInv, MuxInv
    <2>2. engine' = None /\ op' = Free
      BY <1>e, <1>1, <2>1 DEF AttachHost, MonitorFree
    <2> QED
      BY <2>2, InsideIdle
  <1>2. ASSUME NEW h \in Hosts, DetachHost(h) PROVE InsideInv'
    <2>1. CASE host # h
      BY <1>2, <2>1, InsideUnseen DEF DetachHost, service
    <2>2. CASE host = h
      BY <1>2, <2>2, InsideIdle DEF DetachHost, MonitorFree
    <2> QED
      BY <2>1, <2>2
  <1>3. ASSUME NEW h \in Hosts, OnDestroyReleasesTun(h) PROVE InsideInv'
    <2>1. /\ UNCHANGED <<op, engine, host>>
          /\ cfg' = [cfg EXCEPT ![h] = "none"]
          /\ phase[h] = "detached"
      BY <1>3 DEF OnDestroyReleasesTun, ReleaseTun
    <2>2. host \in Hosts => cfg'[host] = cfg[host]
      BY <1>t, <2>1 DEF HostInv, TypeOK
    <2>3. op.stage \in {"notify", "start", "attach"} => host \in Hosts
      BY <1>t DEF OpWellFormed
    <2> QED
      BY <1>e, <2>1, <2>2, <2>3 DEF InsideInv
  <1>4. ASSUME OnRevoked PROVE InsideInv'
    BY <1>4, InsideIdle DEF OnRevoked, MonitorFree
  <1>5. ASSUME Teardown PROVE InsideInv'
    BY <1>5, InsideUnseen DEF Teardown, TeardownStopsEngine, TeardownStopsMux, service
  <1>6. ASSUME DisconnectNone PROVE InsideInv'
    BY <1>6, InsideIdle DEF DisconnectNone, StopEngine, MonitorFree
  <1>7. ASSUME ReleaseHeldTunnel PROVE InsideInv'
    BY <1>7, InsideIdle DEF ReleaseHeldTunnel, HasHeldTunnel, MonitorFree
  <1>8. ASSUME HoldForBlocking PROVE InsideInv'
    <2>1. engine' = None
      BY <1>8 DEF HoldForBlocking, HasHeldTunnel
    <2>2. op' = Free \/ op'.stage = "establish"
      BY <1>8 DEF HoldForBlocking, Begin, MonitorFree
    <2> QED
      BY <2>1, <2>2, InsideIdle, InsideBegins
  <1>9. ASSUME BeginBlocking PROVE InsideInv'
    <2>1. engine' = None /\ op'.stage = "establish"
      BY <1>e, <1>9 DEF BeginBlocking, Begin
    <2> QED
      BY <2>1, InsideBegins
  <1>10. ASSUME NEW kind \in {"handover", "block"}, DisconnectHolding(kind) PROVE InsideInv'
    <2>1. engine' = None
      BY <1>10 DEF DisconnectHolding, StopEngine
    <2>2. op' = Free \/ op'.stage = "establish"
      BY <1>10 DEF DisconnectHolding, Begin, MonitorFree
    <2> QED
      BY <2>1, <2>2, InsideIdle, InsideBegins
  <1>11. ASSUME ConnectWithoutHost PROVE InsideInv'
    BY <1>11, InsideUnseen DEF ConnectWithoutHost, service
  <1>12. ASSUME WatchdogFires PROVE InsideInv'
    BY <1>12, InsideUnseen DEF WatchdogFires, service
  <1>13. ASSUME OnHoldExpired PROVE InsideInv'
    <2>1. CASE HasHeldTunnel
      BY <1>13, <2>1, InsideIdle DEF OnHoldExpired, HasHeldTunnel, MonitorFree
    <2>2. CASE ~HasHeldTunnel
      BY <1>13, <2>2, InsideUnseen DEF OnHoldExpired, service
    <2> QED
      BY <2>1, <2>2
  <1>14. ASSUME OpEstablish PROVE InsideInv'
    <2>1. /\ host \in Hosts /\ op.stage = "establish"
          /\ cfg' = [cfg EXCEPT ![host] = ConfigFor(op.kind)]
          /\ UNCHANGED <<engine, host>>
      BY <1>t, <1>14 DEF OpEstablish, OpWellFormed, Establish
    <2>2. op'.kind = op.kind /\ op'.stage = "notify"
      BY <1>t, <1>14 DEF OpEstablish, TypeOK
    <2>3. cfg'[host] = ConfigFor(op.kind)
      BY <1>t, <2>1 DEF TypeOK
    <2> QED
      BY <2>1, <2>2, <2>3 DEF InsideInv, ConfigFor
  <1>15. ASSUME OpEstablishFails PROVE InsideInv'
    <2>1. op' = Free /\ UNCHANGED <<engine, host, cfg>>
      BY <1>15 DEF OpEstablishFails, service
    <2> QED
      BY <2>1 DEF InsideInv, Free
  <1>16. ASSUME OpNotify PROVE InsideInv'
    <2>1. UNCHANGED <<engine, host, cfg>> /\ op.stage = "notify"
      BY <1>16 DEF OpNotify, OnTunReplaced
    <2>2. \/ op' = Free
          \/ op'.kind = op.kind /\ op'.stage \in {"start", "attach"}
      <3>1. \/ op' = Free
            \/ op' = [op EXCEPT !.stage = "start"]
            \/ op' = [op EXCEPT !.stage = "attach"]
        BY <1>16 DEF OpNotify
      <3> QED
        BY <1>t, <3>1 DEF TypeOK
    <2> QED
      BY <2>1, <2>2 DEF InsideInv, Free
  <1>17. ASSUME OpStartMux PROVE InsideInv'
    <2>1. UNCHANGED <<engine, host, cfg>> /\ op.stage = "start"
      BY <1>17 DEF OpStartMux, service
    <2>2. \/ op' = Free
          \/ op'.kind = op.kind /\ op'.stage = "attach"
      BY <1>t, <1>17 DEF OpStartMux, TypeOK
    <2> QED
      BY <2>1, <2>2 DEF InsideInv, Free
  <1>18. ASSUME OpStartMuxFails PROVE InsideInv'
    <2>1. op.kind \in {"first", "cold"} /\ mux = 0
      BY <1>t, <1>18 DEF OpStartMuxFails, OpInv
    <2>2. op' = Free /\ engine' = None
      BY <1>e, <1>18, <2>1 DEF OpStartMuxFails
    <2> QED
      BY <2>2, InsideIdle
  <1>19. ASSUME OpAttachEngine PROVE InsideInv'
    <2>1. UNCHANGED <<host, cfg>> /\ op' = Free
      BY <1>19 DEF OpAttachEngine, service
    <2>2. cfg[host] = "in"
      BY <1>t, <1>19 DEF OpAttachEngine, OpWellFormed, InsideInv
    <2> QED
      BY <2>1, <2>2 DEF InsideInv, Free
  <1>20. ASSUME OpAttachEngineFails PROVE InsideInv'
    BY <1>20, InsideIdle DEF OpAttachEngineFails, StopEngine
  <1>21. ASSUME NEW e \in Engines, Connect(e) PROVE InsideInv'
    <2>1. UNCHANGED <<engine, host, cfg>>
      BY <1>21 DEF Connect, service
    <2>2. /\ op'.kind \in {"first", "replace"}
          /\ op'.stage = "establish" \/ (op'.stage = "attach" /\ cfg[host] = "in")
      BY <1>21 DEF Connect, Begin, TunMayCover
    <2> QED
      BY <2>1, <2>2 DEF InsideInv
  <1>22. ASSUME NEW e \in Engines, RequestTun(e) PROVE InsideInv'
    BY <1>22, InsideUnseen DEF RequestTun, service
  <1>23. ASSUME NEW e \in Engines, RequestTunEnds(e) PROVE InsideInv'
    BY <1>23, InsideUnseen DEF RequestTunEnds, service
  <1>24. ASSUME NEW e \in Engines, RequestTunEstablishes(e) PROVE InsideInv'
    <2>1. /\ UNCHANGED <<op, engine, host>>
          /\ cfg' = [cfg EXCEPT ![req[e].host] = "in"]
      BY <1>24 DEF RequestTunEstablishes, Establish
    <2>2. host \in Hosts /\ cfg[host] = "in" => cfg'[host] = "in"
      BY <1>t, <2>1 DEF TypeOK
    <2>3. op.stage \in {"notify", "start", "attach"} => host \in Hosts
      BY <1>t DEF OpWellFormed
    <2> QED
      BY <1>e, <2>1, <2>2, <2>3 DEF InsideInv
  <1>25. ASSUME NEW e \in Engines, RequestTunReadsListener(e) PROVE InsideInv'
    BY <1>25, InsideUnseen DEF RequestTunReadsListener, service
  <1>26. ASSUME NEW e \in Engines, RequestTunNotifies(e) PROVE InsideInv'
    BY <1>26, InsideUnseen DEF RequestTunNotifies, OnTunReplaced
  <1>27. ASSUME SettingsChange PROVE InsideInv'
    BY <1>27, InsideUnseen DEF SettingsChange, service
  <1>28. CASE UNCHANGED vars
    BY <1>28, InsideUnseen DEF vars, service
  <1> QED
    BY <1>1, <1>2, <1>3, <1>4, <1>5, <1>6, <1>7, <1>8, <1>9, <1>10, <1>11, <1>12, <1>13,
       <1>14, <1>15, <1>16, <1>17, <1>18, <1>19, <1>20, <1>21, <1>22, <1>23, <1>24, <1>25,
       <1>26, <1>27, <1>28 DEF Next, OpStep

-----------------------------------------------------------------------------
(* The DNS stage under an engine is the one its connect() asked for.       *)

(* A step that the part about the DNS stage does not see.                  *)
LEMMA StageUnseen ==
  ASSUME StageInv, UNCHANGED <<op, engine, mux, applied, dns>>
  PROVE  StageInv'
  BY DEF StageInv, dns

(* A monitor operation that neither starts a mux nor brings an engine.     *)
LEMMA StageBegins ==
  ASSUME StageInv, op'.stage \notin {"start", "attach"}, engine' = engine \/ engine' = None,
         UNCHANGED <<mux, applied, dns>>
  PROVE  StageInv'
  BY DEF StageInv, dns

(* The mux ends, and with it the engine.                                   *)
LEMMA StageEnds ==
  ASSUME TypeOK, StageInv, mux' = 0, muxId' = 0, engine' = None, op' = Free,
         applied' = applied, dnsState' = dnsState \/ dnsState' = NoStage
  PROVE  StageInv'
  <1>1. applied \in Nat
    BY DEF TypeOK, Fd
  <1> QED
    BY <1>1 DEF StageInv, Free, NoStage

(* reconcileDnsStage() on a mux: whether it leaves the stage or installs   *)
(* one, the stage is the one the host wants now.                           *)
LEMMA Reconciled ==
  ASSUME TypeOK, StageInv, mux # 0, ReconcileDnsStage, applied' \in Nat, applied' >= applied,
         mux' # 0, op'.stage # "start"
  PROVE  StageInv'
  <1>1. /\ dnsState' = [mux |-> muxId, port |-> dnsKey]
        /\ connKey' = dnsKey /\ muxId' = muxId
        /\ stage' = IF dnsState = [mux |-> muxId, port |-> dnsKey] THEN stage ELSE dnsKey
    BY DEF ReconcileDnsStage
  <1>2. dnsState'.mux = muxId /\ dnsState'.port = dnsKey
    BY <1>1
  <1>3. stage' = dnsKey
    BY <1>1 DEF StageInv
  <1>4. muxId <= applied' /\ muxId # 0
    BY DEF StageInv, TypeOK, Fd
  <1> QED
    BY <1>1, <1>2, <1>3, <1>4 DEF StageInv

(* Every step keeps the DNS stage and what dnsStageState says of it.       *)
LEMMA NextStage ==
  ASSUME IInv, EngineInv, StageInv, [Next]_vars
  PROVE  StageInv'
  <1>t. TypeOK /\ OpWellFormed /\ ReqWellFormed /\ OpInv /\ MuxInv /\ HostInv
    BY DEF IInv, TInv
  <1>n. applied \in Nat /\ muxId \in Nat /\ dnsState.mux \in Nat /\ op.gen \in Nat
    BY <1>t DEF TypeOK, Fd
  <1>e. engine # None => mux # 0
    BY DEF EngineInv
  <1>1. ASSUME NEW h \in Hosts, AttachHost(h) PROVE StageInv'
    BY <1>1, StageUnseen DEF AttachHost
  <1>2. ASSUME NEW h \in Hosts, DetachHost(h) PROVE StageInv'
    <2>1. CASE host # h
      BY <1>2, <2>1, StageUnseen DEF DetachHost
    <2>2. CASE host = h
      BY <1>t, <1>2, <2>2, StageEnds DEF DetachHost, MonitorFree
    <2> QED
      BY <2>1, <2>2
  <1>3. ASSUME NEW h \in Hosts, OnDestroyReleasesTun(h) PROVE StageInv'
    BY <1>3, StageUnseen DEF OnDestroyReleasesTun
  <1>4. ASSUME OnRevoked PROVE StageInv'
    BY <1>t, <1>4, StageEnds DEF OnRevoked, DropMux, MonitorFree
  <1>5. ASSUME Teardown PROVE StageInv'
    BY <1>5, StageUnseen DEF Teardown, TeardownStopsEngine, TeardownStopsMux
  <1>6. ASSUME DisconnectNone PROVE StageInv'
    BY <1>t, <1>6, StageEnds DEF DisconnectNone, StopEngine, DropMux, MonitorFree
  <1>7. ASSUME ReleaseHeldTunnel PROVE StageInv'
    BY <1>t, <1>7, StageEnds DEF ReleaseHeldTunnel, HasHeldTunnel, DropMux, MonitorFree
  <1>8. ASSUME HoldForBlocking PROVE StageInv'
    <2>1. op'.stage \notin {"start", "attach"}
      BY <1>8 DEF HoldForBlocking, Begin, MonitorFree, Free
    <2> QED
      BY <1>8, <2>1, StageBegins DEF HoldForBlocking
  <1>9. ASSUME BeginBlocking PROVE StageInv'
    <2>1. op'.stage = "establish"
      BY <1>9 DEF BeginBlocking, Begin
    <2> QED
      BY <1>9, <2>1, StageBegins DEF BeginBlocking
  <1>10. ASSUME NEW kind \in {"handover", "block"}, DisconnectHolding(kind) PROVE StageInv'
    <2>1. op'.stage \notin {"start", "attach"} /\ engine' = None
      BY <1>10 DEF DisconnectHolding, Begin, MonitorFree, Free, StopEngine
    <2> QED
      BY <1>10, <2>1, StageBegins DEF DisconnectHolding
  <1>11. ASSUME ConnectWithoutHost PROVE StageInv'
    BY <1>11, StageUnseen DEF ConnectWithoutHost
  <1>12. ASSUME WatchdogFires PROVE StageInv'
    BY <1>12, StageUnseen DEF WatchdogFires
  <1>13. ASSUME OnHoldExpired PROVE StageInv'
    <2>1. CASE UNCHANGED <<mux, dns>>
      BY <1>13, <2>1, StageUnseen DEF OnHoldExpired
    <2>2. CASE HasHeldTunnel /\ DropMux
      BY <1>t, <1>13, <2>2, StageEnds DEF OnHoldExpired, HasHeldTunnel, DropMux, MonitorFree
    <2> QED
      BY <1>13, <2>1, <2>2 DEF OnHoldExpired
  <1>14. ASSUME OpEstablish PROVE StageInv'
    <2>1. op'.stage = "notify"
      BY <1>t, <1>14 DEF OpEstablish, TypeOK
    <2> QED
      BY <1>14, <2>1, StageBegins DEF OpEstablish
  <1>15. ASSUME OpEstablishFails PROVE StageInv'
    <2>1. op'.stage = "none"
      BY <1>15 DEF OpEstablishFails, Free
    <2> QED
      BY <1>15, <2>1, StageBegins DEF OpEstablishFails
  <1>16. ASSUME OpNotify PROVE StageInv'
    <2>1. /\ engine' = engine /\ op.stage = "notify" /\ op.gen > applied
          /\ OnTunReplaced(host, op.gen)
      BY <1>t, <1>16 DEF OpNotify, OpInv
    <2>2. ~Stale(host, op.gen)
      BY <1>n, <2>1 DEF Stale
    <2>3. applied' = op.gen /\ (mux' = 0 <=> mux = 0)
      BY <1>n, <2>1, <2>2 DEF OnTunReplaced
    <2>4. CASE op.kind = "replace"
      <3>1. mux # 0 /\ ReconcileDnsStage /\ op' = [op EXCEPT !.stage = "attach"]
        BY <1>16, <2>4 DEF OpNotify, EngineInv
      <3>2. op'.stage # "start"
        BY <1>t, <3>1 DEF TypeOK
      <3> QED
        BY <1>t, <1>n, <2>1, <2>3, <3>1, <3>2, Reconciled
    <2>5. CASE op.kind # "replace"
      <3>1. UNCHANGED dns /\ (op' = Free \/ op' = [op EXCEPT !.stage = "start"])
        BY <1>16, <2>5 DEF OpNotify
      <3>2. op'.stage # "attach" /\ (op'.stage = "start" => op'.gen = op.gen)
        BY <1>t, <3>1 DEF TypeOK, Free
      <3> QED
        BY <1>n, <2>1, <2>3, <3>1, <3>2 DEF StageInv, dns
    <2> QED
      BY <2>4, <2>5
  <1>17. ASSUME OpStartMux PROVE StageInv'
    <2>1. /\ op.stage = "start" /\ op.gen = applied /\ op.gen # 0
          /\ mux = 0 /\ engine' = None /\ dnsState.mux < op.gen
      BY <1>t, <1>e, <1>17, Constants DEF OpStartMux, OpInv, OpWellFormed, StageInv
    <2>2. mux' = op.gen /\ muxId' = op.gen /\ applied' = applied
      BY <1>17 DEF OpStartMux
    <2>3. CASE op.kind = "first"
      <3>1. /\ stage' = dnsKey /\ connKey' = dnsKey
            /\ dnsState' = [mux |-> op.gen, port |-> dnsKey]
            /\ op' = [op EXCEPT !.stage = "attach"]
        BY <1>17, <2>3 DEF OpStartMux
      <3>2. op'.stage = "attach" /\ dnsState'.mux = op.gen /\ dnsState'.port = dnsKey
        BY <1>t, <3>1 DEF TypeOK
      <3> QED
        BY <1>n, <2>1, <2>2, <3>1, <3>2 DEF StageInv
    <2>4. CASE op.kind # "first"
      <3>1. op' = Free /\ dnsState' = dnsState
        BY <1>17, <2>4 DEF OpStartMux
      <3> QED
        BY <1>n, <2>1, <2>2, <3>1 DEF StageInv, Free
    <2> QED
      BY <2>3, <2>4
  <1>18. ASSUME OpStartMuxFails PROVE StageInv'
    <2>1. op'.stage = "none"
      BY <1>18 DEF OpStartMuxFails, Free
    <2> QED
      BY <1>18, <2>1, StageBegins DEF OpStartMuxFails
  <1>19. ASSUME OpAttachEngine PROVE StageInv'
    <2>1. op.stage = "attach" /\ op' = Free /\ UNCHANGED <<mux, applied, dns>>
      BY <1>19 DEF OpAttachEngine
    <2> QED
      BY <2>1 DEF StageInv, Free, dns
  <1>20. ASSUME OpAttachEngineFails PROVE StageInv'
    <2>1. op'.stage = "none" /\ engine' = None
      BY <1>20 DEF OpAttachEngineFails, Free, StopEngine
    <2> QED
      BY <1>20, <2>1, StageBegins DEF OpAttachEngineFails
  <1>21. ASSUME NEW e \in Engines, Connect(e) PROVE StageInv'
    <2>1. UNCHANGED <<engine, mux, applied>>
      BY <1>21 DEF Connect
    <2>2. CASE mux # 0 /\ op'.stage = "attach" /\ ReconcileDnsStage
      BY <1>t, <1>n, <2>1, <2>2, Reconciled
    <2>3. CASE op'.stage = "establish" /\ UNCHANGED dns
      BY <2>1, <2>3, StageBegins
    <2> QED
      BY <1>21, <2>2, <2>3 DEF Connect, Begin
  <1>22. ASSUME NEW e \in Engines, RequestTun(e) PROVE StageInv'
    BY <1>22, StageUnseen DEF RequestTun
  <1>23. ASSUME NEW e \in Engines, RequestTunEnds(e) PROVE StageInv'
    BY <1>23, StageUnseen DEF RequestTunEnds
  <1>24. ASSUME NEW e \in Engines, RequestTunEstablishes(e) PROVE StageInv'
    BY <1>24, StageUnseen DEF RequestTunEstablishes
  <1>25. ASSUME NEW e \in Engines, RequestTunReadsListener(e) PROVE StageInv'
    BY <1>25, StageUnseen DEF RequestTunReadsListener
  <1>26. ASSUME NEW e \in Engines, RequestTunNotifies(e) PROVE StageInv'
    <2>1. /\ OnTunReplaced(req[e].host, req[e].gen) /\ UNCHANGED <<op, engine, dns>>
          /\ op = Free /\ req[e].gen \in Gen /\ req[e].gen # 0
      BY <1>t, <1>26, Constants DEF RequestTunNotifies, MonitorFree, ReqWellFormed
    <2>2. /\ mux' = 0 <=> mux = 0
          /\ applied' \in Nat /\ applied' >= applied
      BY <1>n, <2>1, ManagerAssumptions DEF OnTunReplaced, Stale, Gen
    <2> QED
      BY <1>n, <2>1, <2>2 DEF StageInv, dns, Free
  <1>27. ASSUME SettingsChange PROVE StageInv'
    BY <1>27, StageUnseen DEF SettingsChange
  <1>28. CASE UNCHANGED vars
    BY <1>28, StageUnseen DEF vars
  <1> QED
    BY <1>1, <1>2, <1>3, <1>4, <1>5, <1>6, <1>7, <1>8, <1>9, <1>10, <1>11, <1>12, <1>13,
       <1>14, <1>15, <1>16, <1>17, <1>18, <1>19, <1>20, <1>21, <1>22, <1>23, <1>24, <1>25,
       <1>26, <1>27, <1>28 DEF Next, OpStep

-----------------------------------------------------------------------------
(* A superseded descriptor is let go by the replacement that superseded it.*)

(* A step that opens no TUN: each service keeps its live one and may let   *)
(* superseded ones go, or lets go of everything.                           *)
Released ==
  \A h \in Hosts :
    \/ /\ live'[h] = live[h]
       /\ \A g \in Gen : superseded'[h][g] = superseded[h][g] \/ superseded'[h][g] = 0
    \/ /\ live'[h] = 0
       /\ \A g \in Gen : superseded'[h][g] = 0

(* Only the two calls of establish() open a TUN.                           *)
LEMMA ServiceReleases ==
  ASSUME UNCHANGED service
  PROVE  Released
  BY DEF Released, service

(* releasePreviousTun() opens no TUN and closes exactly one entry.         *)
LEMMA ReleasePreviousReleases ==
  ASSUME TypeOK, NEW h \in Hosts, NEW g \in Gen, ReleasePrevious(h, g), live' = live
  PROVE  Released /\ superseded'[h][g] = 0
  <1>1. superseded' = [superseded EXCEPT ![h][g] = 0]
    BY DEF ReleasePrevious
  <1>2. \A k \in Hosts, i \in Gen :
          superseded'[k][i] = IF k = h /\ i = g THEN 0 ELSE superseded[k][i]
    BY <1>1 DEF TypeOK
  <1> QED
    BY <1>2 DEF Released

(* releaseTun() opens no TUN and leaves the other services alone.          *)
LEMMA ReleaseTunReleases ==
  ASSUME TypeOK, NEW h \in Hosts, ReleaseTun(h)
  PROVE  Released /\ \A k \in Hosts \ {h} : live'[k] = live[k]
  <1>1. /\ live' = [live EXCEPT ![h] = 0]
        /\ superseded' = [superseded EXCEPT ![h] = [g \in Gen |-> 0]]
    BY DEF ReleaseTun
  <1> QED
    BY <1>1 DEF TypeOK, Released

(* closeTun() opens no TUN.                                                *)
LEMMA CloseTunReleases ==
  ASSUME TypeOK, CloseTun
  PROVE  Released
  <1>1. CASE tunnelUp /\ host # None
    <2>1. host \in Hosts /\ ReleaseTun(host)
      BY <1>1 DEF TypeOK, CloseTun
    <2> QED
      BY <2>1, ReleaseTunReleases
  <1>2. CASE ~(tunnelUp /\ host # None)
    BY <1>2, ServiceReleases DEF CloseTun
  <1> QED
    BY <1>1, <1>2

(* What establish() changes, entry by entry.                               *)
LEMMA Established ==
  ASSUME TypeOK, NEW h \in Hosts, NEW c \in Cfg, Establish(h, c)
  PROVE  /\ gen \in Nat /\ gen + 1 \in Gen
         /\ \A k \in Hosts : live'[k] = IF k = h THEN gen + 1 ELSE live[k]
         /\ \A k \in Hosts, g \in Gen :
              superseded'[k][g] = IF k = h /\ g = gen + 1 THEN live[h] ELSE superseded[k][g]
  <1>1. gen \in Nat /\ gen + 1 \in Gen
    BY ManagerAssumptions DEF TypeOK, Establish, Gen, Fd
  <1>2. /\ live' = [live EXCEPT ![h] = gen + 1]
        /\ superseded' = [superseded EXCEPT ![h][gen + 1] = live[h]]
    BY DEF Establish
  <1> QED
    BY <1>1, <1>2 DEF TypeOK

(* A step that opens no TUN orphans none if it ends no replacement but     *)
(* those whose entry it closes.                                            *)
LEMMA OrphansKept ==
  ASSUME NoOrphanedTun, Released,
         \A h \in Hosts, g \in Gen :
           InFlight(h, g) => InFlight(h, g)' \/ superseded'[h][g] = 0
  PROVE  NoOrphanedTun'
  BY DEF NoOrphanedTun, Released

(* An operation other than a notification ends no replacement.             *)
LEMMA FlightKept ==
  ASSUME op.stage # "notify" \/ UNCHANGED <<op, host>>, req' = req
  PROVE  /\ \A h \in Hosts, g \in Gen : InFlight(h, g) => InFlight(h, g)'
         /\ \A h, g : ReqInFlight(h, g) => ReqInFlight(h, g)'
  BY DEF InFlight, ReqInFlight

(* A step of an engine's thread ends at most its own replacement.          *)
LEMMA OthersKept ==
  ASSUME NEW e \in Engines, UNCHANGED <<op, host>>,
         \A d \in Engines \ {e} : req'[d] = req[d]
  PROVE  /\ \A h, g : ReqInFlight(h, g) =>
                        \/ ReqInFlight(h, g)'
                        \/ req[e].pc \in {"established", "notify"} /\ req[e].host = h
                             /\ req[e].gen = g
         /\ \A h, g : InFlight(h, g) =>
                        \/ InFlight(h, g)'
                        \/ req[e].pc \in {"established", "notify"} /\ req[e].host = h
                             /\ req[e].gen = g
  BY DEF InFlight, ReqInFlight

(* A step of the manager or of the service that neither opens a TUN nor    *)
(* reports one.                                                            *)
Quiet ==
  /\ Released /\ req' = req
  /\ op.stage # "notify" \/ UNCHANGED <<op, host>>

(* A step is quiet, a monitor operation's establish() or notification, or  *)
(* one of an engine's thread.                                              *)
LEMMA StepKinds ==
  ASSUME TypeOK, [Next]_vars
  PROVE  \/ Quiet \/ OpEstablish \/ OpNotify
         \/ \E e \in Engines :
              \/ RequestTun(e) \/ RequestTunEnds(e) \/ RequestTunEstablishes(e)
              \/ RequestTunReadsListener(e) \/ RequestTunNotifies(e)
  <1>f. MonitorFree => op.stage # "notify"
    BY DEF MonitorFree, Free
  <1>1. ASSUME NEW h \in Hosts, AttachHost(h) PROVE Quiet
    BY <1>f, <1>1, ServiceReleases DEF AttachHost, Quiet
  <1>2. ASSUME NEW h \in Hosts, DetachHost(h) PROVE Quiet
    <2>1. Released
      BY <1>2, ServiceReleases, CloseTunReleases DEF DetachHost
    <2> QED
      BY <1>f, <1>2, <2>1 DEF DetachHost, Quiet
  <1>3. ASSUME NEW h \in Hosts, OnDestroyReleasesTun(h) PROVE Quiet
    BY <1>3, ReleaseTunReleases DEF OnDestroyReleasesTun, Quiet
  <1>4. ASSUME OnRevoked PROVE Quiet
    BY <1>f, <1>4, CloseTunReleases DEF OnRevoked, Quiet
  <1>5. ASSUME Teardown PROVE Quiet
    BY <1>5, ServiceReleases DEF Teardown, TeardownStopsEngine, TeardownStopsMux, Quiet
  <1>6. ASSUME DisconnectNone PROVE Quiet
    BY <1>f, <1>6, CloseTunReleases DEF DisconnectNone, Quiet
  <1>7. ASSUME ReleaseHeldTunnel PROVE Quiet
    BY <1>f, <1>7, CloseTunReleases DEF ReleaseHeldTunnel, Quiet
  <1>8. ASSUME HoldForBlocking PROVE Quiet
    BY <1>f, <1>8, ServiceReleases DEF HoldForBlocking, Quiet
  <1>9. ASSUME BeginBlocking PROVE Quiet
    BY <1>f, <1>9, ServiceReleases DEF BeginBlocking, Quiet
  <1>10. ASSUME NEW kind \in {"handover", "block"}, DisconnectHolding(kind) PROVE Quiet
    BY <1>f, <1>10, ServiceReleases DEF DisconnectHolding, Quiet
  <1>11. ASSUME ConnectWithoutHost PROVE Quiet
    BY <1>f, <1>11, ServiceReleases DEF ConnectWithoutHost, Quiet
  <1>12. ASSUME WatchdogFires PROVE Quiet
    BY <1>12, ServiceReleases DEF WatchdogFires, Quiet
  <1>13. ASSUME OnHoldExpired PROVE Quiet
    <2>1. Released
      BY <1>13, ServiceReleases, CloseTunReleases DEF OnHoldExpired
    <2> QED
      BY <1>13, <2>1 DEF OnHoldExpired, Quiet
  <1>14. ASSUME OpEstablishFails PROVE Quiet
    BY <1>14, ServiceReleases DEF OpEstablishFails, Quiet
  <1>15. ASSUME OpStartMux PROVE Quiet
    BY <1>15, ServiceReleases DEF OpStartMux, Quiet
  <1>16. ASSUME OpStartMuxFails PROVE Quiet
    BY <1>16, CloseTunReleases DEF OpStartMuxFails, Quiet
  <1>17. ASSUME OpAttachEngine PROVE Quiet
    BY <1>17, ServiceReleases DEF OpAttachEngine, Quiet
  <1>18. ASSUME OpAttachEngineFails PROVE Quiet
    BY <1>18, ServiceReleases DEF OpAttachEngineFails, Quiet
  <1>19. ASSUME NEW e \in Engines, Connect(e) PROVE Quiet
    BY <1>f, <1>19, ServiceReleases DEF Connect, Quiet
  <1>20. ASSUME SettingsChange PROVE Quiet
    BY <1>20, ServiceReleases DEF SettingsChange, Quiet
  <1>21. CASE UNCHANGED vars
    BY <1>21, ServiceReleases DEF vars, Quiet
  <1> QED
    BY <1>1, <1>2, <1>3, <1>4, <1>5, <1>6, <1>7, <1>8, <1>9, <1>10, <1>11, <1>12, <1>13,
       <1>14, <1>15, <1>16, <1>17, <1>18, <1>19, <1>20, <1>21 DEF Next, OpStep

(* Every step lets go of what it no longer needs: no TUN is orphaned.      *)
LEMMA NextOrphansNone ==
  ASSUME IInv, NoOrphanedTun, [Next]_vars
  PROVE  NoOrphanedTun'
  <1>t. TypeOK /\ OpWellFormed /\ ReqWellFormed
    BY DEF IInv, TInv
  <1>1. ASSUME Quiet PROVE NoOrphanedTun'
    BY <1>1, FlightKept, OrphansKept DEF Quiet
  <1>2. ASSUME OpEstablish PROVE NoOrphanedTun'
    <2>1. /\ host \in Hosts /\ ConfigFor(op.kind) \in Cfg
          /\ Establish(host, ConfigFor(op.kind)) /\ host' = host /\ req' = req
          /\ op.stage = "establish"
      BY <1>t, <1>2 DEF OpEstablish, OpWellFormed, ConfigFor, Cfg
    <2>2. op'.stage = "notify" /\ op'.gen = gen + 1
      BY <1>t, <1>2 DEF OpEstablish, TypeOK
    <2>4. \A h \in Hosts, g \in Gen : InFlight(h, g) => InFlight(h, g)'
      BY <2>1, FlightKept
    <2>5. \A h \in Hosts, g \in Gen :
            superseded'[h][g] = IF h = host /\ g = gen + 1 THEN live[host] ELSE superseded[h][g]
      BY <1>t, <2>1, Established
    <2> SUFFICES ASSUME NEW h \in Hosts, NEW g \in Gen, superseded'[h][g] # 0
                 PROVE  InFlight(h, g)'
      BY DEF NoOrphanedTun
    <2>6. CASE h = host /\ g = gen + 1
      BY <2>1, <2>2, <2>6 DEF InFlight
    <2>7. CASE ~(h = host /\ g = gen + 1)
      BY <2>4, <2>5, <2>7 DEF NoOrphanedTun
    <2> QED
      BY <2>6, <2>7
  <1>3. ASSUME OpNotify PROVE NoOrphanedTun'
    <2>1. /\ host \in Hosts /\ op.gen \in Gen /\ op.stage = "notify"
          /\ ReleasePrevious(host, op.gen) /\ live' = live /\ req' = req
      BY <1>t, <1>3 DEF OpNotify, OnTunReplaced, OpWellFormed
    <2>2. Released /\ superseded'[host][op.gen] = 0
      BY <1>t, <2>1, ReleasePreviousReleases
    <2>3. \A h \in Hosts, g \in Gen :
            InFlight(h, g) => InFlight(h, g)' \/ superseded'[h][g] = 0
      BY <2>1, <2>2 DEF InFlight
    <2> QED
      BY <2>2, <2>3, OrphansKept
  <1>4. ASSUME NEW e \in Engines, RequestTun(e) \/ RequestTunEnds(e) PROVE NoOrphanedTun'
    <2>1. /\ UNCHANGED <<service, op, host>> /\ req[e].pc \in {"idle", "asked"}
          /\ \A d \in Engines \ {e} : req'[d] = req[d]
      BY <1>t, <1>4 DEF RequestTun, RequestTunEnds, TypeOK
    <2>2. \A h \in Hosts, g \in Gen : InFlight(h, g) => InFlight(h, g)'
      BY <2>1, OthersKept
    <2> QED
      BY <2>1, <2>2, ServiceReleases, OrphansKept
  <1>5. ASSUME NEW e \in Engines, RequestTunEstablishes(e) PROVE NoOrphanedTun'
    <2>1. /\ req[e].host \in Hosts /\ "in" \in Cfg /\ Establish(req[e].host, "in")
          /\ UNCHANGED <<op, host>> /\ req[e].pc = "asked"
          /\ req'[e].pc = "established" /\ req'[e].gen = gen + 1
          /\ req'[e].host = req[e].host
          /\ \A d \in Engines \ {e} : req'[d] = req[d]
      BY <1>t, <1>5, RequestAfterEstablish DEF RequestTunEstablishes, ReqWellFormed, Cfg
    <2>3. \A h \in Hosts, g \in Gen : InFlight(h, g) => InFlight(h, g)'
      BY <2>1, OthersKept
    <2>4. \A h \in Hosts, g \in Gen :
            superseded'[h][g] = IF h = req[e].host /\ g = gen + 1 THEN live[req[e].host]
                                                                ELSE superseded[h][g]
      BY <1>t, <2>1, Established
    <2> SUFFICES ASSUME NEW h \in Hosts, NEW g \in Gen, superseded'[h][g] # 0
                 PROVE  InFlight(h, g)'
      BY DEF NoOrphanedTun
    <2>5. CASE h = req[e].host /\ g = gen + 1
      BY <2>1, <2>5 DEF InFlight
    <2>6. CASE ~(h = req[e].host /\ g = gen + 1)
      BY <2>3, <2>4, <2>6 DEF NoOrphanedTun
    <2> QED
      BY <2>5, <2>6
  <1>6. ASSUME NEW e \in Engines, RequestTunReadsListener(e) PROVE NoOrphanedTun'
    <2>1. /\ UNCHANGED <<op, host>> /\ req[e].pc = "established"
          /\ req[e].host \in Hosts /\ req[e].gen \in Gen
          /\ \A d \in Engines \ {e} : req'[d] = req[d]
      BY <1>t, <1>6 DEF RequestTunReadsListener, ReqWellFormed, TypeOK
    <2>2. CASE listener[req[e].host]
      <3>1. UNCHANGED service /\ req' = [req EXCEPT ![e].pc = "notify"]
        BY <1>6, <2>2 DEF RequestTunReadsListener
      <3>2. req'[e].pc = "notify" /\ req'[e].host = req[e].host /\ req'[e].gen = req[e].gen
        BY <1>t, <3>1 DEF TypeOK
      <3>3. \A h \in Hosts, g \in Gen : InFlight(h, g) => InFlight(h, g)'
        BY <2>1, <3>2 DEF InFlight
      <3> QED
        BY <3>1, <3>3, ServiceReleases, OrphansKept
    <2>3. CASE ~listener[req[e].host]
      <3>1. ReleasePrevious(req[e].host, req[e].gen) /\ live' = live
        BY <1>6, <2>3 DEF RequestTunReadsListener
      <3> QED
        BY <1>t, <2>1, <3>1, ReleasePreviousReleases, OthersKept, OrphansKept
    <2> QED
      BY <2>2, <2>3
  <1>7. ASSUME NEW e \in Engines, RequestTunNotifies(e) PROVE NoOrphanedTun'
    <2>1. /\ UNCHANGED <<op, host>>
          /\ req[e].host \in Hosts /\ req[e].gen \in Gen
          /\ \A d \in Engines \ {e} : req'[d] = req[d]
          /\ ReleasePrevious(req[e].host, req[e].gen) /\ live' = live
      BY <1>t, <1>7 DEF RequestTunNotifies, OnTunReplaced, ReqWellFormed, TypeOK
    <2> QED
      BY <1>t, <2>1, ReleasePreviousReleases, OthersKept, OrphansKept
  <1> QED
    BY <1>t, <1>1, <1>2, <1>3, <1>4, <1>5, <1>6, <1>7, StepKinds

-----------------------------------------------------------------------------
(* The packet path catches up with the live TUN.                           *)

(* A step that opens no TUN leaves the live one the youngest.              *)
LEMMA YoungestKept ==
  ASSUME ReqWellFormed, YoungestInv, Released,
         \A e \in Engines :
           req'[e].pc \in {"established", "notify"} =>
             /\ req[e].pc \in {"established", "notify"}
             /\ req'[e].host = req[e].host /\ req'[e].gen = req[e].gen
  PROVE  YoungestInv'
  <1>1. ASSUME NEW h \in Hosts, NEW g \in Gen, superseded'[h][g] # 0
        PROVE  superseded'[h][g] < live'[h]
    BY <1>1 DEF YoungestInv, Released
  <1>2. ASSUME NEW e \in Engines, req'[e].pc \in {"established", "notify"},
               live'[req'[e].host] # 0
        PROVE  req'[e].gen <= live'[req'[e].host]
    <2>1. /\ req[e].pc \in {"established", "notify"} /\ req[e].host \in Hosts
          /\ req'[e].host = req[e].host /\ req'[e].gen = req[e].gen
      BY <1>2 DEF ReqWellFormed
    <2>2. live'[req[e].host] = live[req[e].host]
      BY <1>2, <2>1 DEF Released
    <2> QED
      BY <1>2, <2>1, <2>2 DEF YoungestInv
  <1> QED
    BY <1>1, <1>2 DEF YoungestInv

(* A TUN just established is the youngest of all.                          *)
LEMMA YoungestAfterEstablish ==
  ASSUME IInv, YoungestInv, NEW h \in Hosts, NEW c \in Cfg, Establish(h, c),
         \A e \in Engines :
           req'[e].pc \in {"established", "notify"} =>
             \/ req'[e] = req[e]
             \/ req'[e].host = h /\ req'[e].gen = gen + 1
  PROVE  YoungestInv'
  <1>t. TypeOK /\ SInv /\ ReqInv /\ ReqWellFormed
    BY DEF IInv, TInv
  <1>n. /\ \A k \in Hosts, g \in Gen : superseded[k][g] \in Nat
        /\ \A k \in Hosts : live[k] \in Nat /\ live[k] <= gen
        /\ \A e \in Engines : req[e].gen \in Nat
    BY SMTT(30), <1>t, Numbers DEF TypeOK, SInv, Fd
  <1>1. /\ gen \in Nat /\ gen + 1 \in Gen
        /\ \A k \in Hosts : live'[k] = IF k = h THEN gen + 1 ELSE live[k]
        /\ \A k \in Hosts, g \in Gen :
             superseded'[k][g] = IF k = h /\ g = gen + 1 THEN live[h] ELSE superseded[k][g]
    BY <1>t, Established
  <1>2. ASSUME NEW k \in Hosts, NEW g \in Gen, superseded'[k][g] # 0
        PROVE  superseded'[k][g] < live'[k]
    <2>1. CASE k = h /\ g = gen + 1
      BY <1>n, <1>1, <2>1
    <2>2. CASE k = h /\ g # gen + 1
      <3>1. superseded'[k][g] = superseded[k][g] /\ superseded[k][g] < live[k]
        BY <1>1, <1>2, <2>2 DEF YoungestInv
      <3> QED
        BY <1>n, <1>1, <2>2, <3>1
    <2>3. CASE k # h
      BY <1>1, <1>2, <2>3 DEF YoungestInv
    <2> QED
      BY <2>1, <2>2, <2>3
  <1>3. ASSUME NEW e \in Engines, req'[e].pc \in {"established", "notify"},
               live'[req'[e].host] # 0
        PROVE  req'[e].gen <= live'[req'[e].host]
    <2>1. CASE req'[e].host = h /\ req'[e].gen = gen + 1
      BY <1>1, <2>1
    <2>2. CASE req'[e] = req[e]
      <3>1. req[e].host \in Hosts /\ req[e].gen <= gen
        BY <1>t, <1>3, <2>2 DEF ReqInv, ReqWellFormed
      <3>2. CASE req[e].host = h
        BY <1>n, <1>1, <2>2, <3>1, <3>2
      <3>3. CASE req[e].host # h
        BY <1>1, <1>3, <2>2, <3>1, <3>3 DEF YoungestInv
      <3> QED
        BY <3>2, <3>3
    <2> QED
      BY <1>3, <2>1, <2>2
  <1> QED
    BY <1>2, <1>3 DEF YoungestInv

(* Every step leaves the live TUN of a service its youngest.               *)
LEMMA NextYoungest ==
  ASSUME IInv, YoungestInv, [Next]_vars
  PROVE  YoungestInv'
  <1>t. TypeOK /\ OpWellFormed /\ ReqWellFormed
    BY DEF IInv, TInv
  <1>1. ASSUME Quiet PROVE YoungestInv'
    BY <1>t, <1>1, YoungestKept DEF Quiet
  <1>2. ASSUME OpEstablish PROVE YoungestInv'
    <2>1. /\ host \in Hosts /\ ConfigFor(op.kind) \in Cfg
          /\ Establish(host, ConfigFor(op.kind)) /\ req' = req
      BY <1>t, <1>2 DEF OpEstablish, OpWellFormed, ConfigFor, Cfg
    <2> QED
      BY <2>1, YoungestAfterEstablish
  <1>3. ASSUME OpNotify PROVE YoungestInv'
    <2>1. /\ host \in Hosts /\ op.gen \in Gen
          /\ ReleasePrevious(host, op.gen) /\ live' = live /\ req' = req
      BY <1>t, <1>3 DEF OpNotify, OnTunReplaced, OpWellFormed
    <2> QED
      BY <1>t, <2>1, ReleasePreviousReleases, YoungestKept
  <1>4. ASSUME NEW e \in Engines, RequestTun(e) \/ RequestTunEnds(e) PROVE YoungestInv'
    <2>1. /\ UNCHANGED service /\ req'[e].pc \in {"idle", "asked"}
          /\ \A d \in Engines \ {e} : req'[d] = req[d]
      BY <1>t, <1>4 DEF RequestTun, RequestTunEnds, Idle, TypeOK
    <2> QED
      BY <1>t, <2>1, ServiceReleases, YoungestKept
  <1>5. ASSUME NEW e \in Engines, RequestTunEstablishes(e) PROVE YoungestInv'
    <2>1. /\ req[e].host \in Hosts /\ "in" \in Cfg /\ Establish(req[e].host, "in")
          /\ req'[e].gen = gen + 1 /\ req'[e].host = req[e].host
          /\ \A d \in Engines \ {e} : req'[d] = req[d]
      BY <1>t, <1>5, RequestAfterEstablish DEF RequestTunEstablishes, ReqWellFormed, Cfg
    <2> QED
      BY <2>1, YoungestAfterEstablish
  <1>6. ASSUME NEW e \in Engines, RequestTunReadsListener(e) PROVE YoungestInv'
    <2>1. /\ req[e].pc = "established" /\ req[e].host \in Hosts /\ req[e].gen \in Gen
          /\ \A d \in Engines \ {e} : req'[d] = req[d]
      BY <1>t, <1>6 DEF RequestTunReadsListener, ReqWellFormed, TypeOK
    <2>2. CASE listener[req[e].host]
      <3>1. UNCHANGED service /\ req' = [req EXCEPT ![e].pc = "notify"]
        BY <1>6, <2>2 DEF RequestTunReadsListener
      <3>2. req'[e].host = req[e].host /\ req'[e].gen = req[e].gen
        BY <1>t, <3>1 DEF TypeOK
      <3> QED
        BY <1>t, <2>1, <3>1, <3>2, ServiceReleases, YoungestKept
    <2>3. CASE ~listener[req[e].host]
      <3>1. /\ ReleasePrevious(req[e].host, req[e].gen) /\ live' = live
            /\ req' = [req EXCEPT ![e] = Idle]
        BY <1>6, <2>3 DEF RequestTunReadsListener
      <3>2. req'[e].pc = "idle"
        BY <1>t, <3>1 DEF TypeOK, Idle
      <3> QED
        BY <1>t, <2>1, <3>1, <3>2, ReleasePreviousReleases, YoungestKept
    <2> QED
      BY <2>2, <2>3
  <1>7. ASSUME NEW e \in Engines, RequestTunNotifies(e) PROVE YoungestInv'
    <2>1. /\ req[e].host \in Hosts /\ req[e].gen \in Gen /\ req'[e].pc = "idle"
          /\ \A d \in Engines \ {e} : req'[d] = req[d]
          /\ ReleasePrevious(req[e].host, req[e].gen) /\ live' = live
      BY <1>t, <1>7 DEF RequestTunNotifies, OnTunReplaced, ReqWellFormed, TypeOK, Idle
    <2> QED
      BY <1>t, <2>1, ReleasePreviousReleases, YoungestKept
  <1> QED
    BY <1>t, <1>1, <1>2, <1>3, <1>4, <1>5, <1>6, <1>7, StepKinds

(* A step that ends the packet path, or finds none, and starts no          *)
(* replacement in the monitor.                                             *)
LEMMA BehindEnds ==
  ASSUME mux' = 0, op'.stage \notin {"notify", "start"}
  PROVE  BehindInv'
  BY DEF BehindInv

(* A monitor operation goes on without a TUN of its own.                   *)
LEMMA BehindBegins ==
  ASSUME IInv, BehindInv, op.stage # "notify", op'.stage \notin {"notify", "start"},
         UNCHANGED <<mux, host, live, req>>
  PROVE  BehindInv'
  BY DEF BehindInv, InFlight

(* A step outside the monitor that keeps the live TUN and the reports of   *)
(* the attached service.                                                   *)
LEMMA BehindSame ==
  ASSUME IInv, BehindInv, UNCHANGED <<mux, host, op>>,
         host \in Hosts => /\ live'[host] = live[host]
                           /\ \A g : ReqInFlight(host, g) => ReqInFlight(host, g)'
  PROVE  BehindInv'
  <1>1. /\ mux # 0 => host \in Hosts
        /\ op.stage \in {"notify", "start"} => host \in Hosts
    BY DEF IInv, TInv, MuxInv, OpWellFormed
  <1>2. \A g : InFlight(host, g) <=> (op.stage = "notify" /\ op.gen = g) \/ ReqInFlight(host, g)
    BY DEF InFlight, ReqInFlight
  <1>3. \A g : InFlight(host, g)' <=> (op.stage = "notify" /\ op.gen = g) \/ ReqInFlight(host, g)'
    BY DEF InFlight, ReqInFlight
  <1> QED
    BY <1>1, <1>2, <1>3 DEF BehindInv

(* Every step keeps the path on the live TUN, or the report that takes it  *)
(* there on its way.                                                       *)
LEMMA NextBehind ==
  ASSUME IInv, EngineInv, YoungestInv, BehindInv, [Next]_vars
  PROVE  BehindInv'
  <1>t. TypeOK /\ SInv /\ OpWellFormed /\ ReqWellFormed /\ OpInv /\ MuxInv /\ HostInv
    BY DEF IInv, TInv
  <1>n. /\ applied \in Nat /\ mux \in Nat /\ op.gen \in Nat
        /\ \A h \in Hosts : live[h] \in Nat
        /\ \A d \in Engines : req[d].gen \in Nat
    BY <1>t, Numbers DEF TypeOK, Fd
  <1>f. MonitorFree => op.stage = "none"
    BY DEF MonitorFree, Free
  <1>1. ASSUME NEW h \in Hosts, AttachHost(h) PROVE BehindInv'
    <2>1. mux = 0
      BY <1>t, <1>1 DEF AttachHost, ServiceMayBeCreated, HostInv, MuxInv
    <2>2. mux' = 0 /\ op'.stage = "none"
      BY <1>f, <1>1, <2>1 DEF AttachHost
    <2> QED
      BY <2>2, BehindEnds
  <1>2. ASSUME NEW h \in Hosts, DetachHost(h) PROVE BehindInv'
    <2>1. CASE host # h
      BY <1>f, <1>2, <2>1, BehindBegins DEF DetachHost, service
    <2>2. CASE host = h
      BY <1>f, <1>2, <2>2, BehindEnds DEF DetachHost
    <2> QED
      BY <2>1, <2>2
  <1>3. ASSUME NEW h \in Hosts, OnDestroyReleasesTun(h) PROVE BehindInv'
    <2>1. /\ UNCHANGED <<mux, host, op, req>> /\ ReleaseTun(h)
          /\ phase[h] = "detached"
      BY <1>3 DEF OnDestroyReleasesTun
    <2>2. host \in Hosts => live'[host] = live[host]
      BY <1>t, <2>1, ReleaseTunReleases DEF HostInv
    <2> QED
      BY <2>1, <2>2, FlightKept, BehindSame
  <1>4. ASSUME OnRevoked PROVE BehindInv'
    BY <1>f, <1>4, BehindEnds DEF OnRevoked, DropMux
  <1>5. ASSUME Teardown PROVE BehindInv'
    BY <1>5, FlightKept, BehindSame DEF Teardown, TeardownStopsEngine, TeardownStopsMux, service
  <1>6. ASSUME DisconnectNone PROVE BehindInv'
    BY <1>f, <1>6, BehindEnds DEF DisconnectNone, DropMux
  <1>7. ASSUME ReleaseHeldTunnel PROVE BehindInv'
    BY <1>f, <1>7, BehindEnds DEF ReleaseHeldTunnel, DropMux
  <1>8. ASSUME HoldForBlocking PROVE BehindInv'
    <2>1. op.stage # "notify" /\ op'.stage \notin {"notify", "start"}
      BY <1>f, <1>8 DEF HoldForBlocking, Begin
    <2> QED
      BY <1>8, <2>1, BehindBegins DEF HoldForBlocking, service
  <1>9. ASSUME BeginBlocking PROVE BehindInv'
    <2>1. op.stage # "notify" /\ op'.stage \notin {"notify", "start"}
      BY <1>f, <1>9 DEF BeginBlocking, Begin
    <2> QED
      BY <1>9, <2>1, BehindBegins DEF BeginBlocking, service
  <1>10. ASSUME NEW kind \in {"handover", "block"}, DisconnectHolding(kind) PROVE BehindInv'
    <2>1. op.stage # "notify" /\ op'.stage \notin {"notify", "start"}
      BY <1>f, <1>10 DEF DisconnectHolding, Begin
    <2> QED
      BY <1>10, <2>1, BehindBegins DEF DisconnectHolding, service
  <1>11. ASSUME ConnectWithoutHost PROVE BehindInv'
    BY <1>11, FlightKept, BehindSame DEF ConnectWithoutHost, service
  <1>12. ASSUME WatchdogFires PROVE BehindInv'
    BY <1>12, FlightKept, BehindSame DEF WatchdogFires, service
  <1>13. ASSUME OnHoldExpired PROVE BehindInv'
    <2>1. CASE UNCHANGED <<service, mux>>
      BY <1>13, <2>1, FlightKept, BehindSame DEF OnHoldExpired, service
    <2>2. CASE DropMux
      BY <1>f, <1>13, <2>2, BehindEnds DEF OnHoldExpired, DropMux
    <2> QED
      BY <1>13, <2>1, <2>2 DEF OnHoldExpired
  <1>14. ASSUME OpEstablish PROVE BehindInv'
    <2>1. /\ host \in Hosts /\ ConfigFor(op.kind) \in Cfg /\ host' = host
          /\ Establish(host, ConfigFor(op.kind))
      BY <1>t, <1>14 DEF OpEstablish, OpWellFormed, ConfigFor, Cfg
    <2>2. op'.stage = "notify" /\ op'.gen = gen + 1
      BY <1>t, <1>14 DEF OpEstablish, TypeOK
    <2>3. live'[host] = gen + 1
      BY <1>t, <2>1, Established
    <2> QED
      BY <2>1, <2>2, <2>3 DEF BehindInv, InFlight
  <1>15. ASSUME OpEstablishFails PROVE BehindInv'
    <2>1. op.stage # "notify" /\ op'.stage = "none"
      BY <1>15 DEF OpEstablishFails, Free
    <2> QED
      BY <1>15, <2>1, BehindBegins DEF OpEstablishFails, service
  <1>16. ASSUME OpNotify PROVE BehindInv'
    <2>1. /\ op.stage = "notify" /\ op.gen > applied /\ OnTunReplaced(host, op.gen)
          /\ UNCHANGED <<host, live, req>>
      BY <1>t, <1>16 DEF OpNotify, OpInv, OnTunReplaced
    <2>2. mux' = 0 \/ mux' = op.gen
      BY <1>n, <2>1 DEF OnTunReplaced, Stale
    <2>3. op'.stage = "start" \/ op'.stage = "attach" \/ op'.stage = "none"
      <3>1. \/ op' = Free
            \/ op' = [op EXCEPT !.stage = "start"]
            \/ op' = [op EXCEPT !.stage = "attach"]
        BY <1>16 DEF OpNotify
      <3> QED
        BY <1>t, <3>1 DEF TypeOK, Free
    <2>4. op'.stage = "start" => op'.gen = op.gen
      <3>1. \/ op' = Free
            \/ op' = [op EXCEPT !.stage = "start"]
            \/ op' = [op EXCEPT !.stage = "attach"]
        BY <1>16 DEF OpNotify
      <3> QED
        BY <1>t, <3>1 DEF TypeOK, Free
    <2>5. op.gen = live[host] \/ ReqInFlight(host, live[host])
      BY <2>1 DEF BehindInv
    <2>6. /\ ReqInFlight(host, live[host]) => ReqInFlight(host, live[host])'
          /\ ReqInFlight(host, live[host])' => InFlight(host, live[host])'
      BY <2>1 DEF ReqInFlight, InFlight
    <2> QED
      BY <2>1, <2>2, <2>3, <2>4, <2>5, <2>6 DEF BehindInv
  <1>17. ASSUME OpStartMux PROVE BehindInv'
    <2>1. op.stage = "start" /\ mux' = op.gen /\ UNCHANGED <<host, live, req>>
      BY <1>17 DEF OpStartMux, service
    <2>2. op'.stage \notin {"notify", "start"}
      <3>1. op' = Free \/ op' = [op EXCEPT !.stage = "attach"]
        BY <1>17 DEF OpStartMux
      <3> QED
        BY <1>t, <3>1 DEF TypeOK, Free
    <2>3. op.gen = live[host] \/ ReqInFlight(host, live[host])
      BY <2>1 DEF BehindInv
    <2>4. ReqInFlight(host, live[host]) => InFlight(host, live[host])'
      BY <2>1 DEF ReqInFlight, InFlight
    <2> QED
      BY <2>1, <2>2, <2>3, <2>4 DEF BehindInv
  <1>18. ASSUME OpStartMuxFails PROVE BehindInv'
    <2>1. mux' = 0 /\ op'.stage = "none"
      BY <1>t, <1>18 DEF OpStartMuxFails, OpInv, Free
    <2> QED
      BY <2>1, BehindEnds
  <1>19. ASSUME OpAttachEngine PROVE BehindInv'
    <2>1. op.stage # "notify" /\ op'.stage = "none"
      BY <1>19 DEF OpAttachEngine, Free
    <2> QED
      BY <1>19, <2>1, BehindBegins DEF OpAttachEngine, service
  <1>20. ASSUME OpAttachEngineFails PROVE BehindInv'
    <2>1. op.stage # "notify" /\ op'.stage = "none"
      BY <1>20 DEF OpAttachEngineFails, Free
    <2> QED
      BY <1>20, <2>1, BehindBegins DEF OpAttachEngineFails, service
  <1>21. ASSUME NEW e \in Engines, Connect(e) PROVE BehindInv'
    <2>1. op.stage # "notify" /\ op'.stage \notin {"notify", "start"}
      BY <1>f, <1>21 DEF Connect, Begin
    <2> QED
      BY <1>21, <2>1, BehindBegins DEF Connect, service
  <1>22. ASSUME NEW e \in Engines, RequestTun(e) \/ RequestTunEnds(e) PROVE BehindInv'
    <2>1. /\ UNCHANGED <<mux, host, op, live>> /\ req[e].pc \in {"idle", "asked"}
          /\ \A d \in Engines \ {e} : req'[d] = req[d]
      BY <1>t, <1>22 DEF RequestTun, RequestTunEnds, TypeOK, service
    <2> QED
      BY <2>1, OthersKept, BehindSame
  <1>23. ASSUME NEW e \in Engines, RequestTunEstablishes(e) PROVE BehindInv'
    <2>1. /\ req[e].host \in Hosts /\ "in" \in Cfg /\ Establish(req[e].host, "in")
          /\ UNCHANGED <<op, host, mux>> /\ req[e].pc = "asked"
          /\ req'[e].pc = "established" /\ req'[e].gen = gen + 1
          /\ req'[e].host = req[e].host
          /\ \A d \in Engines \ {e} : req'[d] = req[d]
      BY <1>t, <1>23, RequestAfterEstablish DEF RequestTunEstablishes, ReqWellFormed, Cfg
    <2>2. \A k \in Hosts : live'[k] = IF k = req[e].host THEN gen + 1 ELSE live[k]
      BY <1>t, <2>1, Established
    <2>3. CASE host = req[e].host
      <3>1. live'[host] = gen + 1
        BY <2>1, <2>2, <2>3
      <3>2. ReqInFlight(host, live[host])' /\ InFlight(host, live[host])'
        BY <2>1, <2>3, <3>1 DEF ReqInFlight, InFlight
      <3> QED
        BY <3>2 DEF BehindInv
    <2>4. CASE host # req[e].host
      <3>1. host \in Hosts => live'[host] = live[host]
        BY <2>2, <2>4
      <3>2. \A g : ReqInFlight(host, g) => ReqInFlight(host, g)'
        BY <2>1, OthersKept
      <3> QED
        BY <2>1, <3>1, <3>2, BehindSame
    <2> QED
      BY <2>3, <2>4
  <1>24. ASSUME NEW e \in Engines, RequestTunReadsListener(e) PROVE BehindInv'
    <2>1. /\ UNCHANGED <<mux, host, op, live>> /\ req[e].pc = "established"
          /\ req[e].host \in Hosts
          /\ \A d \in Engines \ {e} : req'[d] = req[d]
      BY <1>t, <1>24 DEF RequestTunReadsListener, ReqWellFormed, TypeOK, service
    <2>2. CASE listener[req[e].host]
      <3>1. req' = [req EXCEPT ![e].pc = "notify"]
        BY <1>24, <2>2 DEF RequestTunReadsListener
      <3>2. req'[e].pc = "notify" /\ req'[e].host = req[e].host /\ req'[e].gen = req[e].gen
        BY <1>t, <3>1 DEF TypeOK
      <3>3. \A g : ReqInFlight(host, g) => ReqInFlight(host, g)'
        BY <2>1, <3>2 DEF ReqInFlight
      <3> QED
        BY <2>1, <3>3, BehindSame
    <2>3. CASE ~listener[req[e].host]
      <3>1. req[e].host # host
        BY <1>t, <2>1, <2>3 DEF HostInv
      <3> QED
        BY <2>1, <3>1, OthersKept, BehindSame
    <2> QED
      BY <2>2, <2>3
  <1>25. ASSUME NEW e \in Engines, RequestTunNotifies(e) PROVE BehindInv'
    <2>1. /\ op = Free /\ UNCHANGED <<host, op, live>> /\ req[e].pc = "notify"
          /\ req[e].host \in Hosts
          /\ \A d \in Engines \ {e} : req'[d] = req[d]
          /\ OnTunReplaced(req[e].host, req[e].gen)
      BY <1>t, <1>25 DEF RequestTunNotifies, MonitorFree, OnTunReplaced, ReqWellFormed, TypeOK
    <2>2. op'.stage = "none" /\ op.stage = "none"
      BY <2>1 DEF Free
    <2>3. CASE mux = 0
      <3>1. mux' = 0
        BY <2>1, <2>3 DEF OnTunReplaced
      <3> QED
        BY <2>2, <3>1, BehindEnds
    <2>4. CASE mux # 0 /\ req[e].host # host
      <3>1. mux' = mux
        BY <2>1, <2>4 DEF OnTunReplaced, Stale
      <3> QED
        BY <2>1, <2>4, <3>1, OthersKept, BehindSame
    <2>5. CASE mux # 0 /\ req[e].host = host
      <3>1. mux = applied /\ host \in Hosts /\ mux \in H[host]
        BY <1>t, <2>5 DEF MuxInv
      <3>2. mux <= live[host] /\ live[host] # 0
        <4>1. mux = live[host] \/ \E g \in Gen : mux = superseded[host][g]
          BY <3>1 DEF H, Held
        <4> QED
          BY <1>n, <2>5, <3>1, <4>1 DEF YoungestInv
      <3>3. req[e].gen <= live[host]
        BY <2>1, <2>5, <3>2 DEF YoungestInv
      <3>4. mux' = IF req[e].gen <= applied THEN mux ELSE req[e].gen
        BY <1>n, <2>1, <2>5 DEF OnTunReplaced, Stale
      <3>5. CASE mux' = live[host]
        BY <2>1, <2>2, <3>5 DEF BehindInv
      <3>6. CASE mux' # live[host]
        <4>1. mux # live[host] /\ req[e].gen # live[host]
          BY <1>n, <3>1, <3>2, <3>3, <3>4, <3>6
        <4>2. InFlight(host, live[host])
          BY <2>5, <4>1 DEF BehindInv
        <4>3. InFlight(host, live[host])'
          <5>1. PICK g : g = live[host]
            OBVIOUS
          <5>2. InFlight(host, g)'
            BY <2>1, <4>1, <4>2, <5>1, OthersKept
          <5> QED
            BY <2>1, <5>1, <5>2
        <4> QED
          BY <2>2, <4>3 DEF BehindInv
      <3> QED
        BY <3>5, <3>6
    <2> QED
      BY <2>3, <2>4, <2>5
  <1>26. ASSUME SettingsChange PROVE BehindInv'
    BY <1>26, FlightKept, BehindSame DEF SettingsChange, service
  <1>27. CASE UNCHANGED vars
    BY <1>27, FlightKept, BehindSame DEF vars, service
  <1> QED
    BY <1>1, <1>2, <1>3, <1>4, <1>5, <1>6, <1>7, <1>8, <1>9, <1>10, <1>11, <1>12, <1>13,
       <1>14, <1>15, <1>16, <1>17, <1>18, <1>19, <1>20, <1>21, <1>22, <1>23, <1>24, <1>25,
       <1>26, <1>27 DEF Next, OpStep

-----------------------------------------------------------------------------
(* The theorems.                                                           *)

RInv == IInv /\ AbandonedInv /\ EngineInv /\ NoOrphanedTun /\ YoungestInv /\ BehindInv /\ InsideInv /\ StageInv

(* RInv holds before any service exists and every step keeps it.           *)
LEMMA ReplacementInductive ==
  /\ Init => RInv
  /\ RInv /\ [Next]_vars => RInv'
  <1>1. ASSUME Init PROVE RInv
    <2>1. IInv /\ AbandonedInv /\ EngineInv
      BY <1>1, InitSafe DEF Init, AbandonedInv, EngineInv, Free
    <2>2. NoOrphanedTun /\ YoungestInv
      BY <1>1 DEF Init, NoOrphanedTun, YoungestInv, Idle
    <2>3. BehindInv /\ InsideInv /\ StageInv
      BY <1>1 DEF Init, BehindInv, InsideInv, StageInv, Free, NoStage
    <2> QED
      BY <2>1, <2>2, <2>3 DEF RInv
  <1>2. ASSUME RInv, [Next]_vars PROVE RInv'
    BY <1>2, NextSafe, NextAbandoned, NextOnPath, NextOrphansNone, NextYoungest, NextBehind, NextInside,
       NextStage DEF RInv
  <1> QED
    BY <1>1, <1>2

(* No interleaving of requestTun's threads, of the manager's operations and*)
(* of the service's end leaks a superseded descriptor: the replacement that*)
(* superseded it is still on its way to releasePreviousTun().              *)
THEOREM ReplacedTunsAreReleased == Spec => []NoOrphanedTun
  <1>1. RInv => NoOrphanedTun
    BY DEF RInv
  <1> QED
    BY <1>1, ReplacementInductive, PTL DEF Spec

(* When requestTun's threads have all reported, the pumps are on the live  *)
(* TUN, in whatever order onTunReplaced() saw the reports.                 *)
THEOREM ManagerPathCatchesUp == Spec => []PacketPathCatchesUp
  <1>1. RInv => PacketPathCatchesUp
    BY DEF RInv, BehindInv, PacketPathCatchesUp, InFlight, MonitorFree, Free
  <1> QED
    BY <1>1, ReplacementInductive, PTL DEF Spec

(* The exclusion of our own package ends with the hold it was made for:    *)
(* connect() never attaches an engine to a TUN that leaves us out, and     *)
(* nothing takes us out of it while the engine is attached.                *)
THEOREM EngineKeepsSelfInside == Spec => []SelfInsideWithEngine
  <1>1. RInv => SelfInsideWithEngine
    BY DEF RInv, InsideInv, SelfInsideWithEngine
  <1> QED
    BY <1>1, ReplacementInductive, PTL DEF Spec

(* Under an engine the mux intercepts DNS as the last connect() asked,     *)
(* whichever operation built the mux and whatever dnsStageState had been   *)
(* left saying.                                                            *)
THEOREM EngineHasItsDnsStage == Spec => []DnsStageAsConnected
  <1>1. RInv => DnsStageAsConnected
    BY DEF RInv, StageInv, DnsStageAsConnected
  <1> QED
    BY <1>1, ReplacementInductive, PTL DEF Spec

=============================================================================
