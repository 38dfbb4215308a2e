------------------------ MODULE TunnelManagerProofs ------------------------
(***************************************************************************)
(* Theorems about TunnelManager, for every set of services and engines and *)
(* every bound on the generations.                                         *)
(***************************************************************************)
EXTENDS TunnelManager, SequenceTheorems, TLAPS

(* The operations of a live connect carry the engine to start.             *)
OpWellFormed ==
  /\ op.kind \in {"first", "replace"} => op.eng \in Engines
  /\ op.stage \in {"start", "notify", "establish", "attach"} => host \in Hosts
  /\ op.stage \in {"start", "notify"} => op.gen \in Gen
  /\ op.stage = "attach" => op.kind \in {"first", "replace"}

ReqWellFormed ==
  \A e \in Engines :
    /\ req[e].pc # "idle" => req[e].host \in Hosts
    /\ req[e].pc \in {"established", "notify"} => req[e].gen \in Gen

TInv == TypeOK /\ OpWellFormed /\ ReqWellFormed

ServiceTyped ==
  /\ open \subseteq Gen /\ gen \in Fd /\ live \in [Hosts -> Fd]
  /\ cfg \in [Hosts -> Cfg] /\ superseded \in [Hosts -> [Gen -> Fd]]

(* The names the state is made of.                                         *)
OpKind  == {"free", "first", "replace", "handover", "block", "convert", "cold"}
OpStage == {"none", "establish", "notify", "start", "attach"}
OpType  == [kind : OpKind, stage : OpStage, eng : Engines \cup {None}, gen : Fd]
ReqType == [pc : {"idle", "asked", "established", "notify"},
            host : Hosts \cup {None}, gen : Fd]
DnsType == [mux : Fd, port : Ports \cup {0}]
TaskType == [eng : Engines \cup {None}, mux : Fd]

(* Null is a descriptor value but no generation, and the idle records are typed.*)
LEMMA Constants ==
  /\ 0 \in Fd /\ Gen \subseteq Fd /\ 0 \notin Gen /\ 0 \in Ports \cup {0}
  /\ Free \in OpType /\ Idle \in ReqType /\ NoStage \in DnsType
  <1>1. 0 \in Fd /\ Gen \subseteq Fd /\ 0 \notin Gen
    BY ManagerAssumptions DEF Gen, Fd
  <1> QED
    BY <1>1 DEF Free, Idle, NoStage, OpType, OpKind, OpStage, ReqType, DnsType

(* The program starts typed.                                               *)
LEMMA InitTyped == Init => TInv
  <1> SUFFICES ASSUME Init PROVE TInv
    OBVIOUS
  <1>1. /\ open \subseteq Gen /\ gen \in Fd /\ mux \in Fd /\ applied \in Fd
        /\ live \in [Hosts -> Fd] /\ superseded \in [Hosts -> [Gen -> Fd]]
        /\ muxId \in Fd /\ stage \in Ports \cup {0} /\ connKey \in Ports \cup {0}
    BY Constants DEF Init
  <1>2. dnsState \in DnsType /\ op \in OpType /\ req \in [Engines -> ReqType]
    BY Constants DEF Init
  <1>3. teardown \in Seq(TaskType) /\ orphans \subseteq Gen
    BY DEF Init
  <1>4. /\ phase \in [Hosts -> {"new", "up", "detached", "gone"}]
        /\ cfg \in [Hosts -> Cfg] /\ listener \in [Hosts -> BOOLEAN]
        /\ host \in Hosts \cup {None} /\ engine \in Engines \cup {None}
        /\ core \in [Engines -> Hosts \cup {None}]
    BY DEF Init, Cfg
  <1>5. /\ tunnelUp \in BOOLEAN /\ firing \in BOOLEAN /\ blocking \in BOOLEAN
        /\ dnsKey \in Ports \cup {0} /\ holdExpiry \in {"none", "armed", "fired"}
        /\ hold \in {"none", "handover", "blocking"}
    BY DEF Init
  <1>6. TypeOK
    BY <1>1, <1>2, <1>3, <1>4, <1>5 DEF TypeOK, OpType, OpKind, OpStage, ReqType, DnsType, TaskType
  <1>7. OpWellFormed /\ ReqWellFormed
    BY DEF Init, OpWellFormed, ReqWellFormed, Free, Idle
  <1> QED
    BY <1>6, <1>7 DEF TInv

(* Type facts about the service's descriptor operations.                   *)
LEMMA EstablishTyped ==
  ASSUME TypeOK, NEW h \in Hosts, NEW c \in Cfg, Establish(h, c)
  PROVE  /\ open' \subseteq Gen /\ gen' \in Fd /\ live' \in [Hosts -> Fd]
         /\ cfg' \in [Hosts -> Cfg] /\ superseded' \in [Hosts -> [Gen -> Fd]]
         /\ gen' = gen + 1 /\ gen' \in Gen
  <1>1. gen + 1 \in Gen /\ gen + 1 \in Fd
    BY ManagerAssumptions DEF TypeOK, Establish, Gen, Fd
  <1>2. superseded' \in [Hosts -> [Gen -> Fd]]
    BY <1>1 DEF TypeOK, Establish
  <1> QED
    BY <1>1, <1>2 DEF TypeOK, Establish

(* releasePreviousTun() keeps the descriptors typed.                       *)
LEMMA ReleasePreviousTyped ==
  ASSUME TypeOK, NEW h \in Hosts, NEW g \in Gen, ReleasePrevious(h, g)
  PROVE  open' \subseteq Gen /\ superseded' \in [Hosts -> [Gen -> Fd]]
  <1>1. 0 \in Fd
    BY ManagerAssumptions DEF Fd
  <1> QED
    BY <1>1 DEF TypeOK, ReleasePrevious

(* releaseTun() keeps the descriptors typed.                               *)
LEMMA ReleaseTunTyped ==
  ASSUME TypeOK, NEW h \in Hosts, ReleaseTun(h)
  PROVE  /\ open' \subseteq Gen /\ gen' \in Fd /\ live' \in [Hosts -> Fd]
         /\ cfg' \in [Hosts -> Cfg] /\ superseded' \in [Hosts -> [Gen -> Fd]]
  <1>1. 0 \in Fd
    BY ManagerAssumptions DEF Fd
  <1>2. [g \in Gen |-> 0] \in [Gen -> Fd]
    BY <1>1
  <1> QED
    BY <1>1, <1>2 DEF TypeOK, ReleaseTun, Cfg

(* closeTun() keeps the descriptors typed and clears the flag.             *)
LEMMA CloseTunTyped ==
  ASSUME TypeOK, CloseTun
  PROVE  /\ open' \subseteq Gen /\ gen' \in Fd /\ live' \in [Hosts -> Fd]
         /\ cfg' \in [Hosts -> Cfg] /\ superseded' \in [Hosts -> [Gen -> Fd]]
         /\ tunnelUp' = FALSE /\ hold' = "none"
  <1>1. CASE tunnelUp /\ host # None
    <2>1. host \in Hosts
      BY <1>1 DEF TypeOK
    <2>2. ReleaseTun(host)
      BY <1>1 DEF CloseTun
    <2> QED
      BY <2>1, <2>2, ReleaseTunTyped DEF CloseTun
  <1>2. CASE ~(tunnelUp /\ host # None)
    BY <1>2 DEF CloseTun, service, TypeOK
  <1> QED
    BY <1>1, <1>2

(* onTunReplaced() keeps the packet path typed.                            *)
LEMMA OnTunReplacedTyped ==
  ASSUME TypeOK, NEW h \in Hosts, NEW g \in Gen, OnTunReplaced(h, g)
  PROVE  /\ open' \subseteq Gen /\ superseded' \in [Hosts -> [Gen -> Fd]]
         /\ applied' \in Fd /\ mux' \in Fd /\ tunnelUp' \in BOOLEAN
         /\ gen' = gen /\ live' = live /\ cfg' = cfg
  <1>1. g \in Fd /\ 0 \in Fd
    BY ManagerAssumptions DEF Gen, Fd
  <1>2. ReleasePrevious(h, g)
    BY DEF OnTunReplaced
  <1> QED
    BY <1>1, <1>2, ReleasePreviousTyped DEF OnTunReplaced, TypeOK

(* A request whose TUN is established keeps its type when it goes on to    *)
(* notify.                                                                 *)
LEMMA RequestMovesOn ==
  ASSUME req \in [Engines -> ReqType], ReqWellFormed, NEW e \in Engines,
         req[e].host \in Hosts, req[e].gen \in Gen, req' = [req EXCEPT ![e].pc = "notify"]
  PROVE  req' \in [Engines -> ReqType] /\ ReqWellFormed'
  <1> DEFINE q == [req[e] EXCEPT !.pc = "notify"]
  <1>1. /\ q \in ReqType /\ q.host = req[e].host /\ q.gen = req[e].gen
    BY DEF ReqType
  <1>2. req' = [req EXCEPT ![e] = q]
    OBVIOUS
  <1> HIDE DEF q
  <1> QED
    BY <1>1, <1>2 DEF ReqWellFormed

(* The tasks of teardownExecutor are typed when they are queued ...        *)
LEMMA QueueTyped ==
  ASSUME TypeOK, QueueTeardown
  PROVE  teardown' \in Seq(TaskType) /\ orphans' \subseteq Gen
  <1>1. [eng |-> engine, mux |-> mux] \in TaskType /\ {mux} \ {0} \subseteq Gen
    BY ManagerAssumptions DEF TypeOK, TaskType, Gen, Fd
  <1>2. teardown \in Seq(TaskType) /\ orphans \subseteq Gen
    BY DEF TypeOK, TaskType
  <1> QED
    BY <1>1, <1>2, AppendProperties DEF QueueTeardown

(* ... and while they run.                                                 *)
LEMMA TaskTyped ==
  ASSUME TypeOK, teardown # <<>>
  PROVE  /\ Head(teardown) \in TaskType /\ Tail(teardown) \in Seq(TaskType)
         /\ [teardown EXCEPT ![1].eng = None] \in Seq(TaskType)
  <1>1. teardown \in Seq(TaskType)
    BY DEF TypeOK, TaskType
  <1>2. Head(teardown) \in TaskType /\ Tail(teardown) \in Seq(TaskType)
    BY <1>1, HeadTailProperties
  <1>3. 1 \in 1..Len(teardown) /\ teardown[1] \in TaskType
    BY <1>1, <1>2, EmptySeq, LenProperties, ElementOfSeq
  <1>4. [teardown[1] EXCEPT !.eng = None] \in TaskType
    BY <1>3 DEF TaskType
  <1>5. [teardown EXCEPT ![1] = [teardown[1] EXCEPT !.eng = None]] \in Seq(TaskType)
    BY <1>1, <1>3, <1>4, ExceptSeq
  <1> QED
    BY <1>2, <1>5

(* Every step of the manager, the service and the engines keeps TInv.      *)
LEMMA NextTyped == TInv /\ [Next]_vars => TInv'
  <1> SUFFICES ASSUME TInv, [Next]_vars PROVE TInv'
    OBVIOUS
  <1> USE Constants
  <1> USE DEF TInv, TypeOK, OpWellFormed, ReqWellFormed, OpType, OpKind, OpStage,
     ReqType, DnsType, TaskType,
          Free, Idle, NoStage, MonitorFree, service, settings, dns, watchdog, Cfg,
          DropMux, CancelHoldWatchdog, ArmHoldWatchdog, StopEngine, CoreAfterStop,
          Begin, SettleHold, ReconcileDnsStage
  <1>1. ASSUME NEW h \in Hosts, AttachHost(h) PROVE TInv'
    BY <1>1 DEF AttachHost
  <1>2. ASSUME NEW h \in Hosts, DetachHost(h) PROVE TInv'
    <2>1. CASE host # h
      BY <1>2, <2>1 DEF DetachHost
    <2>2. CASE host = h
      <3>1. ServiceTyped' /\ tunnelUp' = FALSE /\ hold' = "none"
        BY <1>2, <2>2, CloseTunTyped DEF DetachHost, ServiceTyped
      <3>2. teardown' \in Seq(TaskType) /\ orphans' \subseteq Gen
        <4>1. QueueTeardown
          BY <1>2, <2>2 DEF DetachHost
        <4> QED
          BY <4>1, QueueTyped
      <3> QED
        BY ZenonT(60), <1>2, <2>2, <3>1, <3>2 DEF DetachHost, ServiceTyped
    <2> QED
      BY <2>1, <2>2
  <1>3. ASSUME NEW h \in Hosts, OnDestroyReleasesTun(h) PROVE TInv'
    BY <1>3, ReleaseTunTyped DEF OnDestroyReleasesTun
  <1>4. ASSUME OnRevoked PROVE TInv'
    <2>1. ServiceTyped' /\ tunnelUp' = FALSE /\ hold' = "none"
      BY <1>4, CloseTunTyped DEF OnRevoked, ServiceTyped
    <2>2. teardown' \in Seq(TaskType) /\ orphans' \subseteq Gen
      BY <1>4, QueueTyped DEF OnRevoked
    <2> QED
      BY <1>4, <2>1, <2>2 DEF OnRevoked, ServiceTyped
  <1>5. ASSUME Teardown PROVE TInv'
    <2>1. CASE TeardownStopsEngine
      <3>1. /\ teardown' \in Seq(TaskType) /\ core' \in [Engines -> Hosts \cup {None}]
        BY <2>1, TaskTyped DEF TeardownStopsEngine
      <3> QED
        BY <2>1, <3>1 DEF TeardownStopsEngine
    <2>2. CASE TeardownStopsMux
      <3>1. teardown' \in Seq(TaskType) /\ orphans' \subseteq Gen
        BY <2>2, TaskTyped DEF TeardownStopsMux
      <3> QED
        BY <2>2, <3>1 DEF TeardownStopsMux
    <2> QED
      BY <1>5, <2>1, <2>2 DEF Teardown
  <1>6. ASSUME DisconnectNone PROVE TInv'
    BY ZenonT(60), <1>6, CloseTunTyped DEF DisconnectNone
  <1>7. ASSUME ReleaseHeldTunnel PROVE TInv'
    BY ZenonT(60), <1>7, CloseTunTyped DEF ReleaseHeldTunnel
  <1>8. ASSUME HoldForBlocking PROVE TInv'
    <2>1. host \in Hosts \/ ~ExcludesSelf
      BY DEF ExcludesSelf
    <2> QED
      BY <1>8, <2>1 DEF HoldForBlocking
  <1>9. ASSUME BeginBlocking PROVE TInv'
    BY <1>9 DEF BeginBlocking
  <1>10. ASSUME NEW kind \in {"handover", "block"}, DisconnectHolding(kind) PROVE TInv'
    <2>1. host \in Hosts \/ ~ExcludesSelf
      BY DEF ExcludesSelf
    <2> QED
      BY <1>10, <2>1 DEF DisconnectHolding
  <1>11. ASSUME ConnectWithoutHost PROVE TInv'
    BY <1>11 DEF ConnectWithoutHost
  <1>12. ASSUME WatchdogFires PROVE TInv'
    BY <1>12 DEF WatchdogFires
  <1>13. ASSUME OnHoldExpired PROVE TInv'
    <2>1. CASE HasHeldTunnel /\ ~(host # None /\ blocking)
      <3>1. ServiceTyped' /\ tunnelUp' = FALSE /\ hold' = "none"
        BY <1>13, <2>1, CloseTunTyped DEF OnHoldExpired, ServiceTyped
      <3> QED
        BY ZenonT(60), <1>13, <2>1, <3>1 DEF OnHoldExpired, ServiceTyped
    <2>2. CASE ~HasHeldTunnel
      <3>1. UNCHANGED <<service, mux, tunnelUp, holdExpiry, dns, hold>>
        BY <1>13, <2>2 DEF OnHoldExpired
      <3>2. /\ firing' = FALSE
            /\ UNCHANGED <<phase, listener, host, engine, applied, teardown, orphans, op, core, req,
                           settings>>
        BY <1>13 DEF OnHoldExpired
      <3>3. ServiceTyped'
        BY <3>1 DEF ServiceTyped
      <3>4. /\ listener' \in [Hosts -> BOOLEAN] /\ tunnelUp' \in BOOLEAN
            /\ firing' \in BOOLEAN /\ blocking' \in BOOLEAN
            /\ op' \in OpType /\ req' \in [Engines -> ReqType]
        BY <3>1, <3>2
      <3>5. TypeOK'
        BY <3>1, <3>2, <3>3, <3>4 DEF ServiceTyped
      <3>6. OpWellFormed' /\ ReqWellFormed'
        BY <3>2
      <3> QED
        BY <3>5, <3>6
    <2>3. CASE HasHeldTunnel /\ host # None /\ blocking
      BY ZenonT(60), <1>13, <2>3 DEF OnHoldExpired
    <2> QED
      BY <2>1, <2>2, <2>3
  <1>14. ASSUME OpEstablish PROVE TInv'
    <2>1. host \in Hosts /\ ConfigFor(op.kind) \in Cfg
      BY <1>14 DEF OpEstablish, ConfigFor
    <2>2. ServiceTyped' /\ gen' = gen + 1 /\ gen' \in Gen
      BY <1>14, <2>1, EstablishTyped DEF OpEstablish, ServiceTyped
    <2>3. op' \in OpType /\ OpWellFormed'
      BY <1>14, <2>2 DEF OpEstablish
    <2> QED
      BY <1>14, <2>2, <2>3 DEF OpEstablish, ServiceTyped
  <1>15. ASSUME OpEstablishFails PROVE TInv'
    BY <1>15 DEF OpEstablishFails
  <1>16. ASSUME OpNotify PROVE TInv'
    <2>1. host \in Hosts /\ op.gen \in Gen
      BY <1>16 DEF OpNotify
    <2>2. /\ ServiceTyped' /\ applied' \in Fd /\ mux' \in Fd
          /\ tunnelUp' \in BOOLEAN
      BY <1>16, <2>1, OnTunReplacedTyped DEF OpNotify, ServiceTyped
    <2>3. op' \in OpType /\ OpWellFormed'
      BY ZenonT(60), <1>16, <2>1 DEF OpNotify
    <2>4. /\ muxId' \in Fd /\ stage' \in Ports \cup {0} /\ connKey' \in Ports \cup {0}
          /\ dnsState' \in DnsType
      BY <1>16 DEF OpNotify
    <2>5. hold' \in {"none", "handover", "blocking"} /\ holdExpiry' \in {"none", "armed", "fired"}
      BY <1>16 DEF OpNotify
    <2> QED
      BY <1>16, <2>2, <2>3, <2>4, <2>5 DEF OpNotify, ServiceTyped
  <1>17. ASSUME OpStartMux PROVE TInv'
    <2>1. host \in Hosts /\ op.gen \in Gen
      BY <1>17 DEF OpStartMux
    <2>2. op' \in OpType /\ OpWellFormed'
      BY <1>17, <2>1 DEF OpStartMux
    <2>3. /\ muxId' \in Fd /\ mux' \in Fd /\ stage' \in Ports \cup {0}
          /\ connKey' \in Ports \cup {0} /\ dnsState' \in DnsType
      BY <1>17, <2>1 DEF OpStartMux
    <2> QED
      BY <1>17, <2>2, <2>3 DEF OpStartMux
  <1>18. ASSUME OpStartMuxFails PROVE TInv'
    <2>1. ServiceTyped' /\ tunnelUp' = FALSE /\ hold' = "none"
      BY <1>18, CloseTunTyped DEF OpStartMuxFails, ServiceTyped
    <2> QED
      BY ZenonT(60), <1>18, <2>1 DEF OpStartMuxFails, ServiceTyped
  <1>19. ASSUME OpAttachEngine PROVE TInv'
    BY <1>19 DEF OpAttachEngine
  <1>20. ASSUME OpAttachEngineFails PROVE TInv'
    BY <1>20 DEF OpAttachEngineFails
  <1>21. ASSUME NEW e \in Engines, Connect(e) PROVE TInv'
    BY <1>21 DEF Connect
  <1>22. ASSUME NEW e \in Engines, RequestTun(e) PROVE TInv'
    BY <1>22 DEF RequestTun
  <1>23. ASSUME NEW e \in Engines, RequestTunEnds(e) PROVE TInv'
    BY <1>23 DEF RequestTunEnds
  <1>24. ASSUME NEW e \in Engines, RequestTunEstablishes(e) PROVE TInv'
    <2>1. req[e].host \in Hosts
      BY <1>24 DEF RequestTunEstablishes
    <2>2. ServiceTyped' /\ gen' = gen + 1 /\ gen' \in Gen
      BY <1>24, <2>1, EstablishTyped DEF RequestTunEstablishes, ServiceTyped
    <2>3. req' \in [Engines -> ReqType] /\ ReqWellFormed'
      BY ZenonT(60), <1>24, <2>2 DEF RequestTunEstablishes
    <2> QED
      BY <1>24, <2>2, <2>3 DEF RequestTunEstablishes, ServiceTyped
  <1>25. ASSUME NEW e \in Engines, RequestTunReadsListener(e) PROVE TInv'
    <2>1. req[e].host \in Hosts /\ req[e].gen \in Gen
      BY <1>25 DEF RequestTunReadsListener
    <2>2. ServiceTyped'
      BY <1>25, <2>1, ReleasePreviousTyped DEF RequestTunReadsListener, ServiceTyped
    <2>3. req' \in [Engines -> ReqType] /\ ReqWellFormed'
      <3>1. \/ req' = [req EXCEPT ![e].pc = "notify"]
            \/ req' = [req EXCEPT ![e] = Idle]
        BY <1>25 DEF RequestTunReadsListener
      <3>2. CASE req' = [req EXCEPT ![e].pc = "notify"]
        BY <2>1, <3>2, RequestMovesOn
      <3>3. CASE req' = [req EXCEPT ![e] = Idle]
        BY <2>1, <3>3
      <3> QED
        BY <3>1, <3>2, <3>3
    <2> QED
      BY <1>25, <2>2, <2>3 DEF RequestTunReadsListener, ServiceTyped
  <1>26. ASSUME NEW e \in Engines, RequestTunNotifies(e) PROVE TInv'
    <2>1. req[e].host \in Hosts /\ req[e].gen \in Gen
      BY <1>26 DEF RequestTunNotifies
    <2>2. ServiceTyped' /\ applied' \in Fd /\ mux' \in Fd /\ tunnelUp' \in BOOLEAN
      BY <1>26, <2>1, OnTunReplacedTyped DEF RequestTunNotifies, ServiceTyped
    <2>3. req' \in [Engines -> ReqType] /\ ReqWellFormed'
      BY <1>26, <2>1 DEF RequestTunNotifies
    <2> QED
      BY <1>26, <2>2, <2>3 DEF RequestTunNotifies, ServiceTyped
  <1>27. ASSUME SettingsChange PROVE TInv'
    BY <1>27 DEF SettingsChange
  <1>28. CASE UNCHANGED vars
    BY <1>28 DEF vars
  <1> QED
    BY <1>1, <1>2, <1>3, <1>4, <1>5, <1>6, <1>7, <1>8, <1>9, <1>10, <1>11, <1>12,
       <1>13, <1>14, <1>15, <1>16, <1>17, <1>18, <1>19, <1>20, <1>21, <1>22,
       <1>23, <1>24, <1>25, <1>26, <1>27, <1>28 DEF Next, OpStep

-----------------------------------------------------------------------------
(* The inductive invariant behind PacketPathOpen.  The service's part says *)
(* that a descriptor has one owner: it is the live TUN of one service, or  *)
(* superseded there by exactly one younger generation.                     *)

H == [h \in Hosts |-> Held(h)]

SInv ==
  /\ \A h \in Hosts, g \in Gen : superseded[h][g] < g
  /\ \A h \in Hosts, g \in Gen : g > gen => superseded[h][g] = 0
  /\ \A h \in Hosts : live[h] <= gen
  /\ \A h \in Hosts, g1, g2 \in Gen :
       superseded[h][g1] = superseded[h][g2] /\ superseded[h][g1] # 0 => g1 = g2
  /\ \A h \in Hosts, g \in Gen : superseded[h][g] # 0 => superseded[h][g] # live[h]
  /\ \A h \in Hosts : H[h] \subseteq open
  /\ \A h, k \in Hosts : h # k => H[h] \cap H[k] = {}

(* Which service is attached, and which services an engine can still name. *)
HostInv ==
  /\ host \in Hosts => listener[host]
  /\ host \in Hosts => phase[host] = "up"
  /\ \A e \in Engines : core[e] \in Hosts => phase[core[e]] # "new"
  /\ \A e \in Engines : req[e].pc # "idle" => phase[req[e].host] # "new"

(* The packet path is on the last applied generation, which the attached   *)
(* service still holds.                                                    *)
MuxInv ==
  /\ applied <= gen
  /\ mux # 0 => host \in Hosts /\ mux \in H[host] /\ mux = applied /\ tunnelUp

(* A monitor operation that has replaced the TUN still holds its result.   *)
OpInv ==
  /\ op.stage = "start" => op.kind \in {"first", "cold"}
  /\ op.kind \in {"first", "cold"} /\ op.stage \in {"establish", "notify", "start"}
       => mux = 0
  /\ op.stage = "notify" => op.gen > applied /\ op.gen \in H[host]
  /\ op.stage = "start" => op.gen = applied /\ op.gen \in H[host]

(* What a late notification may find: its TUN still held, a younger one    *)
(* applied, or everything of its age released.                             *)
ReqInv ==
  \A e \in Engines :
    req[e].pc \in {"established", "notify"} =>
      /\ req[e].gen <= gen
      /\ req[e].host = host =>
           \/ req[e].gen \in H[host]
           \/ req[e].gen <= applied
           \/ \A f \in H[host] : f > req[e].gen

IInv == TInv /\ SInv /\ HostInv /\ MuxInv /\ OpInv /\ ReqInv

(* What a service holds are descriptors of generations.                    *)
LEMMA HeldType == H \in [Hosts -> SUBSET Gen]
  BY DEF H, Held

(* A step that leaves the service alone leaves what it holds.              *)
LEMMA HeldUnchanged ==
  ASSUME SInv, UNCHANGED service
  PROVE  SInv' /\ H' = H
  BY DEF SInv, H, Held, service

(* A new TUN joins what its service holds, and takes nothing from it.      *)
LEMMA HeldAfterEstablish ==
  ASSUME TypeOK, SInv, NEW h \in Hosts, NEW c \in Cfg, Establish(h, c)
  PROVE  SInv' /\ H' = [H EXCEPT ![h] = @ \cup {gen + 1}]
  <1>1. gen \in Nat /\ gen + 1 \in Gen /\ gen' = gen + 1
    BY ManagerAssumptions DEF TypeOK, Establish, Gen, Fd
  <1>2. \A k \in Hosts : /\ live'[k] = IF k = h THEN gen + 1 ELSE live[k]
                         /\ live[k] \in Fd
    BY DEF TypeOK, Establish
  <1>3. \A k \in Hosts, g \in Gen :
          /\ superseded'[k][g] = IF k = h /\ g = gen + 1 THEN live[h] ELSE superseded[k][g]
          /\ superseded[k][g] \in Fd
    BY DEF TypeOK, Establish
  <1>4. \A k \in Hosts, f \in Gen :
          f \in Held(k)' <=> f \in Held(k) \/ (k = h /\ f = gen + 1)
    <2> SUFFICES ASSUME NEW k \in Hosts, NEW f \in Gen
                 PROVE  f \in Held(k)' <=> f \in Held(k) \/ (k = h /\ f = gen + 1)
      OBVIOUS
    <2>1. ASSUME f \in Held(k)' PROVE f \in Held(k) \/ (k = h /\ f = gen + 1)
      BY <1>1, <1>2, <1>3, <2>1 DEF Held
    <2>2. ASSUME f \in Held(k) PROVE f \in Held(k)'
      <3>1. CASE f = live[k]
        BY <1>1, <1>2, <1>3, <3>1 DEF Held
      <3>2. ASSUME NEW g \in Gen, f = superseded[k][g] PROVE f \in Held(k)'
        <4>1. superseded'[k][g] = superseded[k][g]
          BY <1>1, <1>3, <3>2 DEF SInv, Gen
        <4> QED
          BY <3>2, <4>1 DEF Held
      <3> QED
        BY <2>2, <3>1, <3>2 DEF Held
    <2>3. ASSUME k = h, f = gen + 1 PROVE f \in Held(k)'
      BY <1>1, <1>2, <2>3 DEF Held
    <2> QED
      BY <2>1, <2>2, <2>3
  <1>5. H' = [H EXCEPT ![h] = @ \cup {gen + 1}]
    <2>1. \A k \in Hosts : Held(k)' \subseteq Gen /\ Held(k) \subseteq Gen
      BY DEF Held
    <2>2. \A k \in Hosts : Held(k)' = IF k = h THEN Held(k) \cup {gen + 1} ELSE Held(k)
      BY <1>1, <1>4, <2>1
    <2> QED
      BY <2>2 DEF H
  <1>6. \A k \in Hosts : gen + 1 \notin H[k]
    BY <1>1, <1>2, <1>3 DEF SInv, H, Held, Gen, Fd
  <1>7. /\ \A k \in Hosts : H'[k] \subseteq open'
        /\ \A k, l \in Hosts : k # l => H'[k] \cap H'[l] = {}
    BY <1>5, <1>6, HeldType DEF SInv, Establish
  <1>8. /\ \A k \in Hosts, g \in Gen : superseded'[k][g] < g
        /\ \A k \in Hosts, g \in Gen : g > gen' => superseded'[k][g] = 0
        /\ \A k \in Hosts : live'[k] <= gen'
    BY <1>1, <1>2, <1>3 DEF SInv, Gen, Fd
  <1>9. /\ \A k \in Hosts, g1, g2 \in Gen :
             superseded'[k][g1] = superseded'[k][g2] /\ superseded'[k][g1] # 0 => g1 = g2
        /\ \A k \in Hosts, g \in Gen : superseded'[k][g] # 0 => superseded'[k][g] # live'[k]
    BY <1>1, <1>2, <1>3 DEF SInv, Gen, Fd
  <1> QED
    BY <1>5, <1>7, <1>8, <1>9 DEF SInv

(* Releasing what a generation superseded lets go of that one descriptor.  *)
LEMMA HeldAfterReleasePrevious ==
  ASSUME TypeOK, SInv, NEW h \in Hosts, NEW g \in Gen, ReleasePrevious(h, g),
         gen' = gen, live' = live
  PROVE  SInv' /\ H' = [H EXCEPT ![h] = @ \ {superseded[h][g]}]
  <1>1. \A k \in Hosts, i \in Gen :
          /\ superseded'[k][i] = IF k = h /\ i = g THEN 0 ELSE superseded[k][i]
          /\ superseded[k][i] \in Fd
    BY DEF TypeOK, ReleasePrevious
  <1>2. 0 \notin Gen
    BY Constants
  <1>3. \A k \in Hosts : Held(k)' = IF k = h THEN Held(k) \ {superseded[h][g]} ELSE Held(k)
    <2> SUFFICES ASSUME NEW k \in Hosts, NEW f \in Gen
                 PROVE  f \in Held(k)' <=> f \in Held(k) /\ (k = h => f # superseded[h][g])
      BY DEF Held
    <2>1. ASSUME f \in Held(k)' PROVE f \in Held(k) /\ (k = h => f # superseded[h][g])
      BY <1>1, <1>2, <2>1 DEF Held, SInv
    <2>2. ASSUME f \in Held(k), k = h => f # superseded[h][g] PROVE f \in Held(k)'
      BY <1>1, <2>2 DEF Held
    <2> QED
      BY <2>1, <2>2
  <1>4. H' = [H EXCEPT ![h] = @ \ {superseded[h][g]}]
    BY <1>3 DEF H
  <1>5. superseded[h][g] \in H[h] \/ superseded[h][g] = 0
    BY <1>1 DEF H, Held, Gen, Fd
  <1>6. /\ \A k \in Hosts : H'[k] \subseteq open'
        /\ \A k, l \in Hosts : k # l => H'[k] \cap H'[l] = {}
    BY <1>2, <1>4, <1>5, HeldType DEF SInv, ReleasePrevious
  <1>7. /\ \A k \in Hosts, i \in Gen : superseded'[k][i] < i
        /\ \A k \in Hosts, i \in Gen : i > gen' => superseded'[k][i] = 0
        /\ \A k \in Hosts : live'[k] <= gen'
    BY <1>1 DEF SInv, Gen, Fd
  <1>8. /\ \A k \in Hosts, g1, g2 \in Gen :
             superseded'[k][g1] = superseded'[k][g2] /\ superseded'[k][g1] # 0 => g1 = g2
        /\ \A k \in Hosts, i \in Gen : superseded'[k][i] # 0 => superseded'[k][i] # live'[k]
    BY <1>1 DEF SInv, Gen, Fd
  <1> QED
    BY <1>4, <1>6, <1>7, <1>8 DEF SInv

(* releaseTun() lets go of everything the service holds.                   *)
LEMMA HeldAfterReleaseTun ==
  ASSUME TypeOK, SInv, NEW h \in Hosts, ReleaseTun(h)
  PROVE  SInv' /\ H' = [H EXCEPT ![h] = {}]
  <1>1. \A k \in Hosts, i \in Gen :
          /\ superseded'[k][i] = IF k = h THEN 0 ELSE superseded[k][i]
          /\ superseded[k][i] \in Fd
    BY DEF TypeOK, ReleaseTun
  <1>2. \A k \in Hosts : live'[k] = IF k = h THEN 0 ELSE live[k]
    BY DEF TypeOK, ReleaseTun
  <1>3. gen \in Nat /\ gen' = gen /\ 0 \notin Gen
    BY Constants DEF TypeOK, Fd, ReleaseTun
  <1>4. \A k \in Hosts : Held(k)' = IF k = h THEN {} ELSE Held(k)
    BY <1>1, <1>2, <1>3 DEF Held
  <1>5. H' = [H EXCEPT ![h] = {}]
    BY <1>4 DEF H
  <1>6. H[h] = Held(h)
    BY DEF H
  <1>7. /\ \A k \in Hosts : H'[k] \subseteq open'
        /\ \A k, l \in Hosts : k # l => H'[k] \cap H'[l] = {}
    BY <1>5, <1>6, HeldType DEF SInv, ReleaseTun
  <1>8. /\ \A k \in Hosts, i \in Gen : superseded'[k][i] < i
        /\ \A k \in Hosts, i \in Gen : i > gen' => superseded'[k][i] = 0
        /\ \A k \in Hosts : live'[k] <= gen'
    BY <1>1, <1>2, <1>3 DEF SInv, Gen, Fd
  <1>9. /\ \A k \in Hosts, g1, g2 \in Gen :
             superseded'[k][g1] = superseded'[k][g2] /\ superseded'[k][g1] # 0 => g1 = g2
        /\ \A k \in Hosts, i \in Gen : superseded'[k][i] # 0 => superseded'[k][i] # live'[k]
    BY <1>1, <1>2, <1>3 DEF SInv, Gen, Fd
  <1> QED
    BY <1>5, <1>7, <1>8, <1>9 DEF SInv

(* closeTun() releases the attached service's TUNs, if the flag says so.   *)
LEMMA HeldAfterCloseTun ==
  ASSUME TypeOK, SInv, CloseTun
  PROVE  /\ SInv' /\ gen' = gen
         /\ H' = IF tunnelUp /\ host # None THEN [H EXCEPT ![host] = {}] ELSE H
  <1>1. CASE tunnelUp /\ host # None
    <2>1. host \in Hosts /\ ReleaseTun(host)
      BY <1>1 DEF TypeOK, CloseTun
    <2> QED
      BY <1>1, <2>1, HeldAfterReleaseTun DEF ReleaseTun
  <1>2. CASE ~(tunnelUp /\ host # None)
    BY <1>2, HeldUnchanged DEF CloseTun, service
  <1> QED
    BY <1>1, <1>2


-----------------------------------------------------------------------------
(* Every step keeps the invariant, and moves the packet path forward.      *)

StepForward == mux # 0 /\ mux' # 0 => mux' >= mux

(* The number-valued parts of the state, and how they compare.             *)
LEMMA Numbers ==
  ASSUME TypeOK, SInv
  PROVE  /\ gen \in Nat /\ applied \in Nat /\ mux \in Nat /\ op.gen \in Nat
         /\ \A e \in Engines : req[e].gen \in Nat
         /\ \A h \in Hosts, g \in Gen : superseded[h][g] \in Nat /\ superseded[h][g] < g
         /\ \A h \in Hosts : \A f \in H[h] : f \in Nat /\ f <= gen
  <1>1. Fd \subseteq Nat /\ Gen \subseteq Nat
    BY DEF Fd, Gen
  <1>2. gen \in Nat /\ applied \in Nat /\ mux \in Nat /\ op.gen \in Nat
    BY <1>1 DEF TypeOK
  <1>3. \A e \in Engines : req[e].gen \in Nat
    BY <1>1 DEF TypeOK
  <1>4. \A h \in Hosts, g \in Gen : superseded[h][g] \in Nat /\ superseded[h][g] < g
    <2>1. superseded \in [Hosts -> [Gen -> Fd]]
      BY DEF TypeOK
    <2>2. \A h \in Hosts, g \in Gen : superseded[h][g] \in Fd
      BY <2>1
    <2> QED
      BY <1>1, <2>2 DEF SInv
  <1>5. ASSUME NEW h \in Hosts, NEW f \in H[h] PROVE f \in Nat /\ f <= gen
    <2>1. f \in Gen /\ (f = live[h] \/ \E g \in Gen : f = superseded[h][g])
      BY <1>5 DEF H, Held
    <2>2. ASSUME NEW g \in Gen, f = superseded[h][g] PROVE f <= gen
      BY <1>1, <1>2, <1>4, <2>1, <2>2, Constants DEF SInv
    <2> QED
      BY <1>1, <2>1, <2>2 DEF SInv
  <1> QED
    BY <1>2, <1>3, <1>4, <1>5

(* A service that changes phase does not become new again.                 *)
LEMMA NamedHostsKept ==
  ASSUME TypeOK, ReqWellFormed, HostInv, NEW h \in Hosts, NEW p, p # "new",
         phase' = [phase EXCEPT ![h] = p], core' = core, req' = req
  PROVE  /\ \A e \in Engines : core'[e] \in Hosts => phase'[core'[e]] # "new"
         /\ \A e \in Engines : req'[e].pc # "idle" => phase'[req'[e].host] # "new"
  <1>1. \A k \in Hosts : phase'[k] = IF k = h THEN p ELSE phase[k]
    BY DEF TypeOK
  <1>2. ASSUME NEW e \in Engines, core'[e] \in Hosts PROVE phase'[core'[e]] # "new"
    BY <1>1, <1>2 DEF HostInv
  <1>3. ASSUME NEW e \in Engines, req'[e].pc # "idle" PROVE phase'[req'[e].host] # "new"
    BY <1>1, <1>3 DEF HostInv, ReqWellFormed
  <1> QED
    BY <1>2, <1>3

(* An engine only ever names a service that has been attached.             *)
LEMMA HostInvKept ==
  ASSUME TInv, TInv', HostInv, UNCHANGED <<host, listener, phase>>,
         \A e \in Engines : core'[e] = core[e] \/ core'[e] = None \/ core'[e] = host,
         \A e \in Engines :
           \/ req'[e].pc = "idle"
           \/ req[e].pc # "idle" /\ req'[e].host = req[e].host
  PROVE  HostInv'
  <1>1. host' \in Hosts => listener'[host'] /\ phase'[host'] = "up"
    BY DEF HostInv
  <1>2. ASSUME NEW e \in Engines, core'[e] \in Hosts PROVE phase'[core'[e]] # "new"
    BY <1>2, ManagerAssumptions DEF HostInv
  <1>3. ASSUME NEW e \in Engines, req'[e].pc # "idle" PROVE phase'[req'[e].host] # "new"
    BY <1>3 DEF HostInv
  <1> QED
    BY <1>1, <1>2, <1>3 DEF HostInv

(* What an engine thread's establish leaves of the requests and the rest.  *)
LEMMA RequestAfterEstablish ==
  ASSUME TypeOK, NEW e \in Engines, RequestTunEstablishes(e)
  PROVE  /\ UNCHANGED <<host, listener, phase, core, applied, mux, tunnelUp, op>>
         /\ req'[e].pc = "established" /\ req'[e].gen = gen + 1
         /\ req'[e].host = req[e].host /\ req[e].pc = "asked"
         /\ \A d \in Engines : d # e => req'[d] = req[d]
  <1>1. /\ req[e].pc = "asked"
        /\ req' = [req EXCEPT ![e].pc = "established", ![e].gen = gen + 1]
        /\ UNCHANGED <<host, listener, phase, core, applied, mux, tunnelUp, op>>
    BY DEF RequestTunEstablishes
  <1>2. DOMAIN req = Engines
    BY DEF TypeOK
  <1>3. DOMAIN req[e] = {"pc", "host", "gen"}
    BY DEF TypeOK
  <1> QED
    BY <1>1, <1>2, <1>3

(* One step per action: the invariant is inductive, the path moves forward.*)
LEMMA NextSafe ==
  ASSUME IInv, [Next]_vars
  PROVE  IInv' /\ StepForward
  <1>t. TInv' /\ TypeOK /\ TypeOK' /\ SInv
    BY NextTyped DEF IInv, TInv
  <1>n. /\ gen \in Nat /\ applied \in Nat /\ mux \in Nat /\ op.gen \in Nat
        /\ \A d \in Engines : req[d].gen \in Nat
        /\ \A h \in Hosts, g \in Gen : superseded[h][g] \in Nat /\ superseded[h][g] < g
        /\ \A h \in Hosts : \A f \in H[h] : f \in Nat /\ f <= gen
    BY <1>t, Numbers
  <1> USE HeldType, Constants
  <1> USE DEF IInv, TInv, OpWellFormed, ReqWellFormed, HostInv, MuxInv, OpInv, ReqInv,
     StepForward
  <1>1. ASSUME NEW h \in Hosts, AttachHost(h) PROVE IInv' /\ StepForward
    <2>1. SInv' /\ H' = H
      BY <1>t, <1>1, HeldUnchanged DEF AttachHost
    <2>2. HostInv'
      <3>3. host' = h /\ core' = core /\ req' = req
        BY <1>1 DEF AttachHost
      <3>4. /\ \A d \in Engines : core'[d] \in Hosts => phase'[core'[d]] # "new"
            /\ \A d \in Engines : req'[d].pc # "idle" => phase'[req'[d].host] # "new"
        BY <1>t, <1>1, NamedHostsKept DEF AttachHost
      <3>5. listener'[host'] /\ phase'[host'] = "up"
        BY <1>t, <1>1 DEF AttachHost, TypeOK
      <3> QED
        BY <3>4, <3>5
    <2>3. MuxInv'
      <3>1. host # None => mux = 0
        BY <1>t, <1>1 DEF AttachHost, ServiceMayBeCreated, TypeOK
      <3> QED
        BY <1>t, <1>1, <2>1, <3>1, ManagerAssumptions DEF AttachHost, TypeOK, Fd, service
    <2>4. OpInv'
      BY <1>t, <1>1, <2>1 DEF AttachHost, TypeOK, Fd, service, Free, Idle, MonitorFree
    <2>5. ReqInv'
      <3>1. \A d \in Engines : req[d].pc # "idle" => req[d].host # h
        BY <1>1 DEF AttachHost
      <3> QED
        BY <1>1, <3>1 DEF AttachHost, service
    <2>6. StepForward
      BY <1>t, <1>1, <2>1 DEF AttachHost, TypeOK, Fd, service, Free, Idle, MonitorFree
    <2> QED
      BY <1>t, <2>1, <2>2, <2>3, <2>4, <2>5, <2>6
  <1>2. ASSUME NEW h \in Hosts, DetachHost(h) PROVE IInv' /\ StepForward
    <2>1. CASE host # h
      <3>1. SInv' /\ H' = H
        BY <1>t, <1>2, <2>1, HeldUnchanged DEF DetachHost
      <3> QED
        BY <1>t, <1>2, <2>1, <3>1 DEF DetachHost, TypeOK, Fd, service, Free, MonitorFree
    <2>2. CASE host = h
      <3>1. /\ SInv' /\ gen' = gen
            /\ H' = IF tunnelUp /\ host # None THEN [H EXCEPT ![host] = {}] ELSE H
        BY <1>t, <1>2, <2>2, HeldAfterCloseTun DEF DetachHost
      <3>2. HostInv'
        <4>2. host' = None /\ core' = core /\ req' = req
          BY <1>2, <2>2 DEF DetachHost
        <4>3. /\ \A d \in Engines : core'[d] \in Hosts => phase'[core'[d]] # "new"
              /\ \A d \in Engines : req'[d].pc # "idle" => phase'[req'[d].host] # "new"
          BY <1>t, <1>2, <4>2, NamedHostsKept DEF DetachHost
        <4> QED
          BY <4>2, <4>3, ManagerAssumptions
      <3>3. MuxInv'
        BY <1>t, <1>2, <2>2, <3>1, ManagerAssumptions
           DEF DetachHost, TypeOK, Fd, CloseTun, Free, MonitorFree
      <3>4. OpInv'
        BY <1>t, <1>2, <2>2, <3>1, ManagerAssumptions
           DEF DetachHost, TypeOK, Fd, CloseTun, Free, MonitorFree
      <3>5. ReqInv'
        BY <1>t, <1>2, <2>2, <3>1, ManagerAssumptions
           DEF DetachHost, TypeOK, Fd, CloseTun, Free, MonitorFree
      <3>6. StepForward
        BY <1>t, <1>2, <2>2, <3>1, ManagerAssumptions
           DEF DetachHost, TypeOK, Fd, CloseTun, Free, MonitorFree
      <3> QED
        BY <1>t, <3>1, <3>2, <3>3, <3>4, <3>5, <3>6
    <2> QED
      BY <2>1, <2>2
  <1>3. ASSUME NEW h \in Hosts, OnDestroyReleasesTun(h) PROVE IInv' /\ StepForward
    <2>1. SInv' /\ gen' = gen /\ H' = [H EXCEPT ![h] = {}]
      BY <1>t, <1>3, HeldAfterReleaseTun DEF OnDestroyReleasesTun, ReleaseTun
    <2>2. host # h
      BY <1>3 DEF OnDestroyReleasesTun
    <2> QED
      BY SMTT(30), <1>t, <1>3, <2>1, <2>2 DEF OnDestroyReleasesTun, TypeOK, Fd
  <1>4. ASSUME OnRevoked PROVE IInv' /\ StepForward
    <2>1. SInv' /\ gen' = gen /\ H' = IF tunnelUp /\ host # None THEN [H EXCEPT ![host] = {}] ELSE H
      BY <1>t, <1>4, HeldAfterCloseTun DEF OnRevoked
    <2> QED
      BY SMTT(30), <1>t, <1>4, <2>1
         DEF OnRevoked, TypeOK, Fd, CloseTun, DropMux, Free, Idle, MonitorFree
  <1>5. ASSUME Teardown PROVE IInv' /\ StepForward
    <2>0. UNCHANGED <<service, host, listener, phase, req, op, mux, applied, tunnelUp>>
      BY <1>5 DEF Teardown, TeardownStopsEngine, TeardownStopsMux
    <2>1. SInv' /\ H' = H
      BY <1>t, <2>0, HeldUnchanged
    <2>2. HostInv'
      <3>1. \A d \in Engines : core'[d] = core[d] \/ core'[d] = None \/ core'[d] = host
        BY <1>t, <1>5 DEF Teardown, TeardownStopsEngine, TeardownStopsMux, TypeOK
      <3> QED
        BY <1>t, <2>0, <3>1, HostInvKept
    <2>3. MuxInv' /\ OpInv' /\ ReqInv'
      BY <2>0, <2>1 DEF service
    <2>4. StepForward
      BY <1>n, <2>0
    <2> QED
      BY <1>t, <2>1, <2>2, <2>3, <2>4
  <1>6. ASSUME DisconnectNone PROVE IInv' /\ StepForward
    <2>1. SInv' /\ gen' = gen /\ H' = IF tunnelUp /\ host # None THEN [H EXCEPT ![host] = {}] ELSE H
      BY <1>t, <1>6, HeldAfterCloseTun DEF DisconnectNone
    <2>2. HostInv'
      <3>1. \A d \in Engines : core'[d] = core[d] \/ core'[d] = None \/ core'[d] = host
        BY <1>t, <1>6 DEF DisconnectNone, TypeOK, StopEngine, CoreAfterStop
      <3>2. UNCHANGED <<host, listener, phase, req>>
        BY <1>6 DEF DisconnectNone
      <3> QED
        BY <1>t, <3>1, <3>2, HostInvKept
    <2>3. MuxInv'
      BY <1>t, <1>6, <2>1 DEF DisconnectNone, TypeOK, Fd, CloseTun, DropMux, Free,
         Idle, MonitorFree, StopEngine, CoreAfterStop
    <2>4. OpInv'
      BY <1>t, <1>6, <2>1 DEF DisconnectNone, TypeOK, Fd, CloseTun, DropMux, Free,
         Idle, MonitorFree, StopEngine, CoreAfterStop
    <2>5. ReqInv'
      BY ZenonT(60), <1>t, <1>6, <2>1
         DEF DisconnectNone, TypeOK, Fd, CloseTun, DropMux, Free,
         Idle, MonitorFree, StopEngine, CoreAfterStop
    <2>6. StepForward
      BY <1>t, <1>6, <2>1 DEF DisconnectNone, TypeOK, Fd, CloseTun, DropMux, Free,
         Idle, MonitorFree, StopEngine, CoreAfterStop
    <2> QED
      BY <1>t, <2>1, <2>2, <2>3, <2>4, <2>5, <2>6
  <1>7. ASSUME ReleaseHeldTunnel PROVE IInv' /\ StepForward
    <2>1. SInv' /\ gen' = gen /\ H' = IF tunnelUp /\ host # None THEN [H EXCEPT ![host] = {}] ELSE H
      BY <1>t, <1>7, HeldAfterCloseTun DEF ReleaseHeldTunnel
    <2> QED
      BY SMTT(30), <1>t, <1>7, <2>1
         DEF ReleaseHeldTunnel, TypeOK, Fd, CloseTun, DropMux, Free, Idle, MonitorFree
  <1>8. ASSUME HoldForBlocking PROVE IInv' /\ StepForward
    <2>1. SInv' /\ H' = H
      BY <1>t, <1>8, HeldUnchanged DEF HoldForBlocking
    <2> QED
      BY <1>t, <1>8, <2>1
         DEF HoldForBlocking, TypeOK, Fd, service, Free, Idle, MonitorFree, Begin
  <1>9. ASSUME BeginBlocking PROVE IInv' /\ StepForward
    <2>1. SInv' /\ H' = H
      BY <1>t, <1>9, HeldUnchanged DEF BeginBlocking
    <2> QED
      BY <1>t, <1>9, <2>1
         DEF BeginBlocking, TypeOK, Fd, service, Free, Idle, MonitorFree, Begin
  <1>10. ASSUME NEW kind \in {"handover", "block"}, DisconnectHolding(kind) PROVE IInv' /\ StepForward
    <2>1. SInv' /\ H' = H
      BY <1>t, <1>10, HeldUnchanged DEF DisconnectHolding
    <2>2. HostInv'
      <3>1. \A d \in Engines : core'[d] = core[d] \/ core'[d] = None \/ core'[d] = host
        BY <1>t, <1>10 DEF DisconnectHolding, TypeOK, StopEngine, CoreAfterStop
      <3>2. UNCHANGED <<host, listener, phase, req>>
        BY <1>10 DEF DisconnectHolding
      <3> QED
        BY <1>t, <3>1, <3>2, HostInvKept
    <2>3. MuxInv'
      BY <1>t, <1>10, <2>1 DEF DisconnectHolding, TypeOK, Fd, service, Free, Idle,
         MonitorFree, Begin, StopEngine, CoreAfterStop
    <2>4. OpInv'
      BY <1>t, <1>10, <2>1 DEF DisconnectHolding, TypeOK, Fd, service, Free, Idle,
         MonitorFree, Begin, StopEngine, CoreAfterStop
    <2>5. ReqInv'
      BY <1>t, <1>10, <2>1 DEF DisconnectHolding, TypeOK, Fd, service, Free, Idle,
         MonitorFree, Begin, StopEngine, CoreAfterStop
    <2>6. StepForward
      BY <1>t, <1>10, <2>1 DEF DisconnectHolding, TypeOK, Fd, service, Free, Idle,
         MonitorFree, Begin, StopEngine, CoreAfterStop
    <2> QED
      BY <1>t, <2>1, <2>2, <2>3, <2>4, <2>5, <2>6
  <1>11. ASSUME ConnectWithoutHost PROVE IInv' /\ StepForward
    <2>1. SInv' /\ H' = H
      BY <1>t, <1>11, HeldUnchanged DEF ConnectWithoutHost
    <2> QED
      BY <1>t, <1>11, <2>1
         DEF ConnectWithoutHost, TypeOK, Fd, service, Free, Idle, MonitorFree
  <1>12. ASSUME WatchdogFires PROVE IInv' /\ StepForward
    <2>1. SInv' /\ H' = H
      BY <1>t, <1>12, HeldUnchanged DEF WatchdogFires
    <2> QED
      BY <1>t, <1>12, <2>1 DEF WatchdogFires, TypeOK, Fd, service
  <1>13. ASSUME OnHoldExpired PROVE IInv' /\ StepForward
    <2>1. CASE HasHeldTunnel /\ ~(host # None /\ blocking)
      <3>1. /\ SInv' /\ gen' = gen
            /\ H' = IF tunnelUp /\ host # None THEN [H EXCEPT ![host] = {}] ELSE H
        BY <1>t, <1>13, <2>1, HeldAfterCloseTun DEF OnHoldExpired
      <3>2. /\ mux' = 0 /\ op = Free
            /\ UNCHANGED <<phase, listener, host, applied, op, core, req>>
        BY <1>13, <2>1 DEF OnHoldExpired, DropMux, MonitorFree
      <3> QED
        BY SMTT(30), <1>t, <3>1, <3>2 DEF TypeOK, Fd, Free
    <2>2. CASE ~(HasHeldTunnel /\ ~(host # None /\ blocking))
      <3>1. UNCHANGED <<service, mux, tunnelUp, phase, listener, host, applied, op, core, req>>
        BY <1>13, <2>2 DEF OnHoldExpired
      <3>2. SInv' /\ H' = H
        BY <1>t, <3>1, HeldUnchanged
      <3> QED
        BY <1>t, <3>1, <3>2 DEF TypeOK, Fd, service
    <2> QED
      BY <2>1, <2>2
  <1>14. ASSUME OpEstablish PROVE IInv' /\ StepForward
    <2>1. host \in Hosts /\ ConfigFor(op.kind) \in Cfg
      BY <1>14 DEF OpEstablish, ConfigFor, Cfg
    <2>2. SInv' /\ gen' = gen + 1 /\ H' = [H EXCEPT ![host] = @ \cup {gen + 1}]
      BY <1>t, <1>14, <2>1, HeldAfterEstablish DEF OpEstablish, Establish
    <2>3. HostInv'
      BY <1>t, <1>14, <2>1, <2>2 DEF OpEstablish, TypeOK, Fd, Gen
    <2>4. MuxInv'
      BY SMTT(30), <1>t, <1>14, <2>1, <2>2 DEF OpEstablish, TypeOK, Fd, Gen
    <2>5. OpInv'
      BY <1>t, <1>14, <2>1, <2>2 DEF OpEstablish, TypeOK, Fd, Gen
    <2>6. ReqInv'
      <3> SUFFICES ASSUME NEW d \in Engines, req'[d].pc \in {"established", "notify"}
                   PROVE  /\ req'[d].gen <= gen'
                          /\ req'[d].host = host' =>
                               \/ req'[d].gen \in H'[host']
                               \/ req'[d].gen <= applied'
                               \/ \A f \in H'[host'] : f > req'[d].gen
        BY DEF ReqInv
      <3>1. UNCHANGED <<req, host, applied>> /\ gen \in Nat /\ req[d].gen \in Nat
        BY <1>t, <1>14 DEF OpEstablish, TypeOK, Fd
      <3>2. H'[host] = H[host] \cup {gen + 1}
        BY <2>1, <2>2
      <3> QED
        BY <2>2, <3>1, <3>2
    <2>7. StepForward
      BY <1>t, <1>14, <2>1, <2>2 DEF OpEstablish, TypeOK, Fd, Gen
    <2> QED
      BY <1>t, <2>1, <2>2, <2>3, <2>4, <2>5, <2>6, <2>7
  <1>15. ASSUME OpEstablishFails PROVE IInv' /\ StepForward
    <2>1. SInv' /\ H' = H
      BY <1>t, <1>15, HeldUnchanged DEF OpEstablishFails
    <2> QED
      BY <1>t, <1>15, <2>1
         DEF OpEstablishFails, TypeOK, Fd, service, Free, Idle, MonitorFree
  <1>16. ASSUME OpNotify PROVE IInv' /\ StepForward
    <2>1. host \in Hosts /\ op.gen \in Gen
      BY <1>16 DEF OpNotify
    <2>2. SInv' /\ H' = [H EXCEPT ![host] = @ \ {superseded[host][op.gen]}]
      BY <1>t, <1>16, <2>1, HeldAfterReleasePrevious DEF OnTunReplaced, OpNotify
    <2>3. /\ applied' = op.gen /\ gen' = gen /\ tunnelUp' = TRUE
          /\ mux' = IF mux = 0 THEN 0 ELSE op.gen
      BY SMTT(30), <1>t, <1>16 DEF OpNotify, OnTunReplaced, Stale, TypeOK, Fd, Gen
    <2>4. HostInv'
      BY <1>t, <1>16, <2>1, <2>2, <2>3 DEF OpNotify, SInv, TypeOK, Fd, Gen, Free
    <2>5. MuxInv'
      <3>1. superseded[host][op.gen] < op.gen /\ op.gen \in H[host] /\ op.gen <= gen
        BY <1>n, <1>16, <2>1 DEF OpNotify
      <3>2. superseded[host][op.gen] # op.gen /\ H'[host] = H[host] \ {superseded[host][op.gen]}
        BY SMTT(30), <1>t, <2>1, <2>2, <3>1 DEF TypeOK, Gen, Fd
      <3>3. op.gen \in H'[host] /\ host' = host
        BY <1>16, <3>1, <3>2 DEF OpNotify
      <3> QED
        BY <2>1, <2>3, <3>1, <3>3
    <2>6. OpInv'
      <3>1. superseded[host][op.gen] < op.gen /\ op.gen \in H[host]
        BY <1>16, <2>1 DEF OpNotify, SInv
      <3>2. superseded[host][op.gen] # op.gen /\ H'[host] = H[host] \ {superseded[host][op.gen]}
        BY SMTT(30), <1>t, <2>1, <2>2, <3>1 DEF TypeOK, Gen, Fd
      <3>3. op.gen \in H'[host] /\ host' = host
        BY <1>16, <3>1, <3>2 DEF OpNotify
      <3>4. \/ op' = [op EXCEPT !.stage = "start"] /\ op.kind \in {"first", "cold"}
            \/ op' = [op EXCEPT !.stage = "attach"]
            \/ op' = Free
        BY <1>16 DEF OpNotify
      <3>5. op \in OpType /\ (op.kind \in {"first", "cold"} => mux = 0)
        BY <1>t, <1>16 DEF TypeOK, OpType, OpKind, OpStage, OpNotify
      <3> QED
        BY <2>3, <3>3, <3>4, <3>5 DEF Free, OpType
    <2>7. ReqInv'
      <3> SUFFICES ASSUME NEW d \in Engines, req'[d].pc \in {"established", "notify"}
                   PROVE  /\ req'[d].gen <= gen'
                          /\ req'[d].host = host' =>
                               \/ req'[d].gen \in H'[host']
                               \/ req'[d].gen <= applied'
                               \/ \A f \in H'[host'] : f > req'[d].gen
        BY DEF ReqInv
      <3>1. /\ UNCHANGED <<req, host>> /\ gen \in Nat /\ applied \in Nat /\ op.gen > applied
            /\ req[d].gen \in Nat /\ op.gen \in Nat
        BY <1>t, <1>16 DEF OpNotify, TypeOK, Fd
      <3>2. superseded[host][op.gen] < op.gen /\ H'[host] = H[host] \ {superseded[host][op.gen]}
        BY <1>16, <2>1, <2>2 DEF SInv
      <3> QED
        BY <2>3, <3>1, <3>2
    <2>8. StepForward
      BY <1>t, <1>16, <2>1, <2>2, <2>3 DEF OpNotify, SInv, TypeOK, Fd, Gen, Free
    <2> QED
      BY <1>t, <2>1, <2>2, <2>3, <2>4, <2>5, <2>6, <2>7, <2>8
  <1>17. ASSUME OpStartMux PROVE IInv' /\ StepForward
    <2>1. SInv' /\ H' = H
      BY <1>t, <1>17, HeldUnchanged DEF OpStartMux
    <2> QED
      BY SMTT(30), <1>t, <1>17, <2>1 DEF OpStartMux, TypeOK, Fd, service, Free, Idle, MonitorFree
  <1>18. ASSUME OpStartMuxFails PROVE IInv' /\ StepForward
    <2>1. SInv' /\ gen' = gen /\ H' = IF tunnelUp /\ host # None THEN [H EXCEPT ![host] = {}] ELSE H
      BY <1>t, <1>18, HeldAfterCloseTun DEF OpStartMuxFails
    <2> QED
      BY SMTT(30), <1>t, <1>18, <2>1
         DEF OpStartMuxFails, TypeOK, Fd, CloseTun, DropMux, Free, Idle, MonitorFree
  <1>19. ASSUME OpAttachEngine PROVE IInv' /\ StepForward
    <2>1. SInv' /\ H' = H
      BY <1>t, <1>19, HeldUnchanged DEF OpAttachEngine
    <2>2. HostInv'
      <3>1. \A d \in Engines : core'[d] = core[d] \/ core'[d] = None \/ core'[d] = host
        BY <1>t, <1>19 DEF OpAttachEngine, TypeOK, CoreAfterStop
      <3>2. UNCHANGED <<host, listener, phase, req>>
        BY <1>19 DEF OpAttachEngine
      <3> QED
        BY <1>t, <3>1, <3>2, HostInvKept
    <2>3. MuxInv'
      BY <1>t, <1>19, <2>1
         DEF OpAttachEngine, TypeOK, Fd, service, Free, Idle, MonitorFree, CoreAfterStop
    <2>4. OpInv'
      BY <1>t, <1>19, <2>1
         DEF OpAttachEngine, TypeOK, Fd, service, Free, Idle, MonitorFree, CoreAfterStop
    <2>5. ReqInv'
      BY <1>t, <1>19, <2>1
         DEF OpAttachEngine, TypeOK, Fd, service, Free, Idle, MonitorFree, CoreAfterStop
    <2>6. StepForward
      BY <1>t, <1>19, <2>1
         DEF OpAttachEngine, TypeOK, Fd, service, Free, Idle, MonitorFree, CoreAfterStop
    <2> QED
      BY <1>t, <2>1, <2>2, <2>3, <2>4, <2>5, <2>6
  <1>20. ASSUME OpAttachEngineFails PROVE IInv' /\ StepForward
    <2>1. SInv' /\ H' = H
      BY <1>t, <1>20, HeldUnchanged DEF OpAttachEngineFails
    <2>2. HostInv'
      <3>1. \A d \in Engines : core'[d] = core[d] \/ core'[d] = None \/ core'[d] = host
        BY <1>t, <1>20 DEF OpAttachEngineFails, TypeOK, StopEngine, CoreAfterStop
      <3>2. UNCHANGED <<host, listener, phase, req>>
        BY <1>20 DEF OpAttachEngineFails
      <3> QED
        BY <1>t, <3>1, <3>2, HostInvKept
    <2>3. MuxInv'
      BY <1>t, <1>20, <2>1 DEF OpAttachEngineFails, TypeOK, Fd, service, Free, Idle,
         MonitorFree, StopEngine, CoreAfterStop
    <2>4. OpInv'
      BY <1>t, <1>20, <2>1 DEF OpAttachEngineFails, TypeOK, Fd, service, Free, Idle,
         MonitorFree, StopEngine, CoreAfterStop
    <2>5. ReqInv'
      BY <1>t, <1>20, <2>1 DEF OpAttachEngineFails, TypeOK, Fd, service, Free, Idle,
         MonitorFree, StopEngine, CoreAfterStop
    <2>6. StepForward
      BY <1>t, <1>20, <2>1 DEF OpAttachEngineFails, TypeOK, Fd, service, Free, Idle,
         MonitorFree, StopEngine, CoreAfterStop
    <2> QED
      BY <1>t, <2>1, <2>2, <2>3, <2>4, <2>5, <2>6
  <1>21. ASSUME NEW e \in Engines, Connect(e) PROVE IInv' /\ StepForward
    <2>1. SInv' /\ H' = H
      BY <1>t, <1>21, HeldUnchanged DEF Connect
    <2> QED
      BY <1>t, <1>21, <2>1
         DEF Connect, TypeOK, Fd, service, Free, Idle, MonitorFree, Begin
  <1>22. ASSUME NEW e \in Engines, RequestTun(e) PROVE IInv' /\ StepForward
    <2>1. SInv' /\ H' = H
      BY <1>t, <1>22, HeldUnchanged DEF RequestTun
    <2> QED
      BY SMTT(30), <1>t, <1>22, <2>1 DEF RequestTun, TypeOK, Fd, service, Free, Idle, MonitorFree
  <1>23. ASSUME NEW e \in Engines, RequestTunEnds(e) PROVE IInv' /\ StepForward
    <2>1. SInv' /\ H' = H
      BY <1>t, <1>23, HeldUnchanged DEF RequestTunEnds
    <2> QED
      BY <1>t, <1>23, <2>1
         DEF RequestTunEnds, TypeOK, Fd, service, Free, Idle, MonitorFree
  <1>24. ASSUME NEW e \in Engines, RequestTunEstablishes(e) PROVE IInv' /\ StepForward
    <2>1. req[e].host \in Hosts
      BY <1>24 DEF RequestTunEstablishes
    <2>2. SInv' /\ gen' = gen + 1 /\ H' = [H EXCEPT ![req[e].host] = @ \cup {gen + 1}]
      BY <1>t, <1>24, <2>1, HeldAfterEstablish DEF RequestTunEstablishes, Establish, Cfg
    <2>0. /\ UNCHANGED <<host, listener, phase, core, applied, mux, tunnelUp, op>>
          /\ req'[e].pc = "established" /\ req'[e].gen = gen + 1
          /\ req'[e].host = req[e].host /\ req[e].pc = "asked"
          /\ \A d \in Engines : d # e => req'[d] = req[d]
      BY <1>t, <1>24, RequestAfterEstablish
    <2>3. HostInv'
      <3>1. UNCHANGED <<host, listener, phase, core>>
        BY <2>0
      <3>2. \A d \in Engines :
              req'[d].pc = "idle" \/ (req[d].pc # "idle" /\ req'[d].host = req[d].host)
        BY <2>0
      <3> QED
        BY <1>t, <3>1, <3>2, HostInvKept
    <2>4. MuxInv'
      <3>1. /\ UNCHANGED <<host, applied, mux, tunnelUp, op>> /\ gen \in Nat /\ applied \in Nat
        BY <1>n, <2>0
      <3>2. \A h \in Hosts : H[h] \subseteq H'[h]
        BY <2>1, <2>2
      <3> QED
        BY <2>2, <3>1, <3>2
    <2>5. OpInv'
      <3>1. /\ UNCHANGED <<host, applied, mux, tunnelUp, op>> /\ gen \in Nat /\ applied \in Nat
        BY <1>n, <2>0
      <3>2. \A h \in Hosts : H[h] \subseteq H'[h]
        BY <2>1, <2>2
      <3>3. op.stage \in {"notify", "start"} => host \in Hosts
        OBVIOUS
      <3> QED
        BY <3>1, <3>2, <3>3
    <2>6. ReqInv'
      <3> SUFFICES ASSUME NEW d \in Engines, req'[d].pc \in {"established", "notify"}
                   PROVE  /\ req'[d].gen <= gen'
                          /\ req'[d].host = host' =>
                               \/ req'[d].gen \in H'[host']
                               \/ req'[d].gen <= applied'
                               \/ \A f \in H'[host'] : f > req'[d].gen
        BY DEF ReqInv
      <3>1. /\ UNCHANGED <<host, applied>> /\ gen \in Nat
            /\ req[d].gen \in Nat
            /\ req'[e].gen = gen + 1 /\ req'[e].host = req[e].host
            /\ d # e => req'[d] = req[d]
        BY <1>n, <2>0
      <3>2. H'[req[e].host] = H[req[e].host] \cup {gen + 1}
        BY <2>1, <2>2
      <3>3. CASE d = e
        BY <2>2, <3>1, <3>2, <3>3
      <3>4. CASE d # e
        <4>1. \A f \in H'[host] : f \in H[host] \/ f = gen + 1
          BY <2>1, <2>2
        <4>2. host \in Hosts => H[host] \subseteq H'[host]
          BY <2>1, <2>2
        <4>3. req[d].host = host => host \in Hosts
          BY <3>1, <3>4
        <4> QED
          BY <2>2, <3>1, <3>4, <4>1, <4>2, <4>3
      <3> QED
        BY <3>3, <3>4
    <2>7. StepForward
      BY <1>n, <2>0
    <2> QED
      BY <1>t, <2>1, <2>2, <2>3, <2>4, <2>5, <2>6, <2>7
  <1>25. ASSUME NEW e \in Engines, RequestTunReadsListener(e) PROVE IInv' /\ StepForward
    <2>1. req[e].host \in Hosts /\ req[e].gen \in Gen
      BY <1>25 DEF RequestTunReadsListener
    <2>2. CASE listener[req[e].host]
      <3>1. /\ req' = [req EXCEPT ![e].pc = "notify"]
            /\ UNCHANGED <<service, phase, listener, host, mux, tunnelUp, applied, op, core>>
        BY <1>25, <2>2 DEF RequestTunReadsListener
      <3>2. SInv' /\ H' = H
        BY <1>t, <3>1, HeldUnchanged
      <3>3. HostInv'
        <4>1. \A d \in Engines :
                req'[d].pc = "idle" \/ (req[d].pc # "idle" /\ req'[d].host = req[d].host)
          BY <1>t, <1>25, <3>1 DEF RequestTunReadsListener, TypeOK
        <4> QED
          BY <1>t, <3>1, <4>1, HostInvKept
      <3>4. MuxInv'
        BY <1>t, <1>25, <3>1, <3>2 DEF RequestTunReadsListener, TypeOK, Fd, service
      <3>5. OpInv'
        BY <1>t, <1>25, <3>1, <3>2 DEF RequestTunReadsListener, TypeOK, Fd, service
      <3>6. ReqInv'
        BY <1>t, <1>25, <3>1, <3>2 DEF RequestTunReadsListener, TypeOK, Fd, service
      <3>7. StepForward
        BY <1>t, <1>25, <3>1, <3>2 DEF RequestTunReadsListener, TypeOK, Fd, service
      <3> QED
        BY <1>t, <3>1, <3>2, <3>3, <3>4, <3>5, <3>6, <3>7
    <2>3. CASE ~listener[req[e].host]
      <3>1. /\ req' = [req EXCEPT ![e] = Idle] /\ ReleasePrevious(req[e].host, req[e].gen)
            /\ gen' = gen /\ live' = live
            /\ UNCHANGED <<phase, listener, host, mux, tunnelUp, applied, op, core>>
        BY <1>25, <2>3 DEF RequestTunReadsListener
      <3>2. SInv' /\ H' = [H EXCEPT ![req[e].host] = @ \ {superseded[req[e].host][req[e].gen]}]
        BY <1>t, <2>1, <3>1, HeldAfterReleasePrevious
      <3>3. req[e].host # host
        BY <2>1, <2>3
      <3>4. HostInv'
        BY SMTT(30), <1>t, <2>1, <3>1, <3>2, <3>3 DEF TypeOK, Fd, Idle
      <3>5. MuxInv'
        BY <1>t, <2>1, <3>1, <3>2, <3>3 DEF TypeOK, Fd, Idle
      <3>6. OpInv'
        BY <1>t, <2>1, <3>1, <3>2, <3>3 DEF TypeOK, Fd, Idle
      <3>7. ReqInv'
        <4> SUFFICES ASSUME NEW d \in Engines, req'[d].pc \in {"established", "notify"}
                     PROVE  /\ req'[d].gen <= gen'
                            /\ req'[d].host = host' =>
                                 \/ req'[d].gen \in H'[host']
                                 \/ req'[d].gen <= applied'
                                 \/ \A f \in H'[host'] : f > req'[d].gen
          BY DEF ReqInv
        <4>1. d # e /\ req'[d] = req[d]
          BY <1>t, <3>1 DEF TypeOK, Idle
        <4>2. req[d].host \in Hosts
          BY <4>1
        <4>3. req[d].host = host => H'[host] = H[host]
          BY <3>2, <3>3, <4>2
        <4> QED
          BY <3>1, <4>1, <4>3
      <3>8. StepForward
        BY <1>t, <2>1, <3>1, <3>2, <3>3 DEF TypeOK, Fd, Idle
      <3> QED
        BY <1>t, <3>1, <3>2, <3>3, <3>4, <3>5, <3>6, <3>7, <3>8
    <2> QED
      BY <2>2, <2>3
  <1>26. ASSUME NEW e \in Engines, RequestTunNotifies(e) PROVE IInv' /\ StepForward
    <2>1. req[e].host \in Hosts /\ req[e].gen \in Gen
      BY <1>26 DEF RequestTunNotifies
    <2>2. /\ req' = [req EXCEPT ![e] = Idle] /\ OnTunReplaced(req[e].host, req[e].gen)
          /\ op = Free /\ UNCHANGED <<phase, listener, host, op, core>>
      BY <1>26 DEF RequestTunNotifies, MonitorFree
    <2>3. SInv' /\ H' = [H EXCEPT ![req[e].host] = @ \ {superseded[req[e].host][req[e].gen]}]
      BY <1>t, <2>1, <2>2, HeldAfterReleasePrevious DEF OnTunReplaced
    <2>4. HostInv'
      <3>1. \A x \in Engines : req'[x].pc # "idle" => req'[x] = req[x]
        BY <1>t, <2>2 DEF TypeOK, Idle
      <3> QED
        BY <1>t, <2>2, <3>1
    <2>5. MuxInv'
      <3> DEFINE h == req[e].host
                 g == req[e].gen
      <3>1. superseded[h][g] < g /\ g <= gen /\ g \in Nat /\ superseded[h][g] \in Nat
        BY <1>n, <1>26, <2>1 DEF RequestTunNotifies
      <3>2. applied \in Nat /\ mux \in Nat /\ gen' = gen /\ host' = host
        BY <1>t, <2>2 DEF TypeOK, Fd, OnTunReplaced
      <3>3. CASE Stale(h, g)
        <4>1. UNCHANGED <<applied, mux, tunnelUp>>
          BY <2>2, <3>3 DEF OnTunReplaced
        <4>2. mux # 0 => mux \in H'[host]
          BY <2>1, <2>3, <3>1, <3>2, <3>3 DEF Stale
        <4> QED
          BY <3>2, <4>1, <4>2
      <3>4. CASE ~Stale(h, g)
        <4>1. h = host /\ g > applied
          BY <3>1, <3>2, <3>4 DEF Stale
        <4>2. applied' = g /\ mux' = (IF mux = 0 THEN 0 ELSE g) /\ tunnelUp' = TRUE
          BY <2>2, <3>4 DEF OnTunReplaced
        <4>3. mux # 0 => g \in H[host]
          BY <1>26, <3>1, <3>2, <4>1 DEF RequestTunNotifies
        <4>4. mux # 0 => g \in H'[host]
          BY <2>1, <2>3, <3>1, <4>1, <4>3
        <4> QED
          BY <2>1, <3>1, <3>2, <4>1, <4>2, <4>4
      <3> QED
        BY <3>3, <3>4
    <2>6. OpInv'
      BY <1>t, <1>26, <2>1, <2>2, <2>3
         DEF OnTunReplaced, Stale, SInv, TypeOK, Fd, Gen, Idle, Free, RequestTunNotifies
    <2>7. ReqInv'
      <3> SUFFICES ASSUME NEW d \in Engines, req'[d].pc \in {"established", "notify"}
                   PROVE  /\ req'[d].gen <= gen'
                          /\ req'[d].host = host' =>
                               \/ req'[d].gen \in H'[host']
                               \/ req'[d].gen <= applied'
                               \/ \A f \in H'[host'] : f > req'[d].gen
        BY DEF ReqInv
      <3>1. d # e /\ req'[d] = req[d] /\ host' = host /\ gen' = gen
        BY <1>t, <2>2 DEF TypeOK, Idle, OnTunReplaced
      <3>2. req[d].host \in Hosts /\ req[d].gen \in Nat /\ applied \in Nat /\ req[e].gen \in Nat
        BY <1>n, <3>1
      <3>3. /\ superseded[req[e].host][req[e].gen] < req[e].gen
            /\ superseded[req[e].host][req[e].gen] \in Nat
        BY <1>n, <2>1
      <3>4. CASE req[e].host = host
        <4>1. H'[host] = H[host] \ {superseded[host][req[e].gen]}
          BY <2>1, <2>3, <3>4
        <4>2. applied' >= req[e].gen /\ applied' >= applied
          BY <2>2, <3>2, <3>4 DEF OnTunReplaced, Stale
        <4>3. \A f \in H'[host] : f \in H[host]
          BY <4>1
        <4>4. req[d].gen \in H[host] => req[d].gen \in H'[host] \/ req[d].gen < req[e].gen
          BY <3>3, <3>4, <4>1
        <4>5. applied' \in Nat /\ req[d].gen <= gen
          BY SMTT(30), <1>t, <3>1 DEF TypeOK, Fd
        <4>6. CASE req[d].host = host
          <5>1. \/ req[d].gen \in H[host]
                \/ req[d].gen <= applied
                \/ \A f \in H[host] : f > req[d].gen
            BY <3>1, <4>6
          <5> QED
            BY <3>1, <3>2, <4>2, <4>3, <4>4, <4>5, <5>1
        <4> QED
          BY <3>1, <4>5, <4>6
      <3>5. CASE req[e].host # host
        <4>1. applied' = applied
          BY <2>2, <3>5 DEF OnTunReplaced, Stale
        <4>2. req[d].host = host => H'[host] = H[host]
          BY <2>1, <2>3, <3>2, <3>5
        <4> QED
          BY <3>1, <4>1, <4>2
      <3> QED
        BY <3>4, <3>5
    <2>8. StepForward
      <3>1. CASE Stale(req[e].host, req[e].gen)
        BY <1>n, <2>2, <3>1 DEF OnTunReplaced
      <3>2. CASE ~Stale(req[e].host, req[e].gen)
        <4>1. req[e].gen > applied /\ mux' = (IF mux = 0 THEN 0 ELSE req[e].gen)
          BY <1>n, <2>2, <3>2 DEF OnTunReplaced, Stale
        <4> QED
          BY <1>n, <4>1
      <3> QED
        BY <3>1, <3>2
    <2> QED
      BY <1>t, <2>1, <2>2, <2>3, <2>4, <2>5, <2>6, <2>7, <2>8
  <1>27. ASSUME SettingsChange PROVE IInv' /\ StepForward
    <2>1. SInv' /\ H' = H
      BY <1>t, <1>27, HeldUnchanged DEF SettingsChange
    <2> QED
      BY <1>t, <1>27, <2>1
         DEF SettingsChange, TypeOK, Fd, service, Free, Idle, MonitorFree
  <1>28. CASE UNCHANGED vars
    <2>1. SInv' /\ H' = H
      BY <1>t, <1>28, HeldUnchanged DEF vars
    <2> QED
      BY <1>t, <1>28, <2>1 DEF vars, TypeOK, Fd, service
  <1> QED
    BY <1>1, <1>2, <1>3, <1>4, <1>5, <1>6, <1>7, <1>8, <1>9, <1>10, <1>11, <1>12,
       <1>13, <1>14, <1>15, <1>16, <1>17, <1>18, <1>19, <1>20, <1>21, <1>22,
       <1>23, <1>24, <1>25, <1>26, <1>27, <1>28 DEF Next, OpStep

(* Type correctness, for every set of services and engines.                *)
THEOREM TypeCorrect == Spec => []TypeOK
  <1>1. Init => TInv
    BY InitTyped
  <1>2. TInv /\ [Next]_vars => TInv'
    BY NextTyped
  <1>3. TInv => TypeOK
    BY DEF TInv
  <1> QED
    BY <1>1, <1>2, <1>3, PTL DEF Spec

(* The invariant holds before any service exists.                          *)
LEMMA InitSafe == Init => IInv
  <1> SUFFICES ASSUME Init PROVE IInv
    OBVIOUS
  <1>1. TInv
    BY InitTyped
  <1>2. \A h \in Hosts : Held(h) = {}
    BY Constants DEF Init, Held
  <1>3. SInv
    BY <1>2, ManagerAssumptions DEF Init, SInv, H, Gen
  <1>4. HostInv /\ MuxInv /\ OpInv /\ ReqInv
    BY ManagerAssumptions DEF Init, HostInv, MuxInv, OpInv, ReqInv, Free, Idle
  <1> QED
    BY <1>1, <1>3, <1>4 DEF IInv

(* What abandoned pumps still read has been closed, and no TUN made since  *)
(* is one of those.                                                        *)
AbandonedInv == \A f \in orphans : f \notin open /\ f <= gen

(* Opening nothing and abandoning nothing keeps that.                      *)
LEMMA AbandonedKept ==
  ASSUME AbandonedInv, orphans' \subseteq orphans, open' \subseteq open, gen' = gen
  PROVE  AbandonedInv'
  BY DEF AbandonedInv

(* A new TUN is younger than all of them.                                  *)
LEMMA AbandonedAfterEstablish ==
  ASSUME TypeOK, AbandonedInv, NEW h \in Hosts, NEW c \in Cfg, Establish(h, c), orphans' = orphans
  PROVE  AbandonedInv'
  <1>1. gen \in Nat /\ orphans \subseteq Nat
    BY ManagerAssumptions DEF TypeOK, Gen, Fd
  <1> QED
    BY <1>1 DEF AbandonedInv, Establish

(* The pumps a session abandons are on the TUN that is closed with it.     *)
LEMMA AbandonedAfterSession ==
  ASSUME IInv, AbandonedInv, QueueTeardown, CloseTun
  PROVE  AbandonedInv'
  <1>1. CASE mux = 0
    BY <1>1 DEF QueueTeardown, CloseTun, ReleaseTun, service, AbandonedInv
  <1>2. CASE mux # 0
    <2>1. host \in Hosts /\ mux \in Held(host) /\ mux <= gen /\ tunnelUp /\ host # None
      BY <1>2, ManagerAssumptions DEF IInv, TInv, TypeOK, MuxInv, H, Fd
    <2>2. ReleaseTun(host)
      BY <2>1 DEF CloseTun
    <2> QED
      BY <2>1, <2>2 DEF ReleaseTun, QueueTeardown, AbandonedInv
  <1> QED
    BY <1>1, <1>2

(* Every step keeps it.                                                    *)
LEMMA NextAbandoned ==
  ASSUME IInv, AbandonedInv, [Next]_vars
  PROVE  AbandonedInv'
  <1>t. TypeOK /\ OpWellFormed /\ ReqWellFormed
    BY DEF IInv, TInv
  <1> USE DEF service
  <1>1. ASSUME NEW h \in Hosts, AttachHost(h) PROVE AbandonedInv'
    BY <1>1, AbandonedKept DEF AttachHost
  <1>2. ASSUME NEW h \in Hosts, DetachHost(h) PROVE AbandonedInv'
    <2>1. CASE host # h
      BY <1>2, <2>1, AbandonedKept DEF DetachHost
    <2>2. CASE host = h
      BY <1>2, <2>2, AbandonedAfterSession DEF DetachHost
    <2> QED
      BY <2>1, <2>2
  <1>3. ASSUME NEW h \in Hosts, OnDestroyReleasesTun(h) PROVE AbandonedInv'
    BY <1>3, AbandonedKept DEF OnDestroyReleasesTun, ReleaseTun
  <1>4. ASSUME OnRevoked PROVE AbandonedInv'
    BY <1>4, AbandonedAfterSession DEF OnRevoked
  <1>5. ASSUME Teardown PROVE AbandonedInv'
    BY <1>5, AbandonedKept DEF Teardown, TeardownStopsEngine, TeardownStopsMux
  <1>6. ASSUME DisconnectNone PROVE AbandonedInv'
    BY <1>6, AbandonedKept DEF DisconnectNone, CloseTun, ReleaseTun
  <1>7. ASSUME ReleaseHeldTunnel PROVE AbandonedInv'
    BY <1>7, AbandonedKept DEF ReleaseHeldTunnel, CloseTun, ReleaseTun
  <1>8. ASSUME HoldForBlocking PROVE AbandonedInv'
    BY <1>8, AbandonedKept DEF HoldForBlocking
  <1>9. ASSUME BeginBlocking PROVE AbandonedInv'
    BY <1>9, AbandonedKept DEF BeginBlocking
  <1>10. ASSUME NEW kind \in {"handover", "block"}, DisconnectHolding(kind) PROVE AbandonedInv'
    BY <1>10, AbandonedKept DEF DisconnectHolding
  <1>11. ASSUME ConnectWithoutHost PROVE AbandonedInv'
    BY <1>11, AbandonedKept DEF ConnectWithoutHost
  <1>12. ASSUME WatchdogFires PROVE AbandonedInv'
    BY <1>12, AbandonedKept DEF WatchdogFires
  <1>13. ASSUME OnHoldExpired PROVE AbandonedInv'
    BY <1>13, AbandonedKept DEF OnHoldExpired, CloseTun, ReleaseTun
  <1>14. ASSUME OpEstablish PROVE AbandonedInv'
    <2>1. host \in Hosts /\ ConfigFor(op.kind) \in Cfg
      BY <1>t, <1>14 DEF OpEstablish, OpWellFormed, ConfigFor, Cfg
    <2> QED
      BY <1>t, <1>14, <2>1, AbandonedAfterEstablish DEF OpEstablish
  <1>15. ASSUME OpEstablishFails PROVE AbandonedInv'
    BY <1>15, AbandonedKept DEF OpEstablishFails
  <1>16. ASSUME OpNotify PROVE AbandonedInv'
    BY <1>16, AbandonedKept DEF OpNotify, OnTunReplaced, ReleasePrevious
  <1>17. ASSUME OpStartMux PROVE AbandonedInv'
    BY <1>17, AbandonedKept DEF OpStartMux
  <1>18. ASSUME OpStartMuxFails PROVE AbandonedInv'
    BY <1>18, AbandonedKept DEF OpStartMuxFails, CloseTun, ReleaseTun
  <1>19. ASSUME OpAttachEngine PROVE AbandonedInv'
    BY <1>19, AbandonedKept DEF OpAttachEngine
  <1>20. ASSUME OpAttachEngineFails PROVE AbandonedInv'
    BY <1>20, AbandonedKept DEF OpAttachEngineFails
  <1>21. ASSUME NEW e \in Engines, Connect(e) PROVE AbandonedInv'
    BY <1>21, AbandonedKept DEF Connect
  <1>22. ASSUME NEW e \in Engines, RequestTun(e) PROVE AbandonedInv'
    BY <1>22, AbandonedKept DEF RequestTun
  <1>23. ASSUME NEW e \in Engines, RequestTunEnds(e) PROVE AbandonedInv'
    BY <1>23, AbandonedKept DEF RequestTunEnds
  <1>24. ASSUME NEW e \in Engines, RequestTunEstablishes(e) PROVE AbandonedInv'
    <2>1. req[e].host \in Hosts /\ "in" \in Cfg
      BY <1>t, <1>24 DEF RequestTunEstablishes, ReqWellFormed, Cfg
    <2> QED
      BY <1>t, <1>24, <2>1, AbandonedAfterEstablish DEF RequestTunEstablishes
  <1>25. ASSUME NEW e \in Engines, RequestTunReadsListener(e) PROVE AbandonedInv'
    BY <1>25, AbandonedKept DEF RequestTunReadsListener, ReleasePrevious
  <1>26. ASSUME NEW e \in Engines, RequestTunNotifies(e) PROVE AbandonedInv'
    BY <1>26, AbandonedKept DEF RequestTunNotifies, OnTunReplaced, ReleasePrevious
  <1>27. ASSUME SettingsChange PROVE AbandonedInv'
    BY <1>27, AbandonedKept DEF SettingsChange
  <1>28. CASE UNCHANGED vars
    BY <1>28, AbandonedKept DEF vars
  <1> QED
    BY <1>1, <1>2, <1>3, <1>4, <1>5, <1>6, <1>7, <1>8, <1>9, <1>10, <1>11, <1>12,
       <1>13, <1>14, <1>15, <1>16, <1>17, <1>18, <1>19, <1>20, <1>21, <1>22,
       <1>23, <1>24, <1>25, <1>26, <1>27, <1>28 DEF Next, OpStep

(* A path that is on what its service holds is open, and no abandoned pump *)
(* is on it.                                                               *)
LEMMA PathIsOpen ==
  ASSUME IInv, AbandonedInv
  PROVE  PacketPathOpen
  <1>1. mux # 0 => mux \in open
    BY DEF IInv, MuxInv, SInv
  <1> QED
    BY <1>1 DEF AbandonedInv, PacketPathOpen

(* While a session lasts its packet path is on an open descriptor of its   *)
(* own: setTun() has moved the pumps before releasePreviousTun() closes    *)
(* what they read, in whatever order requestTun's threads establish and    *)
(* notify, and pumps that detachHost() or onRevoked() abandoned are on     *)
(* other descriptors, which stay closed.                                   *)
THEOREM PacketPathStaysOpen == Spec => []PacketPathOpen
  <1>1. Init => IInv /\ AbandonedInv
    BY InitSafe DEF Init, AbandonedInv
  <1>2. IInv /\ AbandonedInv /\ [Next]_vars => IInv' /\ AbandonedInv'
    BY NextSafe, NextAbandoned
  <1>3. IInv /\ AbandonedInv => PacketPathOpen
    BY PathIsOpen
  <1> QED
    BY <1>1, <1>2, <1>3, PTL DEF Spec

(* onTunReplaced() never takes the pumps back to an older TUN.             *)
THEOREM PacketPathMovesForward == Spec => NeverMovesBack
  <1>1. Init => IInv
    BY InitSafe
  <1>2. IInv /\ [Next]_vars => IInv' /\ [mux # 0 /\ mux' # 0 => mux' >= mux]_vars
    BY NextSafe DEF StepForward
  <1> QED
    BY <1>1, <1>2, PTL DEF Spec, NeverMovesBack

=============================================================================
