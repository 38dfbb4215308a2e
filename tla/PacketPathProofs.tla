-------------------------- MODULE PacketPathProofs --------------------------
(***************************************************************************)
(* TunnelManager implements PacketPath, for every set of services and      *)
(* engines and every bound on the generations.                             *)
(***************************************************************************)
EXTENDS TunnelManagerProofs

(* An engine is attached only to a packet path: the path is there from the *)
(* moment connect() finds or makes it until the engine is gone again.      *)
EngineInv ==
  /\ engine # None => mux # 0
  /\ op.kind = "replace" => mux # 0
  /\ op.stage = "attach" => mux # 0

(* Closing the TUN, or letting a superseded one go, opens nothing.         *)
LEMMA CloseTunCloses ==
  ASSUME CloseTun
  PROVE  open' \subseteq open /\ gen' = gen
  BY DEF CloseTun, ReleaseTun, service

(* What a step does that the path does not see.                            *)
LEMMA Unseen ==
  ASSUME UNCHANGED <<open, gen, mux, engine, orphans>>
  PROVE  UNCHANGED Path!vars
  BY DEF Path!vars

(* A step that ends the path, with its engine.                             *)
LEMMA Ends ==
  ASSUME mux' = 0, engine' = None, open' \subseteq open, gen' = gen, orphans' = orphans
  PROVE  Path!Next
  BY DEF Path!Next, Path!End

(* A step that closes descriptors under a path that stays where it is.     *)
LEMMA Closes ==
  ASSUME open' \subseteq open, gen' = gen, mux' = mux, engine' = engine, orphans' = orphans, PacketPathOpen'
  PROVE  Path!Next
  BY DEF Path!Next, Path!Close, PacketPathOpen

(* A step that abandons the path, with its TUN.                            *)
LEMMA Abandons ==
  ASSUME IInv, QueueTeardown, CloseTun, mux' = 0, engine' = None
  PROVE  Path!Next
  <1>1. open' \subseteq open /\ gen' = gen
    BY CloseTunCloses
  <1>2. CASE mux = 0
    <2>1. orphans' = orphans
      BY <1>2 DEF QueueTeardown
    <2> QED
      BY <1>1, <2>1, Ends
  <1>3. CASE mux # 0
    <2>1. host \in Hosts /\ mux \in Held(host) /\ tunnelUp /\ host # None
      BY <1>3, ManagerAssumptions DEF IInv, MuxInv, H
    <2>2. open' \subseteq open \ {mux}
      BY <1>1, <2>1 DEF CloseTun, ReleaseTun
    <2>3. orphans' = orphans \cup {mux}
      BY <1>3 DEF QueueTeardown
    <2> QED
      BY <1>1, <1>3, <2>2, <2>3 DEF Path!Next, Path!Abandon
  <1> QED
    BY <1>2, <1>3

(* A new TUN, which the path does not read yet.                            *)
LEMMA Opens ==
  ASSUME NEW h \in Hosts, NEW c \in Cfg, Establish(h, c), mux' = mux, engine' = engine, orphans' = orphans
  PROVE  Path!Next
  BY DEF Path!Next, Path!Open, Establish

(* A notification moves the path to a younger TUN, or leaves it.           *)
LEMMA Replaces ==
  ASSUME IInv, PacketPathOpen', NEW h \in Hosts, NEW g \in Gen, OnTunReplaced(h, g),
         engine' = engine, orphans' = orphans
  PROVE  /\ Path!Next
         /\ mux' # 0 <=> mux # 0
  <1>1. open' \subseteq open /\ gen' = gen
    BY DEF OnTunReplaced, ReleasePrevious
  <1>3. CASE mux' = mux
    BY <1>1, <1>3, Closes
  <1>4. CASE mux' # mux
    <2>1. mux # 0 /\ mux' = g /\ g > applied
      BY <1>4, ManagerAssumptions DEF OnTunReplaced, Stale, IInv, TInv, TypeOK, Gen, Fd
    <2>2. mux' > mux /\ mux' # 0
      BY <2>1, ManagerAssumptions DEF IInv, MuxInv, TInv, TypeOK, Gen, Fd
    <2> QED
      BY <1>1, <2>1, <2>2 DEF Path!Next, Path!Move, PacketPathOpen
  <1> QED
    BY <1>3, <1>4

(* Every step keeps the engine on a path and is a step of PacketPath, or   *)
(* one that it does not see.                                               *)
LEMMA NextOnPath ==
  ASSUME IInv, AbandonedInv, EngineInv, [Next]_vars
  PROVE  EngineInv' /\ [Path!Next]_(Path!vars)
  <1>i. IInv' /\ AbandonedInv' /\ PacketPathOpen'
    <2>1. IInv' /\ AbandonedInv'
      BY NextSafe, NextAbandoned
    <2>2. (IInv /\ AbandonedInv => PacketPathOpen)'
      BY PathIsOpen, PTL
    <2> QED
      BY <2>1, <2>2
  <1>t. TypeOK /\ TypeOK' /\ OpWellFormed /\ ReqWellFormed /\ OpInv /\ MuxInv
    BY <1>i DEF IInv, TInv
  <1> DEFINE Good == EngineInv' /\ [Path!Next]_(Path!vars)
  <1> USE Constants DEF EngineInv
  <1>1. ASSUME NEW h \in Hosts, AttachHost(h) PROVE Good
    <2>1. UNCHANGED <<open, gen, mux, engine, orphans>>
      BY <1>1 DEF AttachHost, service
    <2> QED
      BY <1>t, <1>1, <2>1, Unseen DEF AttachHost
  <1>2. ASSUME NEW h \in Hosts, DetachHost(h) PROVE Good
    <2>1. CASE host # h
      <3>1. UNCHANGED <<open, gen, mux, engine, orphans>>
        BY <1>2, <2>1 DEF DetachHost, service
      <3> QED
        BY <1>2, <3>1, Unseen DEF DetachHost
    <2>2. CASE host = h
      <3>1. mux' = 0 /\ engine' = None /\ op' = Free /\ CloseTun /\ QueueTeardown
        BY <1>2, <2>2 DEF DetachHost, MonitorFree
      <3> QED
        BY <3>1, Abandons DEF Free
    <2> QED
      BY <2>1, <2>2
  <1>3. ASSUME NEW h \in Hosts, OnDestroyReleasesTun(h) PROVE Good
    <2>1. open' \subseteq open /\ gen' = gen /\ mux' = mux /\ engine' = engine /\ op' = op /\ orphans' = orphans
      BY <1>3 DEF OnDestroyReleasesTun, ReleaseTun
    <2> QED
      BY <1>i, <2>1, Closes
  <1>4. ASSUME OnRevoked PROVE Good
    <2>1. mux' = 0 /\ engine' = None /\ op' = Free /\ CloseTun /\ QueueTeardown
      BY <1>4 DEF OnRevoked, DropMux, MonitorFree
    <2> QED
      BY <2>1, Abandons DEF Free
  <1>5. ASSUME Teardown PROVE Good
    <2>1. UNCHANGED <<open, gen, mux, engine, op>> /\ orphans' \subseteq orphans
      BY <1>5 DEF Teardown, TeardownStopsEngine, TeardownStopsMux, service
    <2> QED
      BY <2>1 DEF Path!Next, Path!PumpsStop
  <1>6. ASSUME DisconnectNone PROVE Good
    <2>1. mux' = 0 /\ engine' = None /\ op' = Free /\ CloseTun /\ orphans' = orphans
      BY <1>6 DEF DisconnectNone, StopEngine, DropMux, MonitorFree
    <2> QED
      BY <2>1, CloseTunCloses, Ends DEF Free
  <1>7. ASSUME ReleaseHeldTunnel PROVE Good
    <2>1. mux' = 0 /\ engine' = None /\ op' = Free /\ CloseTun /\ orphans' = orphans
      BY <1>7 DEF ReleaseHeldTunnel, HasHeldTunnel, DropMux, MonitorFree
    <2> QED
      BY <2>1, CloseTunCloses, Ends DEF Free
  <1>8. ASSUME HoldForBlocking PROVE Good
    <2>1. UNCHANGED <<open, gen, mux, engine, orphans>>
      BY <1>8 DEF HoldForBlocking, service
    <2> QED
      BY <1>t, <1>8, <2>1, Unseen DEF HoldForBlocking, Begin
  <1>9. ASSUME BeginBlocking PROVE Good
    <2>1. UNCHANGED <<open, gen, mux, engine, orphans>>
      BY <1>9 DEF BeginBlocking, service
    <2> QED
      BY <1>t, <1>9, <2>1, Unseen DEF BeginBlocking, Begin
  <1>10. ASSUME NEW kind \in {"handover", "block"}, DisconnectHolding(kind) PROVE Good
    <2>1. engine' = None /\ UNCHANGED <<open, gen, mux, orphans>>
      BY <1>10 DEF DisconnectHolding, StopEngine, service
    <2>2. op'.kind # "replace" /\ op'.stage # "attach"
      BY <1>10 DEF DisconnectHolding, Begin, MonitorFree, Free
    <2> QED
      BY <2>1, <2>2 DEF Path!Next, Path!Detach
  <1>11. ASSUME ConnectWithoutHost PROVE Good
    <2>1. UNCHANGED <<open, gen, mux, engine, orphans>>
      BY <1>11 DEF ConnectWithoutHost, service
    <2> QED
      BY <1>t, <1>11, <2>1, Unseen DEF ConnectWithoutHost
  <1>12. ASSUME WatchdogFires PROVE Good
    <2>1. UNCHANGED <<open, gen, mux, engine, orphans>>
      BY <1>12 DEF WatchdogFires, service
    <2> QED
      BY <1>t, <1>12, <2>1, Unseen DEF WatchdogFires
  <1>13. ASSUME OnHoldExpired PROVE Good
    <2>1. CASE UNCHANGED <<service, mux>>
      <3>1. UNCHANGED <<open, gen, mux, engine, orphans, op>>
        BY <1>13, <2>1 DEF OnHoldExpired, service
      <3> QED
        BY <3>1, Unseen
    <2>2. CASE HasHeldTunnel /\ DropMux /\ CloseTun
      <3>1. mux' = 0 /\ engine' = None /\ op' = Free /\ orphans' = orphans
        BY <1>13, <2>2 DEF OnHoldExpired, HasHeldTunnel, DropMux, MonitorFree
      <3> QED
        BY <2>2, <3>1, CloseTunCloses, Ends DEF Free
    <2> QED
      BY <1>13, <2>1, <2>2 DEF OnHoldExpired
  <1>14. ASSUME OpEstablish PROVE Good
    <2>1. host \in Hosts /\ ConfigFor(op.kind) \in Cfg
      BY <1>t, <1>14 DEF OpEstablish, OpWellFormed, ConfigFor, Cfg
    <2>2. Establish(host, ConfigFor(op.kind)) /\ mux' = mux /\ engine' = engine /\ orphans' = orphans
      BY <1>14 DEF OpEstablish
    <2>3. op'.kind = op.kind /\ op'.stage = "notify"
      BY <1>t, <1>14 DEF OpEstablish, TypeOK
    <2> QED
      BY <2>1, <2>2, <2>3, Opens
  <1>15. ASSUME OpEstablishFails PROVE Good
    <2>1. UNCHANGED <<open, gen, mux, engine, orphans>> /\ op' = Free
      BY <1>15 DEF OpEstablishFails, service
    <2> QED
      BY <2>1, Unseen DEF Free
  <1>16. ASSUME OpNotify PROVE Good
    <2>1. host \in Hosts /\ op.gen \in Gen
      BY <1>t, <1>16 DEF OpNotify, OpWellFormed
    <2>2. Path!Next /\ (mux' # 0 <=> mux # 0) /\ engine' = engine
      BY <1>i, <1>16, <2>1, Replaces DEF OpNotify
    <2>3. /\ op'.kind = "replace" => op.kind = "replace"
          /\ op'.stage = "attach" => op.kind = "replace"
      BY <1>t, <1>16 DEF OpNotify, TypeOK, Free
    <2> QED
      BY <2>2, <2>3
  <1>17. ASSUME OpStartMux PROVE Good
    <2>1. mux = 0 /\ op.gen \in open \ orphans /\ op.gen # 0
      BY <1>t, <1>17 DEF OpStartMux, OpInv, OpWellFormed, IInv, SInv, AbandonedInv
    <2>2. mux' = op.gen /\ UNCHANGED <<open, gen, engine, orphans>>
      BY <1>17 DEF OpStartMux, service
    <2> QED
      BY <2>1, <2>2 DEF Path!Next, Path!Begin
  <1>18. ASSUME OpStartMuxFails PROVE Good
    <2>1. CloseTun /\ mux' = mux /\ engine' = engine /\ op' = Free /\ orphans' = orphans
      BY <1>18 DEF OpStartMuxFails
    <2> QED
      BY <1>i, <2>1, CloseTunCloses, Closes DEF Free
  <1>19. ASSUME OpAttachEngine PROVE Good
    <2>1. mux # 0 /\ engine' # None
      BY <1>t, <1>19, ManagerAssumptions DEF OpAttachEngine, OpWellFormed
    <2>2. UNCHANGED <<open, gen, mux, orphans>> /\ op' = Free
      BY <1>19 DEF OpAttachEngine, service
    <2> QED
      BY <2>1, <2>2 DEF Path!Next, Path!Attach, Free
  <1>20. ASSUME OpAttachEngineFails PROVE Good
    <2>1. engine' = None /\ UNCHANGED <<open, gen, mux, orphans>> /\ op' = Free
      BY <1>20 DEF OpAttachEngineFails, StopEngine, service
    <2> QED
      BY <2>1 DEF Path!Next, Path!Detach, Free
  <1>21. ASSUME NEW e \in Engines, Connect(e) PROVE Good
    <2>1. UNCHANGED <<open, gen, mux, engine, orphans>>
      BY <1>21 DEF Connect, service
    <2>2. op'.kind = "replace" \/ op'.stage = "attach" => mux # 0
      BY <1>21 DEF Connect, Begin
    <2> QED
      BY <2>1, <2>2, Unseen
  <1>22. ASSUME NEW e \in Engines, RequestTun(e) PROVE Good
    <2>1. UNCHANGED <<open, gen, mux, engine, orphans>>
      BY <1>22 DEF RequestTun, service
    <2> QED
      BY <1>t, <1>22, <2>1, Unseen DEF RequestTun
  <1>23. ASSUME NEW e \in Engines, RequestTunEnds(e) PROVE Good
    <2>1. UNCHANGED <<open, gen, mux, engine, orphans>>
      BY <1>23 DEF RequestTunEnds, service
    <2> QED
      BY <1>t, <1>23, <2>1, Unseen DEF RequestTunEnds
  <1>24. ASSUME NEW e \in Engines, RequestTunEstablishes(e) PROVE Good
    <2>1. req[e].host \in Hosts /\ "in" \in Cfg
      BY <1>t, <1>24 DEF RequestTunEstablishes, ReqWellFormed, Cfg
    <2>2. Establish(req[e].host, "in") /\ UNCHANGED <<mux, engine, op, orphans>>
      BY <1>24 DEF RequestTunEstablishes
    <2> QED
      BY <2>1, <2>2, Opens
  <1>25. ASSUME NEW e \in Engines, RequestTunReadsListener(e) PROVE Good
    <2>1. open' \subseteq open /\ UNCHANGED <<gen, mux, engine, op, orphans>>
      BY <1>25 DEF RequestTunReadsListener, ReleasePrevious, service
    <2> QED
      BY <1>i, <2>1, Closes
  <1>26. ASSUME NEW e \in Engines, RequestTunNotifies(e) PROVE Good
    <2>1. req[e].host \in Hosts /\ req[e].gen \in Gen
      BY <1>t, <1>26 DEF RequestTunNotifies, ReqWellFormed
    <2>2. Path!Next /\ (mux' # 0 <=> mux # 0) /\ engine' = engine /\ op' = op
      BY <1>i, <1>26, <2>1, Replaces DEF RequestTunNotifies
    <2> QED
      BY <2>2
  <1>27. ASSUME SettingsChange PROVE Good
    <2>1. UNCHANGED <<open, gen, mux, engine, orphans>>
      BY <1>27 DEF SettingsChange, service
    <2> QED
      BY <1>t, <1>27, <2>1, Unseen DEF SettingsChange
  <1>28. ASSUME UNCHANGED vars PROVE Good
    <2>1. UNCHANGED <<open, gen, mux, engine, orphans, op>>
      BY <1>28 DEF vars, service
    <2> QED
      BY <2>1, Unseen
  <1> QED
    BY <1>1, <1>2, <1>3, <1>4, <1>5, <1>6, <1>7, <1>8, <1>9, <1>10, <1>11, <1>12, <1>13,
       <1>14, <1>15, <1>16, <1>17, <1>18, <1>19, <1>20, <1>21, <1>22, <1>23, <1>24, <1>25,
       <1>26, <1>27, <1>28 DEF Next, OpStep

(* The manager, the services and the engines' threads implement PacketPath:*)
(* one path, on an open TUN, that moves only to younger ones and is left   *)
(* before its TUN is closed, and engines that have a path to carry.        *)
THEOREM ManagerImplementsPacketPath == Spec => ImplementsPacketPath
  <1>1. Init => IInv /\ AbandonedInv /\ EngineInv /\ Path!Init
    BY InitSafe DEF Init, AbandonedInv, EngineInv, Free, Path!Init
  <1>2. IInv /\ AbandonedInv /\ EngineInv /\ [Next]_vars
          => IInv' /\ AbandonedInv' /\ EngineInv' /\ [Path!Next]_(Path!vars)
    BY NextSafe, NextAbandoned, NextOnPath
  <1> QED
    BY <1>1, <1>2, PTL DEF Spec, ImplementsPacketPath, Path!Spec

=============================================================================
