--------------------------- MODULE VpnSessionProofs ---------------------------
(***************************************************************************)
(* Proofs about VpnSession: its types, that the user's disconnect holds    *)
(* back the app's own connects, and that a session being torn down gets no *)
(* engine again.                                                           *)
(*                                                                         *)
(* Neither of the last two is inductive.  UserStopStands needs StopInv:    *)
(* what a standing disconnect says of the published facts and of every     *)
(* connect still on its way, since a user's own would take the stand-down  *)
(* back.  TornDownStartStays needs IdInv: a connect on its way has an id   *)
(* of its own, so none can start a session that is being torn down, and a  *)
(* teardown has left no start of that session behind.                      *)
(***************************************************************************)
EXTENDS VpnSession, TLAPS

Users == [autoConnect : BOOLEAN, wants : BOOLEAN]
Accts == [known : {"okay", "expired"}, server : {"okay", "expired"}]

(* The parts of TypeOK.                                                    *)
NetT == net \in Places /\ detail \in Places /\ changing \in BOOLEAN /\ secured \in [Networks -> BOOLEAN]
StateT == info \in Infos /\ facts \in Facts /\ user \in Users /\ acct \in Accts
VpnT == vpn \in Vpns
BeT == be \in Backends /\ emits \subseteq Emissions
ConnectT ==
  /\ request \subseteq Sources /\ attempt \in [BOOLEAN -> Attempts] /\ launching \subseteq [id : Ids, ended : BOOLEAN]
  /\ driver \in Drivers
EndsT == endings \subseteq Ends
CountT == events \in 0..MaxEvents /\ stopped \in BOOLEAN
TInv == NetT /\ StateT /\ VpnT /\ BeT /\ ConnectT /\ EndsT /\ CountT

(* While the user's disconnect stands, the network is published as stood   *)
(* down, and no connect on its way is the user's or the app's own.         *)
StopInv ==
  stopped =>
    /\ detail = net /\ ~changing /\ facts.isDown
    /\ "User" \notin request
    /\ \A w \in BOOLEAN : attempt[w].pc # "none" => attempt[w].src # "User"
    /\ driver.pc # "off" => driver.src # "User"
    /\ info.act # "connect" /\ attempt[FALSE].pc = "none"

TearingDown == {"stop", "backend"}

(* A connect on its way has an id of its own, and a session being torn     *)
(* down has no start left and, past its stop, no engine.                   *)
IdInv ==
  /\ \A w \in BOOLEAN : attempt[w].pc # "none" =>
       /\ attempt[w].id \in Ids /\ attempt[w].id # be.id
       /\ \A l \in launching : l.id # attempt[w].id
       /\ \A e \in endings : e.of # attempt[w].id
  /\ \A w, x \in BOOLEAN : w # x /\ attempt[w].pc # "none" /\ attempt[x].pc # "none" => attempt[w].id # attempt[x].id
  /\ \A l \in launching : l.id # be.id /\ \A e \in endings : e.of # l.id
  /\ \A l, m \in launching : l.id = m.id => l = m
  /\ \A e \in endings : e.kind \in TearingDown /\ e.of = be.id =>
       ~be.start /\ (e.kind = "backend" => be.engine = "off")

SInv == TInv /\ StopInv /\ IdInv

-----------------------------------------------------------------------------
(* Operators.                                                              *)

(* The parts make up the type invariant.                                   *)
LEMMA PartsOfTypeOK == TInv <=> TypeOK
  BY DEF TInv, TypeOK, NetT, StateT, VpnT, BeT, ConnectT, EndsT, CountT, Users, Accts

(* Whatever the inputs, the policy names a mode.                           *)
LEMMA ModeNamed == \A i, end : serviceModeAfterSession(i, end) \in Modes
<1>1. \A i : IdleMode(i) \in Modes
  BY DEF IdleMode, Modes, Watching, Failed
<1> QED BY <1>1 DEF serviceModeAfterSession, Modes, Failed

(* A verdict on a session end is a mode and whether traffic is held.       *)
LEMMA VerdictTyped == \A i, end : Verdict(i, end) \in Verdicts
<1> TAKE i, end
<1>1. serviceModeAfterSession(i, end) \in Modes
  BY ModeNamed
<1>2. shouldBlockOutsideVpn(i, end) \in BOOLEAN
  BY DEF shouldBlockOutsideVpn
<1> QED BY <1>1, <1>2 DEF Verdict, Verdicts

(* The app connects by itself only on a network that is not stood down.    *)
LEMMA AutoConnectGuarded ==
  ASSUME NEW s, NEW f, NEW u, NEW a, NEW v,
         shouldAutoConnect(PolicyInput(s, f, u, a, v))
  PROVE  ~f.isDown
  BY DEF shouldAutoConnect, standsDown, PolicyInput

(* endSession leaves a session.                                            *)
LEMMA EndSessionTyped ==
  ASSUME NEW v \in Vpns, NEW verdict \in Verdicts, NEW id
  PROVE  EndSession(v, verdict, id) \in Vpns
<1> DEFINE tun == IF verdict.blocks /\ v.tun = "none" THEN "block" ELSE v.tun
           mode == IF verdict.mode \in Failed THEN IF tun = "none" THEN "Failed" ELSE "FailedBlocking" ELSE verdict.mode
           r == EndSession(v, verdict, id)
<1>1. tun \in {"none", "engine", "handover", "block"}
  BY DEF Vpns
<1>2. mode \in Modes
  BY DEF Verdicts, Modes, Failed
<1>3. \/ r = v
      \/ r = [v EXCEPT !.tun = tun]
      \/ r = [v EXCEPT !.tun = tun, !.service = "stopping"]
      \/ r = [v EXCEPT !.tun = tun, !.mode = mode] /\ mode # "Off"
  <2> HIDE DEF tun, mode
  <2> QED BY DEF EndSession, tun, mode
<1> HIDE DEF tun, mode, r
<1>4. r \in Vpns
  BY <1>1, <1>2, <1>3 DEF Vpns
<1> QED BY <1>4 DEF r

(* A start command leaves a session.                                       *)
LEMMA StartedTyped ==
  ASSUME NEW v \in Vpns, NEW sticky \in BOOLEAN
  PROVE  Started(v, sticky) \in Vpns
  BY DEF Started, Vpns

(* What the user and the device say of a network is a fact; standing it    *)
(* down holds.                                                             *)
LEMMA FactsTyped ==
  ASSUME NEW f \in Facts, detail \in Places
  PROVE  /\ Published(f) \in Facts /\ ClearStandDown(f) \in Facts /\ OptIn(f) \in Facts
         /\ StandDown(f) \in Facts /\ StandDown(f).isDown
<1>1. \A g \in Facts : Published(g) \in Facts
  BY DEF Published, Facts
<1>2. /\ [f EXCEPT !.down = None, !.unnamed = FALSE] \in Facts /\ [f EXCEPT !.in = detail] \in Facts
      /\ [f EXCEPT !.unnamed = TRUE] \in Facts /\ [f EXCEPT !.down = detail] \in Facts
  BY DEF Facts, Places
<1>3. ClearStandDown(f) \in Facts /\ OptIn(f) \in Facts
  BY <1>1, <1>2 DEF ClearStandDown, OptIn
<1>4. \A g \in Facts : g.unnamed \/ (detail # None /\ g.down = detail) => Published(g).isDown
  BY DEF Published, Facts
<1>5. PICK g \in Facts : StandDown(f) = Published(g) /\ (g.unnamed \/ (detail # None /\ g.down = detail))
  <2>1. CASE detail = None
    <3>1. [f EXCEPT !.unnamed = TRUE].unnamed
      BY DEF Facts
    <3> QED BY <2>1, <3>1, <1>2 DEF StandDown
  <2>2. CASE detail # None
    <3>1. [f EXCEPT !.down = detail].down = detail
      BY DEF Facts
    <3> QED BY <2>2, <3>1, <1>2 DEF StandDown
  <2> QED BY <2>1, <2>2
<1> QED BY <1>1, <1>3, <1>4, <1>5

(* The row read for the network is a row.                                  *)
LEMMA RowTyped == ASSUME NetT PROVE DatabaseRow \in [name : Places, on : BOOLEAN]
  BY DEF NetT, DatabaseRow, NoRow, Places

(* A session end that is no teardown names no session.                     *)
Unnamed(e) == e \in Ends /\ e.kind \notin TearingDown /\ e.of = None
LaunchedKinds == {"controller", "superseded", "service"}

(* Session ends, launched or of a backend, are typed.                      *)
LEMMA EndTyped ==
  /\ \A k \in LaunchedKinds, end \in SessionEnds \cup {"none"} : Unnamed(LaunchedEnd(k, end))
  /\ \A err \in Errors : Unnamed(LaunchedDisconnect(err))
  /\ \A verdict \in Verdicts, err \in Errors, of \in IdOrNone, via \in BOOLEAN :
       LET e == BackendEnd(verdict, err, of, via)
       IN e \in Ends /\ e.kind = "stop" /\ e.of = of
<1>1. NoVerdict \in Verdicts
  BY DEF NoVerdict, Verdicts, Modes
<1>2. ASSUME NEW k \in LaunchedKinds, NEW end \in SessionEnds \cup {"none"}
      PROVE  Unnamed(LaunchedEnd(k, end))
  BY <1>1 DEF LaunchedEnd, Ends, Errors, LaunchedKinds, Unnamed, TearingDown, IdOrNone
<1>3. ASSUME NEW err \in Errors
      PROVE  Unnamed(LaunchedDisconnect(err))
  BY <1>1 DEF LaunchedDisconnect, Ends, Unnamed, TearingDown, IdOrNone
<1>4. ASSUME NEW verdict \in Verdicts, NEW err \in Errors, NEW of \in IdOrNone, NEW via \in BOOLEAN
      PROVE  LET e == BackendEnd(verdict, err, of, via)
             IN e \in Ends /\ e.kind = "stop" /\ e.of = of
  BY DEF BackendEnd, Ends
<1> QED BY <1>2, <1>3, <1>4

(* States handed to setState are typed.                                    *)
LEMMA StatesTyped ==
  ASSUME be \in Backends
  PROVE  /\ Terminal \in Emissions
         /\ \A err : Gone(err) \in Emissions
         /\ \A v, verdict, id : Settled(v, verdict, id) \subseteq Emissions
         /\ \A status \in Statuses, id \in IdOrNone, from \in {"connect", "backend"} :
              Emission(status, id, "none", from) \in Emissions
<1>1. Terminal \in Emissions
  BY DEF Terminal, Emission, Emissions, Statuses, IdOrNone
<1>2. \A err : Gone(err) \in Emissions
  BY DEF Gone, Emission, Emissions, Statuses, Backends
<1>3. \A status \in Statuses, id \in IdOrNone, from \in {"connect", "backend"} :
        Emission(status, id, "none", from) \in Emissions
  BY DEF Emission, Emissions
<1> QED BY <1>1, <1>2, <1>3 DEF Settled

(* setState keeps the states on their way typed.                           *)
LEMMA SetStatesTyped ==
  ASSUME emits \subseteq Emissions, NEW states, states \subseteq Emissions, SetStates(states)
  PROVE  emits' \subseteq Emissions
  BY DEF SetStates

(* An outside event is counted within the bound.                           *)
LEMMA EventCounted == ASSUME CountT, Event PROVE events' \in 0..MaxEvents
  BY SessionAssumption DEF CountT, Event

-----------------------------------------------------------------------------
(* What most steps do to the connects, the backend and the session ends.   *)

(* A connect being prepared goes on under its own id, or is gone.          *)
Carried(w) ==
  attempt'[w].pc # "none" =>
    attempt[w].pc # "none" /\ attempt'[w].id = attempt[w].id /\ attempt'[w].src = attempt[w].src

(* No connect and no walk is new.                                          *)
ConnectsCarried ==
  /\ "User" \in request' => "User" \in request
  /\ \A w \in BOOLEAN : Carried(w)
  /\ launching' \subseteq launching
  /\ driver'.pc # "off" => driver.pc # "off" /\ driver'.src = driver.src

(* The backend keeps its session, and an engine comes only from a start.   *)
BackendCarried ==
  /\ be'.id = be.id /\ (be'.start => be.start)
  /\ be'.engine # "off" => be.engine # "off" \/ be.start

(* A teardown that is new has left no start, and one that goes on has      *)
(* stopped the engine.                                                     *)
NewTeardown(e) == e.kind = "stop" /\ e.of = be.id /\ ~be'.start
EndsCarried ==
  \A e \in endings' :
    \/ e \in endings \/ Unnamed(e) \/ NewTeardown(e)
    \/ be'.engine = "off" /\ \E d \in endings : d.kind = "stop" /\ e.of = d.of

(* The user's disconnect, if it stands, stood.                             *)
StopCarried ==
  stopped' => stopped /\ detail' = net' /\ ~changing' /\ facts'.isDown /\ info'.act # "connect"

(* Steps that carry connects, backend and ends on keep the ids apart ...   *)
LEMMA CarriedIds ==
  ASSUME SInv, ConnectsCarried, BackendCarried, EndsCarried
  PROVE  IdInv'
<1>1. None \notin Ids
  BY SessionAssumption
<1>2. \A e \in endings' : e.of \in {None, be.id} \/ \E d \in endings : d.of = e.of
  BY DEF EndsCarried, Unnamed, NewTeardown
<1>3. \A w \in BOOLEAN : attempt'[w].pc # "none" =>
        /\ attempt'[w].id \in Ids /\ attempt'[w].id # be'.id
        /\ \A l \in launching' : l.id # attempt'[w].id
        /\ \A e \in endings' : e.of # attempt'[w].id
  BY <1>1, <1>2 DEF ConnectsCarried, Carried, BackendCarried, SInv, IdInv
<1>4. \A x, y \in BOOLEAN : x # y /\ attempt'[x].pc # "none" /\ attempt'[y].pc # "none" => attempt'[x].id # attempt'[y].id
  BY DEF ConnectsCarried, Carried, SInv, IdInv
<1>5. \A l \in launching' : l.id # be'.id /\ \A e \in endings' : e.of # l.id
  <2>1. \A l \in launching' : l \in launching /\ l.id \in Ids
    BY DEF ConnectsCarried, SInv, TInv, ConnectT
  <2> QED BY <1>1, <1>2, <2>1 DEF BackendCarried, SInv, IdInv
<1>6. ASSUME NEW e \in endings', e.kind \in TearingDown, e.of = be'.id
      PROVE  ~be'.start /\ (e.kind = "backend" => be'.engine = "off")
  <2>1. e.of = be.id
    BY <1>6 DEF BackendCarried
  <2>2. CASE e \in endings
    BY <1>6, <2>1, <2>2 DEF BackendCarried, SInv, IdInv
  <2>3. CASE NewTeardown(e)
    BY <2>3 DEF NewTeardown
  <2>4. ASSUME be'.engine = "off", NEW d \in endings, d.kind = "stop", e.of = d.of
        PROVE  ~be'.start /\ (e.kind = "backend" => be'.engine = "off")
    BY <2>1, <2>4 DEF BackendCarried, SInv, IdInv, TearingDown
  <2>5. ~Unnamed(e)
    BY <1>6 DEF Unnamed
  <2> QED BY <2>2, <2>3, <2>4, <2>5 DEF EndsCarried
<1>7. \A l, m \in launching' : l.id = m.id => l = m
  BY DEF ConnectsCarried, SInv, IdInv
<1> QED BY <1>3, <1>4, <1>5, <1>6, <1>7 DEF IdInv

(* ... and the invariant, if the user's disconnect only stood.             *)
LEMMA CarriedKeeps ==
  ASSUME SInv, TInv', StopCarried, ConnectsCarried, BackendCarried, EndsCarried
  PROVE  SInv'
<1>1. StopInv'
  <2> SUFFICES ASSUME stopped' PROVE StopInv!2'
    BY DEF StopInv
  <2>1. StopInv!2 /\ detail' = net' /\ ~changing' /\ facts'.isDown /\ info'.act # "connect"
    BY DEF StopCarried, SInv, StopInv
  <2>2. \A w \in BOOLEAN : attempt'[w].pc # "none" => attempt'[w].src # "User"
    BY <2>1 DEF ConnectsCarried, Carried
  <2>3. attempt'[FALSE].pc = "none"
    BY <2>1 DEF ConnectsCarried, Carried
  <2> QED BY <2>1, <2>2, <2>3 DEF ConnectsCarried
<1> QED BY <1>1, CarriedIds DEF SInv

(* Steps that leave connects, backend and ends alone do.                   *)
LEMMA NothingNew ==
  /\ UNCHANGED connectVars => ConnectsCarried
  /\ be' = be => BackendCarried
  /\ endings' = endings => EndsCarried
  /\ \A d : endings' = endings \ {d} => EndsCarried
  /\ \A d : Unnamed(d) /\ endings' = endings \cup {d} => EndsCarried
<1>1. UNCHANGED connectVars => ConnectsCarried
  BY DEF connectVars, ConnectsCarried, Carried
<1>2. be' = be => BackendCarried
  BY DEF BackendCarried
<1>3. endings' = endings => EndsCarried
  BY DEF EndsCarried
<1>4. \A d : endings' = endings \ {d} => EndsCarried
  BY DEF EndsCarried
<1>5. \A d : Unnamed(d) /\ endings' = endings \cup {d} => EndsCarried
  BY DEF EndsCarried
<1> QED BY <1>1, <1>2, <1>3, <1>4, <1>5

(* Steps of the world outside the session keep the invariant.              *)
LEMMA WorldKeeps ==
  ASSUME SInv, NetT', StateT', VpnT', CountT', EndsT', EndsCarried, StopCarried,
         UNCHANGED <<be, emits, connectVars>>
  PROVE  SInv'
<1>1. BeT' /\ ConnectT'
  BY DEF SInv, TInv, BeT, ConnectT, connectVars
<1> QED BY <1>1, NothingNew, CarriedKeeps DEF TInv, connectVars

-----------------------------------------------------------------------------
(* The device, its published state, the row and the server.                *)
LEMMA DeviceKeeps ==
  ASSUME SInv,
         \/ \E n \in Places : Move(n)
         \/ DeviceEmits \/ DeviceClears \/ Reload \/ AccountChanges
  PROVE  SInv'
<1> USE DEF SInv, TInv
<1>1. ASSUME NEW n \in Places, Move(n) PROVE SInv'
  <2>1. NetT' /\ StateT' /\ VpnT' /\ EndsT' /\ CountT'
    BY <1>1, EventCounted DEF Move, NetT, StateT, VpnT, EndsT, CountT
  <2>2. StopCarried
    BY <1>1 DEF Move, StopCarried
  <2> QED BY <1>1, <2>1, <2>2, NothingNew, WorldKeeps DEF Move
<1>2. CASE DeviceEmits
  <2>1. info' \in Infos
    BY <1>2 DEF DeviceEmits, StateT, VpnT, NetT, Infos
  <2>2. NetT' /\ StateT' /\ VpnT' /\ EndsT' /\ CountT'
    BY <1>2, <2>1 DEF DeviceEmits, NetT, StateT, VpnT, EndsT, CountT
  <2>3. StopCarried
    BY <1>2 DEF DeviceEmits, StopInv, StopCarried
  <2> QED BY <1>2, <2>2, <2>3, NothingNew, WorldKeeps DEF DeviceEmits
<1>3. CASE DeviceClears
  <2>1. [facts EXCEPT !.down = None, !.unnamed = FALSE, !.in = None] \in Facts
    BY DEF StateT, Facts, Places
  <2>2. facts' \in Facts
    BY <1>3, <2>1, FactsTyped DEF DeviceClears, NetT
  <2>3. NetT' /\ StateT' /\ VpnT' /\ EndsT' /\ CountT'
    BY <1>3, <2>2 DEF DeviceClears, NetT, StateT, VpnT, EndsT, CountT
  <2>4. StopCarried
    BY <1>3 DEF DeviceClears, StopInv, StopCarried
  <2> QED BY <1>3, <2>3, <2>4, NothingNew, WorldKeeps DEF DeviceClears
<1>4. CASE Reload
  <2>1. info' \in Infos /\ info'.act = info.act
    BY <1>4, RowTyped DEF Reload, StateT, VpnT, Infos
  <2>2. NetT' /\ StateT' /\ VpnT' /\ EndsT' /\ CountT'
    BY <1>4, <2>1 DEF Reload, NetT, StateT, VpnT, EndsT, CountT
  <2>3. StopCarried
    BY <1>4, <2>1 DEF Reload, StopInv, StopCarried
  <2> QED BY <1>4, <2>2, <2>3, NothingNew, WorldKeeps DEF Reload
<1>5. CASE AccountChanges
  <2>1. acct' \in Accts
    BY <1>5 DEF AccountChanges, StateT, Accts
  <2>2. NetT' /\ StateT' /\ VpnT' /\ EndsT' /\ CountT'
    BY <1>5, <2>1, EventCounted DEF AccountChanges, NetT, StateT, VpnT, EndsT, CountT, netVars
  <2>3. StopCarried
    BY <1>5 DEF AccountChanges, StopInv, StopCarried, netVars
  <2> QED BY <1>5, <2>2, <2>3, NothingNew, WorldKeeps DEF AccountChanges
<1> QED BY <1>1, <1>2, <1>3, <1>4, <1>5

(* A step that moves neither networks, facts, preferences nor what the     *)
(* watcher decided keeps what a standing disconnect rests on.              *)
LEMMA SettledWorld ==
  ASSUME SInv, UNCHANGED <<netVars, facts, user>>, stopped' = stopped, info' \in Infos, info'.act # "connect" \/ info' = info,
         acct' \in Accts, events' \in 0..MaxEvents
  PROVE  NetT' /\ StateT' /\ CountT' /\ StopCarried
  BY DEF SInv, TInv, NetT, StateT, CountT, StopInv, StopCarried, netVars

(* A published state lands.                                                *)
LEMMA EmitKeeps == ASSUME SInv, NEW e \in emits, Emit(e) PROVE SInv'
<1> USE DEF SInv, TInv
<1>1. NetT' /\ StateT' /\ CountT' /\ StopCarried
  BY SettledWorld DEF Emit, StateT, CountT
<1>2. e \in Emissions /\ be.id \in IdOrNone
  BY DEF BeT, Backends
<1>3. PICK id \in {e.id, be.id} :
        LET shown == e.from = "end" \/ e.status # vpn.status \/ id # vpn.id
        IN /\ vpn' = IF shown THEN [vpn EXCEPT !.status = e.status, !.id = id, !.err = e.err] ELSE vpn
           /\ driver' = IF shown /\ e.status = "Connected" THEN NotDriving ELSE driver
  BY DEF Emit
<1>4. VpnT'
  BY <1>2, <1>3 DEF VpnT, Vpns, Emissions
<1>5. driver' \in {driver, NotDriving} /\ NotDriving \in Drivers /\ NotDriving.pc = "off"
  BY <1>3 DEF NotDriving, Drivers, Sources, IdOrNone
<1>6. BeT' /\ ConnectT' /\ EndsT'
  BY <1>5 DEF Emit, BeT, ConnectT, EndsT
<1>7. ConnectsCarried
  BY <1>5 DEF Emit, ConnectsCarried, Carried
<1>8. BackendCarried /\ EndsCarried
  BY NothingNew DEF Emit
<1> QED BY <1>1, <1>4, <1>6, <1>7, <1>8, CarriedKeeps

(* The service is destroyed.                                               *)
LEMMA ServiceDestroyedKeeps == ASSUME SInv, ServiceDestroyed PROVE SInv'
<1> USE DEF SInv, TInv
<1>1. info' \in Infos /\ info'.act = info.act
  BY DEF ServiceDestroyed, StateT, Infos
<1>2. NetT' /\ StateT' /\ CountT' /\ StopCarried
  BY <1>1 DEF ServiceDestroyed, NetT, StateT, CountT, StopInv, StopCarried, netVars
<1>3. VpnT'
  BY DEF ServiceDestroyed, VpnT, Vpns, Modes
<1>4. BeT' /\ BackendCarried
  BY DEF ServiceDestroyed, BeT, Backends, BackendCarried
<1>5. ConnectT' /\ EndsT'
  BY DEF ServiceDestroyed, ConnectT, EndsT, connectVars
<1>6. ConnectsCarried /\ EndsCarried
  BY NothingNew DEF ServiceDestroyed, connectVars
<1> QED BY <1>2, <1>3, <1>4, <1>5, <1>6, CarriedKeeps

-----------------------------------------------------------------------------
(* Disconnects.                                                            *)

(* What every disconnect of a session does, whatever its reason: it adds   *)
(* to the ends given a teardown that has left no start, or a launched end. *)
Ending(a, others) ==
  /\ vpn' \in Vpns /\ BeT' /\ endings' \subseteq Ends /\ acct' = a
  /\ BackendCarried
  /\ \A e \in endings' : e \in others \/ Unnamed(e) \/ NewTeardown(e)

(* cancelEngineStart leaves the backend its session and no start.          *)
LEMMA CancelledTyped ==
  ASSUME be \in Backends
  PROVE  LET b == cancelEngineStart(be)
         IN b \in Backends /\ b.id = be.id /\ ~b.start /\ b.engine = be.engine
  BY DEF cancelEngineStart, Backends

(* A handover leaves a backend with no engine and no start.                *)
LEMMA HandedOverTyped ==
  ASSUME be \in Backends, NEW via \in BOOLEAN
  PROVE  LET b == WithoutEngine(cancelEngineStart(be), via)
         IN b \in Backends /\ b.id = be.id /\ ~b.start /\ b.engine = "off"
  BY DEF cancelEngineStart, WithoutEngine, Backends

(* runDisconnect, up to the inputs it reads.                               *)
LEMMA TeardownEnds ==
  ASSUME BeT, NEW v \in Vpns, NEW f, NEW u, NEW a, NEW err \in Errors, NEW via \in BOOLEAN,
         NEW others, others \subseteq Ends,
         Teardown(err, f, u, a, v, others, via)
  PROVE  Ending(a, others)
<1> DEFINE verdict == Verdict(CurrentInput(f, u, a, v), sessionEndFor(err, be.established))
           e == BackendEnd(verdict, err, be.id, via)
<1>1. CASE /\ vpn' = HandedOver(v) /\ be' = WithoutEngine(cancelEngineStart(be), via)
           /\ SetStates({Gone(err)}) /\ endings' = others /\ acct' = a
  <2>1. vpn' \in Vpns
    BY <1>1 DEF HandedOver, Held, Vpns
  <2>2. be' \in Backends /\ BackendCarried
    BY <1>1, HandedOverTyped DEF BeT, BackendCarried
  <2>3. emits' \subseteq Emissions
    BY <1>1, StatesTyped, SetStatesTyped DEF BeT
  <2> QED BY <1>1, <2>1, <2>2, <2>3 DEF Ending, BeT
<1>2. CASE vpn' = v /\ be' = cancelEngineStart(be) /\ endings' = others \cup {e} /\ emits' = emits /\ acct' = a
  <2>1. be' \in Backends /\ BackendCarried /\ ~be'.start
    BY <1>2, CancelledTyped DEF BeT, BackendCarried
  <2>2. verdict \in Verdicts /\ be.id \in IdOrNone
    BY VerdictTyped DEF BeT, Backends
  <2> HIDE DEF verdict
  <2>3. e \in Ends /\ e.kind = "stop" /\ e.of = be.id
    BY <2>2, EndTyped
  <2> HIDE DEF e
  <2> QED BY <1>2, <2>1, <2>3 DEF Ending, BeT, NewTeardown
<1> QED BY <1>1, <1>2 DEF Teardown

(* disconnect() with no backend.                                           *)
LEMMA EndedWithoutBackend ==
  ASSUME BeT, NEW v \in Vpns, NEW a, NEW err \in Errors, NEW others, others \subseteq Ends,
         DisconnectWithoutBackend(err, a, v, others)
  PROVE  Ending(a, others)
<1> DEFINE e == LaunchedEnd("service", IF err \in UserIntentEnds THEN err ELSE "ConnectFailed")
<1>1. Unnamed(e) /\ e \in Ends
  <2>1. UserIntentEnds \subseteq SessionEnds /\ "ConnectFailed" \in SessionEnds /\ "service" \in LaunchedKinds
    BY DEF UserIntentEnds, SessionEnds, LaunchedKinds
  <2> QED BY <2>1, EndTyped DEF Unnamed
<1>2. /\ vpn' = v /\ acct' = a /\ be' = be /\ (endings' = others \/ endings' = others \cup {e})
      /\ SetStates(IF isTunnelUp(v) THEN {Terminal} ELSE {})
  BY DEF DisconnectWithoutBackend
<1> HIDE DEF e
<1>3. emits' \subseteq Emissions
  <2>1. (IF isTunnelUp(v) THEN {Terminal} ELSE {}) \subseteq Emissions
    BY StatesTyped DEF BeT
  <2> QED BY <1>2, <2>1, SetStatesTyped DEF BeT
<1>4. BackendCarried
  BY <1>2, NothingNew
<1> QED BY <1>1, <1>2, <1>3, <1>4 DEF Ending, BeT

(* A disconnect cancels connectJob and leaves the walk's connect.          *)
LEMMA JobCancelled ==
  ASSUME ConnectT, NEW err, CancelJob(err)
  PROVE  attempt' \in [BOOLEAN -> Attempts] /\ (\A w \in BOOLEAN : Carried(w)) /\ attempt'[FALSE].pc = "none"
         /\ attempt'[TRUE].pc = attempt[TRUE].pc
<1>1. NoAttempt \in Attempts /\ NoAttempt.pc = "none"
  BY DEF NoAttempt, Attempts, Sources, IdOrNone
<1>2. attempt[TRUE] \in Attempts
  BY DEF ConnectT
<1> DEFINE t == [attempt[TRUE] EXCEPT !.ended = @ \/ (attempt[TRUE].pc # "none" /\ err = "UserDisconnect")]
<1>3. t \in Attempts /\ t.pc = attempt[TRUE].pc /\ t.id = attempt[TRUE].id /\ t.src = attempt[TRUE].src
  BY <1>2 DEF Attempts
<1>4. attempt' = [attempt EXCEPT ![FALSE] = NoAttempt, ![TRUE] = t]
  BY DEF CancelJob, ConnectT
<1> HIDE DEF t
<1>5. attempt' \in [BOOLEAN -> Attempts] /\ attempt'[FALSE] = NoAttempt /\ attempt'[TRUE] = t
  BY <1>1, <1>3, <1>4 DEF ConnectT
<1> QED BY <1>1, <1>3, <1>5 DEF Carried

(* disconnect ends the session, whether a backend holds it or not.         *)
LEMMA DisconnectEnds ==
  ASSUME TInv, NEW v \in Vpns, NEW f, NEW u, NEW a, NEW err \in Errors, NEW others, others \subseteq Ends,
         DisconnectBeside(others, err, f, u, a, v)
  PROVE  /\ Ending(a, others) /\ ConnectT' /\ ConnectsCarried
         /\ attempt'[FALSE].pc = "none" /\ attempt'[TRUE].pc = attempt[TRUE].pc
         /\ UNCHANGED <<request, launching, driver>>
<1> USE DEF TInv
<1>1. /\ attempt' \in [BOOLEAN -> Attempts] /\ (\A w \in BOOLEAN : Carried(w)) /\ attempt'[FALSE].pc = "none"
      /\ attempt'[TRUE].pc = attempt[TRUE].pc
  BY JobCancelled DEF DisconnectBeside
<1>2. UNCHANGED <<request, launching, driver>>
  BY DEF DisconnectBeside
<1>3. ConnectT' /\ ConnectsCarried
  BY <1>1, <1>2 DEF ConnectT, ConnectsCarried
<1>4. CASE be.holder
  BY <1>1, <1>2, <1>3, <1>4, TeardownEnds DEF DisconnectBeside
<1>5. CASE ~be.holder
  BY <1>1, <1>2, <1>3, <1>5, EndedWithoutBackend DEF DisconnectBeside
<1> QED BY <1>4, <1>5

(* An ending keeps the invariant when the world around it does.            *)
LEMMA EndingKeeps ==
  ASSUME SInv, NEW a \in Accts, NEW others, \A e \in others : e \in endings \/ Unnamed(e),
         Ending(a, others), ConnectT', ConnectsCarried,
         NetT', StateT', CountT', StopCarried
  PROVE  SInv'
<1>1. EndsCarried
  BY DEF Ending, EndsCarried
<1>2. TInv' /\ BackendCarried
  BY DEF Ending, TInv, VpnT, EndsT
<1> QED BY <1>1, <1>2, CarriedKeeps

-----------------------------------------------------------------------------
(* Session ends.                                                           *)

(* The backend's engine stops.                                             *)
LEMMA BackendStopsKeeps == ASSUME SInv, NEW e \in endings, BackendStops(e) PROVE SInv'
<1> USE DEF SInv, TInv
<1>1. NetT' /\ StateT' /\ CountT' /\ StopCarried
  BY SettledWorld DEF BackendStops, StateT, CountT
<1>2. VpnT'
  BY DEF BackendStops, VpnT, Vpns, Held
<1>3. BeT' /\ BackendCarried /\ be'.engine = "off"
  BY DEF BackendStops, BeT, Backends, BackendCarried
<1> DEFINE d == [e EXCEPT !.kind = "backend"]
<1>4. d \in Ends /\ d.of = e.of
  BY DEF EndsT, Ends
<1>5. e.kind = "stop" /\ endings' = (endings \ {e}) \cup {d}
  BY DEF BackendStops
<1> HIDE DEF d
<1>6. EndsT' /\ EndsCarried
  BY <1>3, <1>4, <1>5 DEF EndsT, EndsCarried
<1>7. ConnectT' /\ ConnectsCarried
  BY NothingNew DEF BackendStops, ConnectT, connectVars
<1> QED BY <1>1, <1>2, <1>3, <1>6, <1>7, CarriedKeeps

(* The backend's end reaches the service.                                  *)
LEMMA BackendEndsKeeps == ASSUME SInv, NEW e \in endings, BackendEnds(e) PROVE SInv'
<1> USE DEF SInv, TInv
<1>1. NetT' /\ StateT' /\ CountT' /\ StopCarried
  BY SettledWorld DEF BackendEnds, StateT, CountT
<1>2. e.verdict \in Verdicts /\ e.viaHolder \in BOOLEAN
  BY DEF EndsT, Ends
<1>3. VpnT'
  BY <1>2, EndSessionTyped DEF BackendEnds, VpnT
<1>4. be' \in Backends /\ BackendCarried
  BY <1>2 DEF BackendEnds, BeT, Backends, BackendCarried
<1>5. emits' \subseteq Emissions
  <2>1. Settled(vpn, e.verdict, be.id) \cup {Gone(e.err)} \subseteq Emissions
    BY StatesTyped DEF BeT
  <2> QED BY <2>1, SetStatesTyped DEF BackendEnds, BeT
<1> DEFINE d == LaunchedEnd("controller", "UserTurnOff")
<1>6. Unnamed(d)
  <2>1. "UserTurnOff" \in SessionEnds /\ "controller" \in LaunchedKinds
    BY DEF SessionEnds, LaunchedKinds
  <2> QED BY <2>1, EndTyped
<1>7. \A x \in endings' : x \in endings \/ x = d
  BY DEF BackendEnds
<1> HIDE DEF d
<1>8. EndsT' /\ EndsCarried
  BY <1>6, <1>7 DEF EndsT, EndsCarried, Unnamed
<1>9. ConnectT' /\ ConnectsCarried
  BY NothingNew DEF BackendEnds, ConnectT, connectVars
<1> QED BY <1>1, <1>3, <1>4, <1>5, <1>8, <1>9, CarriedKeeps DEF BeT

(* The ends the controller and the service launched.                       *)
LEMMA LaunchedEndsKeep ==
  ASSUME SInv, NEW e \in endings, ControllerEnds(e) \/ ServiceEnds(e) PROVE SInv'
<1> USE DEF SInv, TInv
<1>1. /\ UNCHANGED <<netVars, info, facts, user, acct, be, request, attempt, launching, events, stopped>>
      /\ endings' = endings \ {e} /\ driver' \in {driver, NotDriving}
  BY DEF ControllerEnds, ServiceEnds, connectVars
<1>2. NetT' /\ StateT' /\ CountT' /\ StopCarried
  BY <1>1, SettledWorld DEF StateT, CountT
<1>3. EndsT' /\ EndsCarried /\ BackendCarried
  BY <1>1, NothingNew DEF EndsT
<1>4. NotDriving \in Drivers /\ NotDriving.pc = "off"
  BY DEF NotDriving, Drivers, Sources, IdOrNone
<1>5. ConnectT' /\ ConnectsCarried
  BY <1>1, <1>4 DEF ConnectT, ConnectsCarried, Carried
<1>6. CASE ControllerEnds(e)
  <2> DEFINE verdict == Verdict(CurrentInput(facts, user, acct, vpn), e.end)
             tun == CASE ~verdict.blocks -> Released(vpn.tun)
                      [] verdict.blocks /\ vpn.tun = "handover" -> "block"
                      [] OTHER -> vpn.tun
             v == [vpn EXCEPT !.tun = tun]
  <2>1. verdict \in Verdicts
    BY VerdictTyped
  <2>2. \/ UNCHANGED <<vpn, emits>>
        \/ vpn' = EndSession(v, verdict, None) /\ SetStates(Settled(vpn, verdict, None))
    BY <1>6 DEF ControllerEnds
  <2> HIDE DEF verdict
  <2>3. tun \in {"none", "engine", "handover", "block"}
    BY DEF Released, VpnT, Vpns
  <2> HIDE DEF tun
  <2>4. v \in Vpns
    BY <2>3 DEF VpnT, Vpns
  <2> HIDE DEF v
  <2>5. VpnT'
    BY <2>1, <2>2, <2>4, EndSessionTyped DEF VpnT
  <2>6. BeT'
    BY <1>1, <2>2, StatesTyped, SetStatesTyped DEF BeT
  <2> QED BY <1>2, <1>3, <1>5, <2>5, <2>6, CarriedKeeps
<1>7. CASE ServiceEnds(e)
  <2> DEFINE verdict == Verdict(CurrentInput(facts, user, acct, vpn), e.end)
  <2>1. verdict \in Verdicts
    BY VerdictTyped
  <2>2. vpn' = EndSession(vpn, verdict, None) /\ SetStates(Settled(vpn, verdict, None))
    BY <1>7 DEF ServiceEnds
  <2> HIDE DEF verdict
  <2>3. VpnT'
    BY <2>1, <2>2, EndSessionTyped DEF VpnT
  <2>4. BeT'
    BY <1>1, <2>2, StatesTyped, SetStatesTyped DEF BeT
  <2> QED BY <1>2, <1>3, <1>5, <2>3, <2>4, CarriedKeeps
<1> QED BY <1>6, <1>7

(* A launched disconnect runs.                                             *)
LEMMA DisconnectRunsKeeps == ASSUME SInv, NEW e \in endings, DisconnectRuns(e) PROVE SInv'
<1> USE DEF SInv, TInv
<1>1. /\ DisconnectBeside(endings \ {e}, e.err, facts, user, acct, vpn)
      /\ UNCHANGED <<netVars, info, facts, user, events, stopped>>
  BY DEF DisconnectRuns
<1>2. e.err \in Errors /\ endings \ {e} \subseteq Ends /\ vpn \in Vpns /\ acct \in Accts
  BY DEF EndsT, Ends, VpnT, StateT
<1>3. Ending(acct, endings \ {e}) /\ ConnectT' /\ ConnectsCarried
  BY <1>1, <1>2, DisconnectEnds
<1>4. NetT' /\ StateT' /\ CountT' /\ StopCarried
  BY <1>1, <1>2, <1>3, SettledWorld DEF Ending, StateT, CountT
<1> QED BY <1>2, <1>3, <1>4, EndingKeeps

(* A hold expires, or a pump gives up.                                     *)
LEMMA EngineLossKeeps == ASSUME SInv, HoldExpires \/ PumpsFail PROVE SInv'
<1> USE DEF SInv, TInv
<1>1. "Engine" \in Errors /\ "Broken" \in Errors
  BY DEF Errors
<1>2. PICK err \in {"Engine", "Broken"} : endings' = endings \cup {LaunchedDisconnect(err)}
  BY DEF HoldExpires, PumpsFail
<1>3. Unnamed(LaunchedDisconnect(err))
  BY <1>1, EndTyped
<1>4. EndsCarried /\ EndsT'
  BY <1>2, <1>3, NothingNew DEF EndsT, Unnamed
<1>5. /\ UNCHANGED <<netVars, info, facts, user, acct, be, emits, connectVars, stopped>>
      /\ events' \in 0..MaxEvents
  BY EventCounted DEF HoldExpires, PumpsFail
<1>6. NetT' /\ StateT' /\ CountT' /\ StopCarried
  BY <1>5, SettledWorld DEF StateT
<1>7. VpnT'
  BY DEF HoldExpires, PumpsFail, VpnT, Vpns
<1> QED BY <1>4, <1>5, <1>6, <1>7, WorldKeeps

-----------------------------------------------------------------------------
(* Connects.                                                               *)

(* No attempt, and no walk.                                                *)
LEMMA NothingTyped ==
  NoAttempt \in Attempts /\ NoAttempt.pc = "none" /\ NotDriving \in Drivers /\ NotDriving.pc = "off"
  BY DEF NoAttempt, NotDriving, Attempts, Drivers, Sources, IdOrNone

(* A connect asked for.                                                    *)
LEMMA AskedTyped ==
  ASSUME ConnectT, NEW w \in BOOLEAN, NEW src \in Sources, NEW id \in Ids,
         attempt' = [attempt EXCEPT ![w] = Asked(src, id)]
  PROVE  /\ attempt' \in [BOOLEAN -> Attempts]
         /\ attempt'[w].pc # "none" /\ attempt'[w].id = id /\ attempt'[w].src = src
         /\ \A x \in BOOLEAN : x # w => attempt'[x] = attempt[x]
<1>1. Asked(src, id) \in Attempts /\ Asked(src, id).pc # "none" /\ Asked(src, id).id = id /\ Asked(src, id).src = src
  BY DEF Asked, Attempts, IdOrNone
<1> QED BY <1>1 DEF ConnectT

(* A connect asked for under a fresh id keeps the invariant: while the     *)
(* user's disconnect stands it is a walk's, and not the user's.            *)
LEMMA FreshKeeps ==
  ASSUME SInv, TInv', NEW w \in BOOLEAN, NEW src \in Sources, NEW id \in FreshIds,
         attempt' = [attempt EXCEPT ![w] = Asked(src, id)],
         be' = be, launching' = launching,
         \A e \in endings' : e \in endings \/ Unnamed(e),
         "User" \in request' => "User" \in request,
         StopCarried,
         stopped' => w /\ src # "User" /\ (driver'.pc # "off" => driver'.src # "User")
  PROVE  SInv'
<1>1. id \in Ids /\ id # be.id /\ \A x \in BOOLEAN : id # attempt[x].id
  BY DEF FreshIds
<1>2. (\A l \in launching : l.id # id) /\ (\A e \in endings : e.of # id)
  BY DEF FreshIds
<1>3. None \notin Ids
  BY SessionAssumption
<1>4. /\ attempt'[w].pc # "none" /\ attempt'[w].id = id /\ attempt'[w].src = src
      /\ \A x \in BOOLEAN : x # w => attempt'[x] = attempt[x]
  BY <1>1, AskedTyped DEF SInv, TInv
<1>5. StopInv'
  <2> SUFFICES ASSUME stopped' PROVE StopInv!2'
    BY DEF StopInv
  <2>1. StopInv!2 /\ detail' = net' /\ ~changing' /\ facts'.isDown /\ info'.act # "connect" /\ w = TRUE
    BY DEF StopCarried, SInv, StopInv
  <2> QED BY <1>4, <2>1
<1>6. \A x \in BOOLEAN : attempt'[x].pc # "none" =>
        /\ attempt'[x].id \in Ids /\ attempt'[x].id # be'.id
        /\ \A l \in launching' : l.id # attempt'[x].id
        /\ \A e \in endings' : e.of # attempt'[x].id
  BY <1>1, <1>2, <1>3, <1>4 DEF Unnamed, SInv, IdInv
<1>7. \A x, y \in BOOLEAN : x # y /\ attempt'[x].pc # "none" /\ attempt'[y].pc # "none" => attempt'[x].id # attempt'[y].id
  BY <1>1, <1>4 DEF SInv, IdInv
<1>8. \A l \in launching' : l.id # be'.id /\ \A e \in endings' : e.of # l.id
  BY <1>3 DEF Unnamed, SInv, IdInv, TInv, ConnectT
<1>9. \A e \in endings' : e.kind \in TearingDown /\ e.of = be'.id =>
        ~be'.start /\ (e.kind = "backend" => be'.engine = "off")
  BY DEF Unnamed, SInv, IdInv
<1>10. IdInv'
  BY <1>6, <1>7, <1>8, <1>9 DEF SInv, IdInv
<1> QED BY <1>5, <1>10 DEF SInv

(* connectInForeground, ignored or with no network.                        *)
LEMMA NoWalkKeeps ==
  ASSUME SInv, BeginIgnored \/ \E src \in Sources : BeginOffline(src) PROVE SInv'
<1> USE DEF SInv, TInv
<1> DEFINE e == LaunchedEnd("controller", "NoNetwork")
<1>1. Unnamed(e)
  <2>1. "NoNetwork" \in SessionEnds /\ "controller" \in LaunchedKinds
    BY DEF SessionEnds, LaunchedKinds
  <2> QED BY <2>1, EndTyped
<1>2. /\ UNCHANGED <<netVars, info, facts, user, acct, vpn, be, emits, attempt, launching, events, stopped>>
      /\ request' \subseteq request /\ driver' \in {driver, NotDriving}
      /\ endings' = endings \/ endings' = endings \cup {e}
  BY DEF BeginIgnored, BeginOffline
<1> HIDE DEF e
<1>3. NetT' /\ StateT' /\ CountT' /\ StopCarried
  BY <1>2, SettledWorld DEF StateT, CountT
<1>4. EndsT' /\ EndsCarried
  BY <1>1, <1>2, NothingNew DEF EndsT, Unnamed
<1>5. ConnectT' /\ ConnectsCarried
  BY <1>2, NothingTyped DEF ConnectT, ConnectsCarried, Carried
<1>6. VpnT' /\ BeT' /\ BackendCarried
  BY <1>2, NothingNew DEF VpnT, BeT
<1> QED BY <1>3, <1>4, <1>5, <1>6, CarriedKeeps

(* A walk begins.                                                          *)
LEMMA BeginKeeps == ASSUME SInv, NEW src \in Sources, Begin(src) PROVE SInv'
<1> USE DEF SInv, TInv
<1>1. UNCHANGED <<netVars, info, facts, user, acct, vpn, be, emits, launching, events, stopped>>
  BY DEF Begin
<1>2. NetT' /\ StateT' /\ CountT' /\ StopCarried /\ VpnT' /\ BeT'
  BY <1>1, SettledWorld DEF StateT, CountT, VpnT, BeT
<1>3. PICK id \in FreshIds :
        /\ attempt' = [attempt EXCEPT ![TRUE] = Asked(src, id)]
        /\ driver' = [pc |-> "waiting", src |-> src, id |-> id, first |-> TRUE]
  BY DEF Begin
<1>4. id \in Ids
  BY DEF FreshIds
<1>5. driver' \in Drivers /\ driver'.src = src
  BY <1>3, <1>4 DEF Drivers, IdOrNone
<1>6. src \in request /\ request' = request \ {src}
  BY DEF Begin
<1>7. ConnectT'
  BY <1>1, <1>3, <1>4, <1>5, <1>6, AskedTyped DEF ConnectT
<1>8. \A e \in endings' : e \in endings \/ Unnamed(e)
  <2>1. /\ Unnamed(LaunchedEnd("superseded", "none")) /\ Unnamed(LaunchedEnd("superseded", "UserDisconnect"))
    <3>1. "UserDisconnect" \in SessionEnds /\ "superseded" \in LaunchedKinds
      BY DEF SessionEnds, LaunchedKinds
    <3> QED BY <3>1, EndTyped
  <2>2. \A e \in endings' : \/ e \in endings \/ e = LaunchedEnd("superseded", "none")
                            \/ e = LaunchedEnd("superseded", "UserDisconnect")
    BY DEF Begin
  <2> QED BY <2>1, <2>2
<1>9. EndsT'
  BY <1>8 DEF EndsT, Unnamed
<1>10. stopped' => src # "User"
  BY <1>1, <1>6 DEF StopInv
<1> QED BY <1>1, <1>2, <1>3, <1>5, <1>6, <1>7, <1>8, <1>9, <1>10, FreshKeeps

(* A connect being prepared takes its next step.                           *)
LEMMA BecomesTyped ==
  ASSUME ConnectT, NEW w \in BOOLEAN, NEW pc \in {"handed", "announced", "blocked", "building"},
         attempt[w].pc # "none",
         attempt' = [attempt EXCEPT ![w].pc = pc] \/ attempt' = [attempt EXCEPT ![FALSE] = IF w THEN NoAttempt ELSE @, ![w].pc = pc]
  PROVE  attempt' \in [BOOLEAN -> Attempts] /\ \A x \in BOOLEAN : Carried(x)
<1> DEFINE t == [attempt[w] EXCEPT !.pc = pc]
<1>1. attempt[w] \in Attempts
  BY DEF ConnectT
<1>2. t \in Attempts /\ t.id = attempt[w].id /\ t.src = attempt[w].src
  BY <1>1 DEF Attempts
<1>3. attempt'[w] = t /\ attempt' \in [BOOLEAN -> Attempts]
      /\ \A x \in BOOLEAN : x # w => attempt'[x] = attempt[x] \/ attempt'[x] = NoAttempt
  <2>1. CASE attempt' = [attempt EXCEPT ![w].pc = pc]
    BY <1>2, <2>1 DEF ConnectT
  <2>2. CASE attempt' = [attempt EXCEPT ![FALSE] = IF w THEN NoAttempt ELSE @, ![w].pc = pc]
    <3>1. CASE w = TRUE
      BY <1>2, <2>2, <3>1, NothingTyped DEF ConnectT
    <3>2. CASE w = FALSE
      BY <1>2, <2>2, <3>2 DEF ConnectT
    <3> QED BY <3>1, <3>2
  <2> QED BY <2>1, <2>2
<1> HIDE DEF t
<1> QED BY <1>2, <1>3, NothingTyped DEF Carried

(* The steps of a connect up to its profile.                               *)
LEMMA PrepareKeeps ==
  ASSUME SInv, NEW w \in BOOLEAN, Hand(w) \/ Announce(w) \/ Block(w) \/ Settle(w) PROVE SInv'
<1> USE DEF SInv, TInv
<1>1. /\ UNCHANGED <<netVars, user, acct, request, launching, driver, endings, events, stopped>>
      /\ attempt[w].pc # "none"
  BY DEF Hand, Announce, Block, Settle, At
<1>2. \E pc \in {"handed", "announced", "blocked", "building"} :
        \/ attempt' = [attempt EXCEPT ![w].pc = pc]
        \/ attempt' = [attempt EXCEPT ![FALSE] = IF w THEN NoAttempt ELSE @, ![w].pc = pc]
  BY DEF Hand, Announce, Block, Settle, Becomes
<1>3. ConnectT' /\ ConnectsCarried
  <2>1. attempt' \in [BOOLEAN -> Attempts] /\ \A x \in BOOLEAN : Carried(x)
    BY <1>1, <1>2, BecomesTyped
  <2> QED BY <1>1, <2>1 DEF ConnectT, ConnectsCarried
<1>4. EndsT' /\ EndsCarried
  BY <1>1, NothingNew DEF EndsT
<1>5. CASE Hand(w)
  <2>1. vpn' \in Vpns
    BY <1>5 DEF Hand, HandedOver, Held, VpnT, Vpns
  <2>2. be' \in Backends /\ BackendCarried
    BY <1>5, HandedOverTyped DEF Hand, BeT, BackendCarried
  <2>3. emits' \subseteq Emissions
    <3>1. (IF isTunnelUp(vpn) THEN {Terminal} ELSE {}) \subseteq Emissions
      BY StatesTyped DEF BeT
    <3> QED BY <1>5, <3>1, SetStatesTyped DEF Hand, BeT
  <2>4. NetT' /\ StateT' /\ CountT' /\ StopCarried
    BY <1>1, <1>5, SettledWorld DEF Hand, StateT, CountT
  <2> QED BY <1>3, <1>4, <2>1, <2>2, <2>3, <2>4, CarriedKeeps DEF VpnT, BeT
<1>6. CASE Announce(w)
  <2>1. vpn' \in Vpns
    BY <1>6 DEF Announce, VpnT, Vpns, Modes
  <2>2. emits' \subseteq Emissions /\ be' = be
    <3>1. attempt[w].id \in IdOrNone
      BY DEF ConnectT, Attempts
    <3>2. Emission("Connecting", attempt[w].id, "none", "connect") \in Emissions
      BY <3>1, StatesTyped DEF BeT, Statuses
    <3> QED BY <1>6, <3>2, SetStatesTyped DEF Announce, BeT
  <2>3. NetT' /\ StateT' /\ CountT' /\ StopCarried
    BY <1>1, <1>6, SettledWorld DEF Announce, StateT, CountT
  <2> QED BY <1>3, <1>4, <2>1, <2>2, <2>3, NothingNew, CarriedKeeps DEF VpnT, BeT
<1>7. CASE Block(w)
  <2>1. user.wants \in BOOLEAN /\ vpn \in Vpns
    BY DEF StateT, Users, VpnT
  <2>2. Started(vpn, user.wants) \in Vpns
    BY <2>1, StartedTyped
  <2>3. vpn' \in Vpns
    <3>1. \A v \in Vpns : [v EXCEPT !.tun = "block"] \in Vpns
      BY DEF Vpns
    <3> QED BY <1>7, <2>1, <2>2, <3>1 DEF Block
  <2>4. info' \in Infos /\ info'.act = info.act
    BY <1>7 DEF Block, WatchesFromCreation, StateT, Infos
  <2>5. UNCHANGED <<facts, be, emits>>
    BY <1>7 DEF Block
  <2>6. NetT' /\ StateT' /\ CountT' /\ StopCarried
    BY <1>1, <2>4, <2>5 DEF NetT, StateT, CountT, StopInv, StopCarried, netVars
  <2> QED BY <1>3, <1>4, <2>3, <2>5, <2>6, NothingNew, CarriedKeeps DEF VpnT, BeT
<1>8. CASE Settle(w)
  <2>1. UNCHANGED <<info, vpn, be, emits>>
    BY <1>8 DEF Settle
  <2>2. OptIn(ClearStandDown(facts)) \in Facts
    BY FactsTyped DEF StateT, NetT
  <2>3. facts' \in Facts /\ (attempt[w].src # "User" => facts' = facts)
    BY <1>8, <2>2 DEF Settle, StateT
  <2>4. NetT' /\ StateT' /\ CountT'
    BY <1>1, <2>1, <2>3 DEF NetT, StateT, CountT, netVars
  <2>5. StopCarried
    BY <1>1, <2>1, <2>3 DEF StopInv, StopCarried, netVars
  <2> QED BY <1>3, <1>4, <2>1, <2>4, <2>5, NothingNew, CarriedKeeps DEF VpnT, BeT
<1> QED BY <1>5, <1>6, <1>7, <1>8

(* A profile goes to the holder, with the connect's id.                    *)
LEMMA LaunchKeeps == ASSUME SInv, NEW w \in BOOLEAN, Launch(w) PROVE SInv'
<1> USE DEF SInv, TInv
<1>1. UNCHANGED <<netVars, info, facts, user, acct, vpn, be, emits, request, driver, endings, events, stopped>>
  BY DEF Launch
<1>2. NetT' /\ StateT' /\ CountT' /\ StopCarried /\ VpnT' /\ BeT' /\ EndsT'
  BY <1>1, SettledWorld DEF StateT, CountT, VpnT, BeT, EndsT
<1> DEFINE l == [id |-> attempt[w].id, ended |-> attempt[w].ended]
<1>3. /\ attempt[w].pc # "none" /\ attempt' = [attempt EXCEPT ![w] = NoAttempt] /\ launching' = launching \cup {l}
  BY DEF Launch, At
<1>4. attempt[w].id \in Ids /\ attempt[w].ended \in BOOLEAN
  BY <1>3 DEF IdInv, ConnectT, Attempts
<1>5. l \in [id : Ids, ended : BOOLEAN] /\ l.id = attempt[w].id
  BY <1>4
<1> HIDE DEF l
<1>6. attempt' \in [BOOLEAN -> Attempts] /\ attempt'[w].pc = "none" /\ \A x \in BOOLEAN : x # w => attempt'[x] = attempt[x]
  BY <1>3, NothingTyped DEF ConnectT
<1>7. ConnectT'
  BY <1>1, <1>3, <1>5, <1>6 DEF ConnectT
<1>8. StopInv'
  BY <1>1, <1>6 DEF StopInv, netVars
<1>9. \A x \in BOOLEAN : attempt'[x].pc # "none" =>
        /\ attempt'[x].id \in Ids /\ attempt'[x].id # be'.id
        /\ \A m \in launching' : m.id # attempt'[x].id
        /\ \A e \in endings' : e.of # attempt'[x].id
  <2> SUFFICES ASSUME NEW x \in BOOLEAN, attempt'[x].pc # "none"
               PROVE  /\ attempt'[x].id \in Ids /\ attempt'[x].id # be'.id
                      /\ \A m \in launching' : m.id # attempt'[x].id
                      /\ \A e \in endings' : e.of # attempt'[x].id
    OBVIOUS
  <2>1. x # w /\ attempt'[x] = attempt[x]
    BY <1>6
  <2>2. attempt[x].id # attempt[w].id
    BY <1>3, <2>1 DEF IdInv
  <2> QED BY <1>1, <1>3, <1>5, <2>1, <2>2 DEF IdInv
<1>10. \A x, y \in BOOLEAN : x # y /\ attempt'[x].pc # "none" /\ attempt'[y].pc # "none" => attempt'[x].id # attempt'[y].id
  BY <1>6 DEF IdInv
<1>11. \A m \in launching' : m.id # be'.id /\ \A e \in endings' : e.of # m.id
  BY <1>1, <1>3, <1>5 DEF IdInv
<1>12. \A m, n \in launching' : m.id = n.id => m = n
  BY <1>3, <1>5 DEF IdInv
<1>13. \A e \in endings' : e.kind \in TearingDown /\ e.of = be'.id =>
         ~be'.start /\ (e.kind = "backend" => be'.engine = "off")
  BY <1>1 DEF IdInv
<1>14. IdInv'
  BY <1>9, <1>10, <1>11, <1>12, <1>13 DEF IdInv
<1> QED BY <1>2, <1>7, <1>8, <1>14

(* The holder connects the backend.                                        *)
LEMMA HolderConnectsKeeps == ASSUME SInv, NEW l \in launching, HolderConnects(l) PROVE SInv'
<1> USE DEF SInv, TInv
<1>1. UNCHANGED <<netVars, info, facts, user, acct, vpn, emits, request, attempt, driver, endings, events, stopped>>
  BY DEF HolderConnects
<1>2. NetT' /\ StateT' /\ CountT' /\ StopCarried /\ VpnT' /\ EndsT'
  BY <1>1, SettledWorld DEF StateT, CountT, VpnT, EndsT
<1>3. launching' = launching \ {l} /\ l.id \in Ids /\ l.ended \in BOOLEAN
  BY DEF HolderConnects, ConnectT
<1>4. be' \in Backends /\ be'.id = l.id
  BY <1>3 DEF HolderConnects, BeT, Backends, IdOrNone
<1>5. ConnectT' /\ BeT'
  BY <1>1, <1>3, <1>4 DEF ConnectT, BeT
<1>6. StopInv'
  BY <1>1 DEF StopInv, netVars
<1>7. \A m \in launching' : m.id # l.id
  BY <1>3, <1>4 DEF HolderConnects, IdInv
<1>8. IdInv'
  BY <1>1, <1>3, <1>4, <1>7 DEF IdInv
<1> QED BY <1>2, <1>5, <1>6, <1>8

(* The engine starts, and comes up.                                        *)
LEMMA EngineKeeps == ASSUME SInv, EngineStarts \/ Succeed PROVE SInv'
<1> USE DEF SInv, TInv
<1>1. UNCHANGED <<netVars, facts, user, acct, connectVars, endings, events, stopped>>
  BY DEF EngineStarts, Succeed
<1>2. ConnectT' /\ ConnectsCarried /\ EndsT' /\ EndsCarried
  BY <1>1, NothingNew DEF ConnectT, EndsT, connectVars
<1>3. be.id \in IdOrNone
  BY DEF BeT, Backends
<1>4. /\ Emission("Connecting", be.id, "none", "backend") \in Emissions
      /\ Emission("Connected", be.id, "none", "backend") \in Emissions
  BY <1>3, StatesTyped DEF BeT, Statuses
<1>5. emits' \subseteq Emissions
  BY <1>4, SetStatesTyped DEF EngineStarts, Succeed, BeT
<1>6. be' \in Backends /\ BackendCarried
  BY DEF EngineStarts, Succeed, BeT, Backends, BackendCarried
<1>7. info' \in Infos /\ info'.act = info.act
  BY DEF EngineStarts, Succeed, WatchesFromCreation, StateT, Infos
<1>8. NetT' /\ StateT' /\ CountT' /\ StopCarried
  BY <1>1, <1>7 DEF NetT, StateT, CountT, StopInv, StopCarried, netVars
<1>9. vpn' \in Vpns
  <2>1. CASE EngineStarts
    <3> DEFINE sticky == IF vpn.service = "up" THEN vpn.sticky ELSE user.wants
    <3>1. sticky \in BOOLEAN /\ vpn \in Vpns
      BY DEF VpnT, Vpns, StateT, Users
    <3>2. vpn' = [Started(vpn, sticky) EXCEPT !.tun = "engine", !.mode = "none"]
      BY <2>1 DEF EngineStarts
    <3> HIDE DEF sticky
    <3>3. Started(vpn, sticky) \in Vpns
      BY <3>1, StartedTyped
    <3> QED BY <3>2, <3>3 DEF Vpns, Modes
  <2>2. CASE Succeed
    BY <2>2 DEF Succeed, VpnT, Vpns, Modes
  <2> QED BY <2>1, <2>2
<1> QED BY <1>2, <1>5, <1>6, <1>8, <1>9, CarriedKeeps DEF VpnT, BeT

(* An attempt fails, a live session drops, a profile cannot be built.      *)
LEMMA FailuresKeep ==
  ASSUME SInv, NEW err \in Errors, Fail(err) \/ Drop(err) \/ \E w \in BOOLEAN : BuildFails(w, err) PROVE SInv'
<1> USE DEF SInv, TInv
<1>1. UNCHANGED <<netVars, info, facts, user, request, launching, driver, stopped>> /\ events' \in 0..MaxEvents
  BY EventCounted DEF Fail, Drop, BuildFails, connectVars
<1>2. vpn \in Vpns /\ acct \in Accts /\ endings \subseteq Ends
  BY DEF VpnT, StateT, EndsT
<1>3. Ending(acct, endings)
  <2>1. CASE \E via \in BOOLEAN : Teardown(err, facts, user, acct, vpn, endings, via)
    BY <1>2, <2>1, TeardownEnds
  <2>2. CASE DisconnectWithoutBackend(err, acct, vpn, endings)
    BY <1>2, <2>2, EndedWithoutBackend
  <2> QED BY <2>1, <2>2 DEF Fail, Drop, BuildFails
<1>4. attempt' \in [BOOLEAN -> Attempts] /\ \A w \in BOOLEAN : Carried(w)
  <2>1. CASE attempt' = attempt
    BY <2>1 DEF ConnectT, Carried
  <2>2. ASSUME NEW w \in BOOLEAN, BuildFails(w, err) PROVE attempt' \in [BOOLEAN -> Attempts] /\ \A x \in BOOLEAN : Carried(x)
    <3>1. attempt' = [attempt EXCEPT ![FALSE] = NoAttempt, ![w] = NoAttempt]
      BY <2>2 DEF BuildFails
    <3>2. attempt' \in [BOOLEAN -> Attempts] /\ \A x \in BOOLEAN : attempt'[x] \in {attempt[x], NoAttempt}
      BY <3>1, NothingTyped DEF ConnectT
    <3> QED BY <3>2, NothingTyped DEF Carried
  <2> QED BY <2>1, <2>2 DEF Fail, Drop, connectVars
<1>5. ConnectT' /\ ConnectsCarried
  BY <1>1, <1>4 DEF ConnectT, ConnectsCarried
<1>6. NetT' /\ StateT' /\ CountT' /\ StopCarried
  BY <1>1, <1>2, <1>3, SettledWorld DEF Ending, StateT
<1> QED BY <1>2, <1>3, <1>5, <1>6, EndingKeeps

(* The walk hears how its attempt ended, or gives up.                      *)
LEMMA WalkKeeps ==
  ASSUME SInv, WalkHears \/ \E end \in SessionEnds : GiveUp(end) PROVE SInv'
<1> USE DEF SInv, TInv
<1>1. UNCHANGED <<netVars, info, facts, user, acct, vpn, be, emits, request, attempt, launching, events, stopped>>
  BY DEF WalkHears, GiveUp
<1>2. NetT' /\ StateT' /\ CountT' /\ StopCarried /\ VpnT' /\ BeT' /\ BackendCarried
  BY <1>1, SettledWorld, NothingNew DEF StateT, CountT, VpnT, BeT
<1>3. driver' \in Drivers /\ (driver'.pc # "off" => driver.pc # "off" /\ driver'.src = driver.src)
  BY NothingTyped DEF WalkHears, GiveUp, ConnectT, Drivers
<1>4. ConnectT' /\ ConnectsCarried
  BY <1>1, <1>3 DEF ConnectT, ConnectsCarried, Carried
<1>5. EndsT' /\ EndsCarried
  <2>1. "controller" \in LaunchedKinds /\ "SystemDisconnect" \in SessionEnds /\ "UserDisconnect" \in SessionEnds
    BY DEF LaunchedKinds, SessionEnds
  <2>2. endings' = endings \/ \E end \in SessionEnds : endings' = endings \cup {LaunchedEnd("controller", end)}
    BY <2>1 DEF WalkHears, GiveUp
  <2>3. \A end \in SessionEnds : Unnamed(LaunchedEnd("controller", end))
    BY <2>1, EndTyped
  <2> QED BY <2>2, <2>3, NothingNew DEF EndsT, Unnamed
<1> QED BY <1>2, <1>4, <1>5, CarriedKeeps

(* The walk makes its next attempt.                                        *)
LEMMA NextProtocolKeeps == ASSUME SInv, NextProtocol PROVE SInv'
<1> USE DEF SInv, TInv
<1>1. UNCHANGED <<netVars, info, facts, user, acct, vpn, be, emits, request, launching, endings, events, stopped>>
  BY DEF NextProtocol
<1>2. NetT' /\ StateT' /\ CountT' /\ StopCarried /\ VpnT' /\ BeT' /\ EndsT'
  BY <1>1, SettledWorld DEF StateT, CountT, VpnT, BeT, EndsT
<1>3. PICK id \in FreshIds, first \in {FALSE, driver.first} :
        /\ attempt' = [attempt EXCEPT ![TRUE] = Asked(driver.src, id)]
        /\ driver' = [driver EXCEPT !.pc = "waiting", !.id = id, !.first = first]
  BY DEF NextProtocol
<1>4. id \in Ids /\ driver.src \in Sources /\ first \in BOOLEAN
  BY DEF FreshIds, ConnectT, Drivers
<1>5. driver' \in Drivers /\ driver'.src = driver.src
  BY <1>3, <1>4 DEF ConnectT, Drivers, IdOrNone
<1>6. ConnectT'
  BY <1>1, <1>3, <1>4, <1>5, AskedTyped DEF ConnectT
<1>7. stopped' => driver.src # "User"
  BY <1>1 DEF NextProtocol, StopInv
<1> QED BY <1>1, <1>2, <1>3, <1>4, <1>5, <1>6, <1>7, FreshKeeps

-----------------------------------------------------------------------------
(* The watcher and the app.                                                *)

(* The watcher decides on no connect while the network is stood down.      *)
LEMMA WatchEvaluatesKeeps == ASSUME SInv, WatchEvaluates PROVE SInv'
<1> USE DEF SInv, TInv
<1> DEFINE row == info.row
           isNew == row.name \notin {None, info.last}
           stale == (row.name # None /\ vpn.mode = "NoNetwork") \/ (isNew /\ vpn.mode \in Failed)
           cleared == [vpn EXCEPT !.mode = IF stale THEN "none" ELSE @]
           input == PolicyInput(AutoSecure(row), facts, user, acct, cleared)
           release == ~blockingApplies(input) /\ ~isTunnelUp(vpn)
           act == CASE shouldAutoConnect(input) -> "connect"
                    [] ~shouldAutoConnect(input) /\ shouldAutoDisconnect(input) -> "disconnect"
                    [] OTHER -> IF release THEN "idle" ELSE "none"
<1>1. /\ vpn' = cleared
      /\ info' = [info EXCEPT !.watch = FALSE, !.last = IF isNew THEN row.name ELSE @, !.release = release, !.act = act]
      /\ UNCHANGED <<netVars, facts, user, acct, be, emits, connectVars, endings, events, stopped>>
  BY DEF WatchEvaluates
<1>2. cleared \in Vpns
  BY DEF VpnT, Vpns, Modes
<1>3. act \in {"none", "idle", "connect", "disconnect"} /\ (facts.isDown => act # "connect")
  <2>1. shouldAutoConnect(input) => ~facts.isDown
    BY AutoConnectGuarded
  <2> HIDE DEF input, release
  <2> QED BY <2>1
<1>4. release \in BOOLEAN /\ (IF isNew THEN row.name ELSE info.last) \in Places
  BY DEF StateT, Infos
<1> HIDE DEF act, release, isNew, row, cleared
<1>5. info' \in Infos /\ info'.act = act
  BY <1>1, <1>3, <1>4 DEF StateT, Infos
<1>6. NetT' /\ StateT' /\ CountT' /\ VpnT' /\ EndsT' /\ EndsCarried
  BY <1>1, <1>2, <1>5, NothingNew DEF NetT, StateT, CountT, VpnT, EndsT, netVars
<1>7. StopCarried
  BY <1>1, <1>3, <1>5 DEF StopInv, StopCarried, netVars
<1> QED BY <1>1, <1>6, <1>7, WorldKeeps

(* connectAsync, from whoever decides on it while no disconnect stands.    *)
LEMMA ConnectAsyncKeeps ==
  ASSUME SInv, ConnectAsync, UNCHANGED <<be, emits, request, launching, driver>>,
         NetT', StateT', VpnT', CountT', endings' \subseteq Ends,
         \A e \in endings' : e \in endings \/ Unnamed(e), ~stopped'
  PROVE  SInv'
<1>1. PICK id \in FreshIds : attempt' = [attempt EXCEPT ![FALSE] = Asked("App", id)]
  BY DEF ConnectAsync
<1>2. id \in Ids /\ "App" \in Sources
  BY DEF FreshIds, Sources
<1>3. ConnectT'
  BY <1>1, <1>2, AskedTyped DEF SInv, TInv, ConnectT
<1>4. TInv'
  BY <1>3 DEF SInv, TInv, BeT, EndsT
<1> QED BY <1>1, <1>2, <1>4, FreshKeeps DEF StopCarried

(* The watcher acts on what it decided.                                    *)
LEMMA WatchActsKeeps == ASSUME SInv, WatchActs PROVE SInv'
<1> USE DEF SInv, TInv
<1> DEFINE v == IF info.release THEN [vpn EXCEPT !.tun = Released(@)] ELSE vpn
<1>1. /\ info' = [info EXCEPT !.release = FALSE, !.act = "none"]
      /\ UNCHANGED <<netVars, facts, user, events, stopped>>
      /\ \/ info.act = "connect" /\ ConnectAsync /\ vpn' = v /\ UNCHANGED <<acct, be, emits, request, launching, driver, endings>>
         \/ DisconnectBeside(endings, "SystemDisconnect", facts, user, acct, v)
         \/ vpn' = v /\ UNCHANGED <<acct, be, emits, connectVars, endings>>
  BY DEF WatchActs, Disconnect
<1>2. v \in Vpns
  BY DEF VpnT, Vpns, Released
<1> HIDE DEF v
<1>3. info' \in Infos /\ info'.act = "none"
  BY <1>1 DEF StateT, Infos
<1>4. acct \in Accts /\ endings \subseteq Ends /\ events \in 0..MaxEvents /\ "SystemDisconnect" \in Errors
  BY DEF StateT, EndsT, CountT, Errors
<1>5. acct' = acct => NetT' /\ StateT' /\ CountT' /\ StopCarried
  BY <1>1, <1>3, <1>4, SettledWorld
<1>6. CASE info.act = "connect" /\ ConnectAsync /\ vpn' = v /\ UNCHANGED <<acct, be, emits, request, launching, driver, endings>>
  <2>1. ~stopped'
    BY <1>1, <1>6 DEF StopInv
  <2> QED BY <1>2, <1>4, <1>5, <1>6, <2>1, ConnectAsyncKeeps DEF VpnT
<1>7. CASE DisconnectBeside(endings, "SystemDisconnect", facts, user, acct, v)
  <2>1. Ending(acct, endings) /\ ConnectT' /\ ConnectsCarried
    BY <1>2, <1>4, <1>7, DisconnectEnds
  <2>2. acct' = acct
    BY <2>1 DEF Ending
  <2> QED BY <1>4, <1>5, <2>1, <2>2, EndingKeeps
<1>8. CASE vpn' = v /\ UNCHANGED <<acct, be, emits, connectVars, endings>>
  BY <1>2, <1>4, <1>5, <1>8, NothingNew, WorldKeeps DEF VpnT, EndsT
<1> QED BY <1>1, <1>6, <1>7, <1>8

(* reconcile connects only on a network that is not stood down and with    *)
(* Auto-Connect on.                                                        *)
LEMMA ReconcileGuarded ==
  ASSUME NEW f, NEW u, NEW a, NEW v, reconcile(CurrentInput(f, u, a, v)) = "Connect"
  PROVE  ~f.isDown /\ u.autoConnect
<1> DEFINE i == PolicyInput(AutoSecure(DatabaseRow), f, u, a, v)
<1>1. i.autoConnect = u.autoConnect
  BY DEF PolicyInput
<1>2. shouldAutoConnect(i) => ~f.isDown
  BY AutoConnectGuarded
<1> HIDE DEF i
<1>3. reconcile(i) = "Connect"
  BY DEF CurrentInput, i
<1> QED BY <1>1, <1>2, <1>3 DEF reconcile

(* reconcile keeps the invariant: the facts and preferences it is given    *)
(* are the new ones.                                                       *)
LEMMA ReconcileKeeps ==
  ASSUME SInv, NEW v \in Vpns, NEW a, Reconcile(facts', user', a, v), info \in Infos,
         UNCHANGED <<be, emits, launching, driver>>, request' \in {request, request \cup {"Refresh"}},
         NetT', facts' \in Facts, user' \in Users, acct' \in Accts, CountT',
         stopped' => stopped /\ detail' = net' /\ ~changing' /\ facts'.isDown
  PROVE  SInv'
<1> USE DEF SInv, TInv
<1> DEFINE effect == reconcile(CurrentInput(facts', user', a, v))
<1>1. Started(v, FALSE) \in Vpns
  BY StartedTyped
<1>2. vpn' \in Vpns
  BY <1>1 DEF Reconcile
<1>3. info' \in Infos /\ info'.act = info.act
  BY DEF Reconcile, WatchesFromCreation, Infos
<1>4. StateT' /\ StopCarried
  BY <1>3 DEF StateT, StopCarried, StopInv
<1>5. \A e \in endings' : e \in endings \/ Unnamed(e)
  <2>1. Unnamed(LaunchedEnd("service", "SystemDisconnect")) /\ Unnamed(LaunchedEnd("controller", "UserTurnOff"))
    <3>1. /\ "service" \in LaunchedKinds /\ "controller" \in LaunchedKinds
          /\ "SystemDisconnect" \in SessionEnds /\ "UserTurnOff" \in SessionEnds
      BY DEF LaunchedKinds, SessionEnds
    <3> QED BY <3>1, EndTyped
  <2> QED BY <2>1 DEF Reconcile
<1>6. EndsT' /\ EndsCarried
  BY <1>5 DEF EndsT, EndsCarried, Unnamed
<1>7. "Refresh" \in Sources /\ request' \subseteq Sources /\ ("User" \in request' => "User" \in request)
  BY DEF Sources, ConnectT
<1>8. CASE effect = "Connect"
  <2>1. ConnectAsync
    BY <1>8 DEF Reconcile
  <2>2. ~stopped'
    BY <1>8, ReconcileGuarded
  <2>3. PICK id \in FreshIds : attempt' = [attempt EXCEPT ![FALSE] = Asked("App", id)]
    BY <2>1 DEF ConnectAsync
  <2>4. id \in Ids /\ "App" \in Sources
    BY DEF FreshIds, Sources
  <2>5. ConnectT'
    BY <1>7, <2>3, <2>4, AskedTyped DEF ConnectT
  <2>6. TInv'
    BY <1>2, <1>4, <1>6, <2>5 DEF VpnT, BeT
  <2> QED BY <1>4, <1>5, <1>7, <2>2, <2>3, <2>4, <2>6, FreshKeeps
<1>9. CASE effect # "Connect"
  <2>1. attempt' = attempt
    BY <1>9 DEF Reconcile
  <2>2. ConnectT' /\ ConnectsCarried
    BY <1>7, <2>1 DEF ConnectT, ConnectsCarried, Carried
  <2> QED BY <1>2, <1>4, <1>6, <2>2, NothingNew, CarriedKeeps DEF VpnT, BeT
<1> QED BY <1>8, <1>9

(* The app starts the service to watch a network to be secured.            *)
LEMMA AppNoticesKeeps == ASSUME SInv, AppNotices PROVE SInv'
<1> USE DEF SInv, TInv
<1> DEFINE e == LaunchedEnd("service", "SystemDisconnect")
<1>1. Unnamed(e)
  <2>1. "service" \in LaunchedKinds /\ "SystemDisconnect" \in SessionEnds
    BY DEF LaunchedKinds, SessionEnds
  <2> QED BY <2>1, EndTyped
<1>2. /\ vpn' = vpn \/ vpn' = Started(vpn, FALSE)
      /\ endings' = endings \/ endings' = endings \cup {e}
      /\ UNCHANGED <<netVars, facts, user, acct, be, emits, connectVars, events, stopped>>
  BY DEF AppNotices
<1> HIDE DEF e
<1>3. VpnT'
  BY <1>2, StartedTyped DEF VpnT
<1>4. EndsT' /\ EndsCarried
  BY <1>1, <1>2, NothingNew DEF EndsT, Unnamed
<1>5. info' \in Infos /\ info'.act = info.act
  BY DEF AppNotices, StateT, Infos
<1>6. NetT' /\ StateT' /\ CountT' /\ StopCarried
  BY <1>2, <1>5 DEF NetT, StateT, CountT, StopInv, StopCarried, netVars
<1> QED BY <1>2, <1>3, <1>4, <1>6, WorldKeeps

(* The Auto-Secure switch.                                                 *)
LEMMA ToggleAutoSecureKeeps == ASSUME SInv, ToggleAutoSecure PROVE SInv'
<1> USE DEF SInv, TInv
<1> DEFINE input == PolicyInput(AutoSecure([name |-> detail, on |-> ~secured[detail]]), facts, user, acct, vpn)
<1>1. /\ UNCHANGED <<net, detail, changing, facts, user, stopped>>
      /\ detail # None /\ secured' = [secured EXCEPT ![detail] = ~@] /\ info' = [info EXCEPT !.reload = TRUE]
      /\ events' \in 0..MaxEvents
  BY EventCounted DEF ToggleAutoSecure
<1>2. \/ shouldAutoConnect(input) /\ ConnectAsync /\ UNCHANGED <<vpn, acct, be, emits, request, launching, driver, endings>>
      \/ DisconnectBeside(endings, "SystemDisconnect", facts, user, acct, vpn)
      \/ UNCHANGED <<vpn, acct, be, emits, connectVars, endings>>
  BY DEF ToggleAutoSecure, Disconnect
<1>3. info' \in Infos /\ info'.act = info.act
  BY <1>1 DEF StateT, Infos
<1>4. NetT'
  BY <1>1 DEF NetT, Places
<1>5. vpn \in Vpns /\ acct \in Accts /\ endings \subseteq Ends /\ "SystemDisconnect" \in Errors
  BY DEF VpnT, StateT, EndsT, Errors
<1>6. acct' = acct => StateT' /\ CountT' /\ StopCarried
  BY <1>1, <1>3 DEF StateT, CountT, StopInv, StopCarried
<1>7. CASE shouldAutoConnect(input) /\ ConnectAsync /\ UNCHANGED <<vpn, acct, be, emits, request, launching, driver, endings>>
  <2>1. ~stopped'
    BY <1>1, <1>7, AutoConnectGuarded DEF StopInv
  <2> HIDE DEF input
  <2> QED BY <1>4, <1>5, <1>6, <1>7, <2>1, ConnectAsyncKeeps DEF VpnT
<1>8. CASE DisconnectBeside(endings, "SystemDisconnect", facts, user, acct, vpn)
  <2>1. Ending(acct, endings) /\ ConnectT' /\ ConnectsCarried
    BY <1>5, <1>8, DisconnectEnds
  <2>2. acct' = acct
    BY <2>1 DEF Ending
  <2> QED BY <1>4, <1>5, <1>6, <2>1, <2>2, EndingKeeps
<1>9. CASE UNCHANGED <<vpn, acct, be, emits, connectVars, endings>>
  BY <1>4, <1>5, <1>6, <1>9, NothingNew, WorldKeeps DEF VpnT, EndsT
<1> QED BY <1>2, <1>7, <1>8, <1>9

-----------------------------------------------------------------------------
(* The user.                                                               *)

(* The user asks for a connect.                                            *)
LEMMA PressConnectKeeps == ASSUME SInv, NEW via \in Surfaces, PressConnect(via) PROVE SInv'
<1> USE DEF SInv, TInv
<1>1. /\ user' = [user EXCEPT !.wants = TRUE] /\ request' = request \cup {"User"} /\ ~stopped' /\ stopped' \in BOOLEAN
      /\ UNCHANGED <<netVars, info, facts, acct, be, emits, attempt, launching, driver, endings>>
      /\ events' \in 0..MaxEvents
  BY EventCounted DEF PressConnect
<1>2. VpnT'
  <2>1. PICK sticky \in {user.wants, TRUE} :
          vpn' = IF via = "notification" THEN [Started(vpn, sticky) EXCEPT !.mode = "none"] ELSE vpn
    BY DEF PressConnect
  <2>2. sticky \in BOOLEAN
    BY DEF StateT, Users
  <2>3. Started(vpn, sticky) \in Vpns
    BY <2>2, StartedTyped DEF VpnT
  <2> QED BY <2>1, <2>3 DEF VpnT, Vpns, Modes
<1>3. NetT' /\ StateT' /\ CountT' /\ BeT' /\ EndsT'
  BY <1>1 DEF NetT, StateT, Users, CountT, BeT, EndsT, netVars
<1>4. ConnectT'
  BY <1>1 DEF ConnectT, Sources
<1>5. StopInv'
  BY <1>1 DEF StopInv
<1>6. IdInv'
  BY <1>1 DEF IdInv
<1> QED BY <1>2, <1>3, <1>4, <1>5, <1>6

(* The user disconnects: from here on the disconnect may stand.            *)
LEMMA PressDisconnectKeeps == ASSUME SInv, NEW via \in Surfaces, PressDisconnect(via) PROVE SInv'
<1> USE DEF SInv, TInv
<1> DEFINE u == [user EXCEPT !.wants = FALSE]
           f == StandDown(facts)
           v == IF via = "notification" THEN Started(vpn, FALSE) ELSE vpn
<1>1. /\ user' = u /\ facts' = f /\ DisconnectBeside(endings, "UserDisconnect", f, u, acct, v)
      /\ stopped' = (detail = net /\ ~changing /\ request = {} /\ attempt[TRUE].pc = "none" /\ driver.pc = "off" /\ info.act # "connect")
      /\ UNCHANGED <<netVars, info>> /\ events' \in 0..MaxEvents
  BY EventCounted DEF PressDisconnect, Disconnect, At
<1>2. v \in Vpns /\ acct \in Accts /\ endings \subseteq Ends /\ "UserDisconnect" \in Errors
  BY StartedTyped DEF VpnT, StateT, EndsT, Errors, UserIntentEnds
<1>3. u \in Users /\ f \in Facts /\ f.isDown
  BY FactsTyped DEF StateT, Users, NetT
<1> HIDE DEF u, f, v
<1>4. /\ Ending(acct, endings) /\ ConnectT' /\ ConnectsCarried
      /\ attempt'[FALSE].pc = "none" /\ attempt'[TRUE].pc = attempt[TRUE].pc
      /\ UNCHANGED <<request, launching, driver>>
  BY <1>1, <1>2, DisconnectEnds
<1>5. TInv' /\ BackendCarried
  BY <1>1, <1>2, <1>3, <1>4 DEF Ending, NetT, StateT, VpnT, EndsT, CountT, netVars
<1>6. EndsCarried
  BY <1>4 DEF Ending, EndsCarried
<1>7. ASSUME stopped' PROVE StopInv!2'
  <2>1. detail = net /\ ~changing /\ request = {} /\ attempt[TRUE].pc = "none" /\ driver.pc = "off" /\ info.act # "connect"
    BY <1>1, <1>7
  <2>2. \A w \in BOOLEAN : attempt'[w].pc = "none"
    BY <1>4, <2>1
  <2> QED BY <1>1, <1>3, <1>4, <2>1, <2>2 DEF netVars
<1>8. StopInv'
  BY <1>7 DEF StopInv
<1>9. IdInv'
  BY <1>4, <1>5, <1>6, CarriedIds
<1> QED BY <1>5, <1>8, <1>9

(* A dismissed attempt and a pause launch an end.                          *)
LEMMA DismissalsKeep == ASSUME SInv, DismissAttempt \/ Pause PROVE SInv'
<1> USE DEF SInv, TInv
<1>1. Unnamed(LaunchedEnd("service", "UserTurnOff")) /\ Unnamed(LaunchedDisconnect("UserPause"))
  <2>1. "service" \in LaunchedKinds /\ "UserTurnOff" \in SessionEnds /\ "UserPause" \in Errors
    BY DEF LaunchedKinds, SessionEnds, Errors, UserIntentEnds
  <2> QED BY <2>1, EndTyped
<1>2. /\ UNCHANGED <<netVars, info, facts, user, acct, be, emits, connectVars, stopped>> /\ events' \in 0..MaxEvents
      /\ \E e : Unnamed(e) /\ endings' = endings \cup {e}
  BY <1>1, EventCounted DEF DismissAttempt, Pause
<1>3. VpnT'
  <2>1. Started(vpn, FALSE) \in Vpns
    BY StartedTyped DEF VpnT
  <2>2. [Started(vpn, FALSE) EXCEPT !.mode = "Paused"] \in Vpns
    BY <2>1 DEF Vpns, Modes
  <2> QED BY <2>1, <2>2 DEF DismissAttempt, Pause, VpnT
<1>4. NetT' /\ StateT' /\ CountT' /\ StopCarried
  BY <1>2, SettledWorld DEF StateT
<1>5. EndsT' /\ EndsCarried
  BY <1>2, NothingNew DEF EndsT, Unnamed
<1> QED BY <1>2, <1>3, <1>4, <1>5, WorldKeeps

(* Turning off disconnects, and ends the session after.                    *)
LEMMA TurnOffKeeps == ASSUME SInv, NEW via \in Surfaces, TurnOff(via) PROVE SInv'
<1> USE DEF SInv, TInv
<1> DEFINE u == [user EXCEPT !.wants = FALSE]
           others == endings \cup IF be.holder THEN {} ELSE {LaunchedEnd("controller", "UserTurnOff")}
           v == IF via = "notification" THEN Started(vpn, FALSE) ELSE vpn
<1>1. /\ user' = u /\ DisconnectBeside(others, "UserTurnOff", facts, u, acct, v)
      /\ UNCHANGED <<netVars, info, facts, stopped>> /\ events' \in 0..MaxEvents
  BY EventCounted DEF TurnOff
<1>2. v \in Vpns /\ acct \in Accts /\ "UserTurnOff" \in Errors /\ u \in Users
  BY StartedTyped DEF VpnT, StateT, Users, Errors, UserIntentEnds
<1>3. (\A e \in others : e \in endings \/ Unnamed(e)) /\ others \subseteq Ends
  <2>1. "controller" \in LaunchedKinds /\ "UserTurnOff" \in SessionEnds
    BY DEF LaunchedKinds, SessionEnds
  <2>2. Unnamed(LaunchedEnd("controller", "UserTurnOff"))
    BY <2>1, EndTyped
  <2> QED BY <2>2 DEF EndsT, Unnamed
<1> HIDE DEF u, others, v
<1>4. Ending(acct, others) /\ ConnectT' /\ ConnectsCarried
  BY <1>1, <1>2, <1>3, DisconnectEnds
<1>5. NetT' /\ StateT' /\ CountT' /\ StopCarried
  BY <1>1, <1>2, <1>4 DEF Ending, NetT, StateT, CountT, StopInv, StopCarried, netVars
<1> QED BY <1>2, <1>3, <1>4, <1>5, EndingKeeps

(* Turning Auto-Connect on takes the stand-down back, and the disconnect   *)
(* stands no more; turning it off connects nothing.                        *)
LEMMA ToggleAutoConnectKeeps == ASSUME SInv, ToggleAutoConnect PROVE SInv'
<1> USE DEF SInv, TInv
<1>1. /\ user' = [user EXCEPT !.autoConnect = ~@]
      /\ facts' = IF user'.autoConnect THEN ClearStandDown(facts) ELSE facts
      /\ Reconcile(facts', user', acct, vpn)
      /\ stopped' = (stopped /\ ~user'.autoConnect)
      /\ UNCHANGED <<netVars, acct, be, emits, request, launching, driver>> /\ events' \in 0..MaxEvents
  BY EventCounted DEF ToggleAutoConnect
<1>2. user' \in Users /\ facts' \in Facts /\ acct' \in Accts /\ vpn \in Vpns /\ info \in Infos
  BY <1>1, FactsTyped DEF StateT, Users, NetT, VpnT
<1>3. NetT' /\ CountT'
  BY <1>1 DEF NetT, CountT, netVars
<1>4. stopped' => stopped /\ detail' = net' /\ ~changing' /\ facts'.isDown
  BY <1>1 DEF StopInv, netVars
<1> QED BY <1>1, <1>2, <1>3, <1>4, ReconcileKeeps

-----------------------------------------------------------------------------
(* SessionWorker's refresh and the process.                                *)

(* A refresh keeps the invariant, whatever it learns of the account.       *)
LEMMA RefreshKeeps ==
  ASSUME SInv, RefreshFindsExpired \/ RefreshLiftsBlock \/ (\E moved \in BOOLEAN : RefreshReconnects(moved)) PROVE SInv'
<1> USE DEF SInv, TInv
<1>1. Learned \in Accts
  BY DEF Learned, StateT, Accts
<1>2. vpn \in Vpns /\ endings \subseteq Ends /\ info \in Infos /\ events \in 0..MaxEvents
  BY DEF VpnT, EndsT, StateT, CountT
<1>3. "SystemDisconnect" \in SessionEnds /\ "SystemDisconnect" \in Errors /\ "controller" \in LaunchedKinds
  BY DEF SessionEnds, Errors, LaunchedKinds
<1>4. CASE RefreshFindsExpired
  <2>1. UNCHANGED <<netVars, info, facts, user, events, stopped>>
    BY <1>4 DEF RefreshFindsExpired
  <2>2. acct' = Learned => NetT' /\ StateT' /\ CountT' /\ StopCarried
    BY <1>1, <1>2, <2>1, SettledWorld
  <2>3. CASE DisconnectBeside(endings, "SystemDisconnect", facts, user, Learned, vpn)
    <3>1. Ending(Learned, endings) /\ ConnectT' /\ ConnectsCarried
      BY <1>2, <1>3, <2>3, DisconnectEnds
    <3>2. acct' = Learned
      BY <3>1 DEF Ending
    <3> QED BY <1>1, <2>2, <3>1, <3>2, EndingKeeps
  <2>4. CASE /\ acct' = Learned /\ UNCHANGED <<vpn, be, emits, connectVars>>
             /\ endings' = endings \/ endings' = endings \cup {LaunchedEnd("controller", "SystemDisconnect")}
    <3>1. Unnamed(LaunchedEnd("controller", "SystemDisconnect"))
      BY <1>3, EndTyped
    <3>2. EndsT' /\ EndsCarried
      BY <1>2, <2>4, <3>1, NothingNew DEF EndsT, Unnamed
    <3> QED BY <1>2, <2>2, <2>4, <3>2, WorldKeeps DEF VpnT
  <2> QED BY <1>4, <2>3, <2>4 DEF RefreshFindsExpired, Disconnect
<1>5. CASE RefreshLiftsBlock
  <2> DEFINE v == [vpn EXCEPT !.mode = "none"]
  <2>1. v \in Vpns
    BY <1>2 DEF Vpns, Modes
  <2>2. /\ acct' = Learned /\ UNCHANGED <<netVars, facts, user, be, emits, launching, driver, events, stopped>>
        /\ \/ vpn' = v /\ request' = request \cup {"Refresh"} /\ UNCHANGED <<info, attempt, endings>>
           \/ Reconcile(facts, user, Learned, v) /\ request' = request
    BY <1>5 DEF RefreshLiftsBlock
  <2> HIDE DEF v
  <2>3. NetT' /\ CountT' /\ facts' \in Facts /\ user' \in Users /\ acct' \in Accts
    BY <1>1, <2>2 DEF NetT, CountT, StateT, netVars
  <2>4. stopped' => stopped /\ detail' = net' /\ ~changing' /\ facts'.isDown
    BY <2>2 DEF StopInv, netVars
  <2>5. CASE vpn' = v /\ request' = request \cup {"Refresh"} /\ UNCHANGED <<info, attempt, endings>>
    <3>1. StateT' /\ StopCarried /\ VpnT' /\ BeT' /\ EndsT'
      BY <1>2, <2>1, <2>2, <2>3, <2>4, <2>5 DEF StateT, StopInv, StopCarried, VpnT, BeT, EndsT
    <3>2. ConnectT' /\ ConnectsCarried
      BY <2>2, <2>5 DEF ConnectT, Sources, ConnectsCarried, Carried
    <3> QED BY <2>2, <2>3, <2>5, <3>1, <3>2, NothingNew, CarriedKeeps
  <2>6. CASE Reconcile(facts, user, Learned, v) /\ request' = request
    <3>1. Reconcile(facts', user', Learned, v)
      BY <2>2, <2>6
    <3> QED BY <1>2, <2>1, <2>2, <2>3, <2>4, <2>6, <3>1, ReconcileKeeps
  <2> QED BY <2>2, <2>5, <2>6
<1>6. ASSUME NEW moved \in BOOLEAN, RefreshReconnects(moved) PROVE SInv'
  <2>1. /\ acct' = Learned /\ request' \in {request, request \cup {"Refresh"}}
        /\ UNCHANGED <<netVars, info, facts, user, vpn, be, emits, attempt, launching, driver, endings, stopped>>
        /\ events' \in 0..MaxEvents
    BY <1>6, EventCounted DEF RefreshReconnects, CountT
  <2>2. NetT' /\ StateT' /\ CountT' /\ StopCarried
    BY <1>1, <1>2, <2>1, SettledWorld
  <2>3. VpnT' /\ BeT' /\ EndsT'
    BY <2>1 DEF VpnT, BeT, EndsT
  <2>4. ConnectT' /\ ConnectsCarried
    BY <2>1 DEF ConnectT, Sources, ConnectsCarried, Carried
  <2> QED BY <2>1, <2>2, <2>3, <2>4, NothingNew, CarriedKeeps
<1> QED BY <1>4, <1>5, <1>6

(* A new process has no session, no backend and no fact.                   *)
LEMMA NewTyped ==
  ASSUME NEW watches \in BOOLEAN
  PROVE  /\ NewSession(watches) \in Vpns /\ NewBackend \in Backends /\ NewInfo(watches) \in Infos /\ NoFacts \in Facts
         /\ \A e \in StartingEnds(watches) : Unnamed(e)
         /\ [w \in BOOLEAN |-> NoAttempt] \in [BOOLEAN -> Attempts]
<1>1. NewSession(watches) \in Vpns /\ NewBackend \in Backends
  BY DEF NewSession, NewBackend, Vpns, Backends, Statuses, Modes, IdOrNone
<1>2. NewInfo(watches) \in Infos /\ NoFacts \in Facts
  BY DEF NewInfo, NoRow, NoFacts, Infos, Facts, Places
<1>3. \A e \in StartingEnds(watches) : Unnamed(e)
  <2>1. "service" \in LaunchedKinds /\ "SystemDisconnect" \in SessionEnds
    BY DEF LaunchedKinds, SessionEnds
  <2> QED BY <2>1, EndTyped DEF StartingEnds
<1> QED BY <1>1, <1>2, <1>3, NothingTyped

(* A process with nothing under way satisfies the invariant.               *)
LEMMA NothingUnderWay ==
  ASSUME ~stopped, attempt = [w \in BOOLEAN |-> NoAttempt], launching = {}, \A e \in endings : Unnamed(e)
  PROVE  StopInv /\ IdInv
  BY NothingTyped DEF StopInv, IdInv, Unnamed

(* The invariant holds when the app is born ...                            *)
LEMMA SessionStarts == Init => SInv
<1> SUFFICES ASSUME Init PROVE SInv
  OBVIOUS
<1>1. user \in Users /\ user.autoConnect \in BOOLEAN /\ acct \in Accts /\ secured \in [Networks -> BOOLEAN]
  BY SessionAssumption DEF Init, Users, Accts
<1>2. StateT /\ VpnT /\ BeT
  BY <1>1, NewTyped DEF Init, StateT, VpnT, BeT
<1>3. NetT /\ CountT
  <2>1. NetT /\ events = 0 /\ stopped = FALSE
    BY <1>1 DEF Init, NetT, Places
  <2>2. 0 \in 0..MaxEvents
    BY SessionAssumption
  <2> QED BY <2>1, <2>2 DEF CountT
<1>4. \A e \in endings : Unnamed(e)
  BY <1>1, NewTyped DEF Init
<1>5. EndsT
  BY <1>4 DEF EndsT, Unnamed
<1>6. ConnectT
  BY NothingTyped DEF Init, ConnectT
<1>7. StopInv /\ IdInv
  BY <1>4, NothingUnderWay DEF Init
<1> QED BY <1>2, <1>3, <1>5, <1>6, <1>7 DEF SInv, TInv

(* ... and when its process is restarted.                                  *)
LEMMA ProcessDiesKeeps == ASSUME SInv, ProcessDies PROVE SInv'
<1> USE DEF SInv, TInv
<1> DEFINE restarts == vpn.service = "up" /\ vpn.sticky
           connects == restarts /\ acct.known = "okay"
           watches(read) == user.autoConnect /\ (read => acct.known = "okay")
<1>1. PICK read \in BOOLEAN :
        /\ vpn' = NewSession(restarts \/ watches(read))
        /\ request' = IF connects THEN {"App"} ELSE {}
        /\ user' = [user EXCEPT !.wants = @ \/ connects]
        /\ info' = NewInfo(restarts \/ watches(read))
        /\ endings' = StartingEnds(watches(read))
  BY DEF ProcessDies
<1>2. watches(read) \in BOOLEAN /\ (restarts \/ watches(read)) \in BOOLEAN /\ connects \in BOOLEAN
  BY DEF StateT, Users, VpnT, Vpns
<1> HIDE DEF restarts, connects, watches
<1>3. vpn' \in Vpns /\ info' \in Infos /\ \A e \in endings' : Unnamed(e)
  BY <1>1, <1>2, NewTyped
<1>4. /\ be' = NewBackend /\ emits' = {} /\ attempt' = [w \in BOOLEAN |-> NoAttempt] /\ launching' = {}
      /\ driver' = NotDriving /\ facts' = NoFacts /\ ~stopped' /\ stopped' \in BOOLEAN
      /\ net' = net /\ detail' = net /\ changing' = FALSE /\ UNCHANGED <<secured, acct>>
      /\ events' \in 0..MaxEvents
  BY EventCounted DEF ProcessDies
<1>5. user' \in Users
  BY <1>1, <1>2 DEF StateT, Users
<1>6. NetT' /\ StateT' /\ VpnT' /\ BeT' /\ CountT' /\ EndsT'
  BY <1>3, <1>4, <1>5, NewTyped DEF NetT, StateT, VpnT, BeT, CountT, EndsT, Unnamed
<1>7. ConnectT'
  BY <1>1, <1>2, <1>4, NewTyped, NothingTyped DEF ConnectT, Sources
<1>8. StopInv'
  BY <1>4 DEF StopInv
<1>9. IdInv'
  BY <1>3, <1>4, NothingTyped DEF IdInv, Unnamed
<1> QED BY <1>6, <1>7, <1>8, <1>9

(* SInv is inductive.                                                      *)
LEMMA SessionInductive == SInv /\ [Next]_vars => SInv'
<1> SUFFICES ASSUME SInv, [Next]_vars PROVE SInv'
  OBVIOUS
<1>1. CASE UNCHANGED vars
  <2>1. NetT' /\ StateT' /\ VpnT' /\ CountT' /\ EndsT' /\ StopCarried
    BY <1>1 DEF vars, netVars, SInv, TInv, NetT, StateT, VpnT, CountT, EndsT, StopInv, StopCarried
  <2> QED BY <1>1, <2>1, NothingNew, WorldKeeps DEF vars
<1>2. CASE DeviceSteps
  BY <1>2, DeviceKeeps, WatchEvaluatesKeeps, WatchActsKeeps, AppNoticesKeeps DEF DeviceSteps
<1>3. CASE EmitSteps
  BY <1>3, EmitKeeps DEF EmitSteps
<1>4. CASE EndSteps
  BY <1>4, BackendStopsKeeps, BackendEndsKeeps, LaunchedEndsKeep, DisconnectRunsKeeps DEF EndSteps
<1>5. CASE ServiceDestroyed
  BY <1>5, ServiceDestroyedKeeps
<1>6. CASE ConnectSteps
  <2>1. CASE BeginSteps
    BY <2>1, NoWalkKeeps, BeginKeeps DEF BeginSteps
  <2>2. CASE PrepareSteps
    BY <2>2, PrepareKeeps, LaunchKeeps DEF PrepareSteps
  <2>3. CASE StartSteps
    BY <2>3, EngineKeeps, HolderConnectsKeeps DEF StartSteps
  <2> QED BY <1>6, <2>1, <2>2, <2>3 DEF ConnectSteps
<1>7. CASE WalkSteps
  BY <1>7, WalkKeeps, NextProtocolKeeps DEF WalkSteps
<1>8. CASE Outcomes
  <2>1. {"Timeout", "Unknown", "Auth", "Generic", "Broken"} \subseteq Errors
    BY DEF Errors
  <2>2. {"ConnectFailed", "NoNetwork", "UserDisconnect"} \subseteq SessionEnds
    BY DEF SessionEnds
  <2> QED BY <1>8, <2>1, <2>2, EngineKeeps, FailuresKeep, WalkKeeps, EngineLossKeeps DEF Outcomes
<1>9. CASE UserSteps
  BY <1>9, PressConnectKeeps, PressDisconnectKeeps, TurnOffKeeps, DismissalsKeep, ToggleAutoConnectKeeps, ToggleAutoSecureKeeps
     DEF UserSteps
<1>10. CASE RefreshSteps \/ RefreshReconnects(TRUE)
  BY <1>10, RefreshKeeps DEF RefreshSteps
<1>11. CASE AccountChanges \/ (\E n \in Networks \cup {None} : Move(n))
  BY <1>11, DeviceKeeps DEF Places
<1>12. CASE ProcessDies
  BY <1>12, ProcessDiesKeeps
<1> QED BY <1>1, <1>2, <1>3, <1>4, <1>5, <1>6, <1>7, <1>8, <1>9, <1>10, <1>11, <1>12 DEF Next

-----------------------------------------------------------------------------
(* The invariant holds throughout.                                         *)
LEMMA SessionInvariant == Spec => []SInv
  BY SessionStarts, SessionInductive, PTL DEF Spec

(* Every variable of a session keeps its type: no verdict of               *)
(* ConnectionPolicy, read however long ago, makes endSession publish a     *)
(* mode the service cannot be in.                                          *)
THEOREM SessionTypeCorrect == Spec => []TypeOK
<1>1. SInv => TypeOK
  BY PartsOfTypeOK DEF SInv
<1> QED BY <1>1, SessionInvariant, PTL

(* A disconnect the user makes with no walk under way, on a network the    *)
(* app knows it is on, holds back the app's own connects, connectAsync's   *)
(* and the watcher's decision to call it, for as long as it stands.        *)
(* Walks do not read the stand-down, and are not claimed.                  *)
THEOREM SessionUserStopStands == Spec => []UserStopStands
<1>1. SInv => UserStopStands
  BY DEF SInv, StopInv, UserStopStands, At
<1> QED BY <1>1, SessionInvariant, PTL

(* From the stop of its engine to the end of its session, a session being  *)
(* torn down has no engine again, however many connects, walks, pauses and *)
(* failures run beside the teardown.                                       *)
THEOREM SessionTornDownStartStays == Spec => []TornDownStartStays
<1>1. SInv => TornDownStartStays
  BY DEF SInv, IdInv, TearingDown, TornDownStartStays
<1> QED BY <1>1, SessionInvariant, PTL

=============================================================================
