------------------------------ MODULE VpnSession ------------------------------
(***************************************************************************)
(* A session as the app drives it: the networks the device moves between,  *)
(* AutoConnectWatcher, WindVpnController's connects and disconnects, the   *)
(* failover walk of AutoConnectionManager, VpnBackend's start and          *)
(* teardown, the service's endSession and SessionWorker's refresh, all     *)
(* deciding with ConnectionPolicy on state the others are changing.        *)
(*                                                                         *)
(* The application scope is a pool of threads and nothing serialises its   *)
(* coroutines: a connect, a teardown and a session end go on step by step  *)
(* beside each other, and a published state lands when its coroutine runs. *)
(*                                                                         *)
(* TunnelManager is reduced to what holds the TUN, PacketMux and the       *)
(* engines to whether one is up, and VpnServiceGate to whether a service   *)
(* is registered: each has a module of its own.  Every protocol is served  *)
(* by one backend object, as UDP, TCP, Stealth and WSTunnel are.  Networks *)
(* can be named, the system killswitch is off, the VPN permission is       *)
(* granted and the location is Windscribe's own.                           *)
(***************************************************************************)
EXTENDS ConnectionPolicy, Naturals, FiniteSets

CONSTANTS
  Networks,     \* names of the networks around the device
  Ids,          \* connection ids; one nothing mentions any more is used again
  None,         \* no network, no id
  Starts,       \* what the first process may find: preference, networks' rows, account here and at the server
  Surfaces,     \* where the user acts: the app, the notification
  MaxEmits,     \* bound on the states on their way at once
  MaxEvents     \* bound on what the user, the device, the server and the system do

ASSUME SessionAssumption ==
  /\ None \notin Networks \cup Ids
  /\ Starts \subseteq [wants : BOOLEAN, secured : [Networks -> BOOLEAN],
                     known : {"okay", "expired"}, server : {"okay", "expired"}]
  /\ Surfaces \subseteq {"app", "notification"} /\ MaxEmits \in Nat /\ MaxEvents \in Nat

VARIABLES
  net,        \* the network the device is on
  detail,     \* DeviceStateManager.networkDetail; isOnline is detail # None
  changing,   \* processNetworkChange has emitted and not yet cleared the facts
  secured,    \* the database: isAutoSecureOn of each network
  info,       \* NetworkInfoManager's row, a reload pending; the watcher: called, lastNetworkName, what it decided
  facts,      \* stood-down and opted-in: the names, and the published flags
  user,       \* preferences: autoConnect, globalUserConnectionPreference
  acct,       \* the account as the app and as the server know it
  vpn,        \* the published VPNState, serviceMode, the TUN and the service
  be,         \* the backend and its holder
  emits,      \* states handed to setState and not yet emitted
  request,    \* the sources of the connectInForeground calls that have not begun
  attempt,    \* the connects being prepared: attemptJob's (TRUE) and connectJob's (FALSE)
  launching,  \* VpnBackendHolder.connect, launched
  driver,     \* AutoConnectionManager: not walking, waiting for an attempt, or between two
  endings,    \* session ends and disconnects on their way
  events,     \* for the bound
  stopped     \* remembered for UserStopStands: the user's disconnect stands

netVars == <<net, detail, changing, secured>>
connectVars == <<request, attempt, launching, driver>>
vars == <<netVars, info, facts, user, acct, vpn, be, emits, connectVars, endings, events, stopped>>

NoRow == [name |-> None, on |-> FALSE]
NoAttempt == [pc |-> "none", src |-> "App", id |-> None, ended |-> FALSE]
NotDriving == [pc |-> "off", src |-> "App", id |-> None, first |-> FALSE]
Sources == {"User", "App", "Refresh"}

Places == Networks \cup {None}
IdOrNone == Ids \cup {None}
Infos ==
  [row : [name : Places, on : BOOLEAN], reload : BOOLEAN, watch : BOOLEAN, notice : BOOLEAN, last : Places,
   release : BOOLEAN, act : {"none", "idle", "connect", "disconnect"}]
Facts == [down : Places, unnamed : BOOLEAN, isDown : BOOLEAN, in : Places, isIn : BOOLEAN]
Vpns ==
  [status : Statuses, id : IdOrNone, err : {"none", "UserDisconnect", "Generic"}, mode : Modes \ {"Off"},
   tun : {"none", "engine", "handover", "block"}, service : {"none", "up", "stopping"}, sticky : BOOLEAN]
Backends ==
  [holder : BOOLEAN, active : BOOLEAN, id : IdOrNone, leaving : BOOLEAN, start : BOOLEAN,
   engine : {"off", "starting", "up"}, established : BOOLEAN, ended : BOOLEAN]
Emissions == [status : Statuses, id : IdOrNone, err : {"none", "UserDisconnect", "Generic"}, from : {"end", "connect", "backend"}]
Attempts ==
  [pc : {"none", "asked", "handed", "announced", "blocked", "building"}, src : Sources, id : IdOrNone, ended : BOOLEAN]
Drivers == [pc : {"off", "waiting", "next"}, src : Sources, id : IdOrNone, first : BOOLEAN]
Verdicts == [mode : Modes, blocks : BOOLEAN]
Errors == UserIntentEnds \cup {"SystemDisconnect", "Timeout", "Unknown", "Auth", "Broken", "Generic", "Engine", "none"}
Ends ==
  [kind : {"stop", "backend", "controller", "superseded", "service", "disconnect"}, end : SessionEnds \cup {"none"},
   verdict : Verdicts, err : Errors, of : IdOrNone, viaHolder : BOOLEAN]

TypeOK ==
  /\ net \in Places /\ detail \in Places /\ changing \in BOOLEAN /\ secured \in [Networks -> BOOLEAN]
  /\ info \in Infos /\ facts \in Facts
  /\ user \in [autoConnect : BOOLEAN, wants : BOOLEAN]
  /\ acct \in [known : {"okay", "expired"}, server : {"okay", "expired"}]
  /\ vpn \in Vpns /\ be \in Backends /\ emits \subseteq Emissions
  /\ request \subseteq Sources
  /\ attempt \in [BOOLEAN -> Attempts] /\ launching \subseteq [id : Ids, ended : BOOLEAN]
  /\ driver \in Drivers /\ endings \subseteq Ends
  /\ events \in 0..MaxEvents /\ stopped \in BOOLEAN

(* A connection id that nothing mentions.                                  *)
FreshIds ==
  Ids \ ({vpn.id, be.id, driver.id, attempt[TRUE].id, attempt[FALSE].id}
           \cup {l.id : l \in launching} \cup {e.id : e \in emits} \cup {e.of : e \in endings})

(***************************************************************************)
(* What the policy reads: ConnectionPolicyInputs.from and current.         *)
(***************************************************************************)
PolicyInput(autoSecure, f, u, a, v) ==
  [autoSecure |-> autoSecure, stoodDown |-> f.isDown, optedIn |-> f.isIn, autoConnect |-> u.autoConnect,
   boot |-> FALSE, wants |-> u.wants, account |-> a.known, status |-> v.status, mode |-> v.mode,
   canName |-> TRUE, online |-> detail # None, lockdown |-> FALSE, configured |-> FALSE]

AutoSecure(row) == CASE row.name = None -> "unknown" [] row.name # None /\ row.on -> "on" [] OTHER -> "off"

(* current(): the database's row for the published network name.           *)
DatabaseRow == IF detail = None THEN NoRow ELSE [name |-> detail, on |-> secured[detail]]
CurrentInput(f, u, a, v) == PolicyInput(AutoSecure(DatabaseRow), f, u, a, v)

(* VPNConnectionStateManager.isTunnelUp.                                   *)
isTunnelUp(v) == v.status # "Disconnected"

(***************************************************************************)
(* DeviceStateManager and NetworkInfoManager.                              *)
(***************************************************************************)

(* updateWhitelistedNetworkState and updateOptedInNetworkState.            *)
Published(f) ==
  [f EXCEPT !.isDown = f.unnamed \/ (detail # None /\ f.down = detail), !.isIn = detail # None /\ f.in = detail]

StandDown(f) == Published(IF detail = None THEN [f EXCEPT !.unnamed = TRUE] ELSE [f EXCEPT !.down = detail])
ClearStandDown(f) == Published([f EXCEPT !.down = None, !.unnamed = FALSE])
OptIn(f) == Published([f EXCEPT !.in = detail])

Event == events < MaxEvents /\ events' = events + 1

(* The device joins another network or loses the one it had.               *)
Move(n) ==
  /\ Event
  /\ n # net
  /\ net' = n
  /\ stopped' = FALSE
  /\ UNCHANGED <<detail, changing, info, secured, facts, user, acct, vpn, be, emits, connectVars, endings>>

(* processNetworkChange, 400 ms after the last callback: it publishes the  *)
(* network; coming back online also wakes the watcher directly.            *)
DeviceEmits ==
  /\ ~changing /\ detail # net
  /\ detail' = net
  /\ changing' = TRUE
  /\ info' = [info EXCEPT !.reload = TRUE, !.notice = detail # None /\ net # None,
                          !.watch = @ \/ (vpn.service # "none" /\ detail = None)]
  /\ UNCHANGED <<net, secured, facts, user, acct, vpn, be, emits, connectVars, endings, events, stopped>>

(* ... and then drops the two facts, which belong to the previous network. *)
DeviceClears ==
  /\ changing
  /\ changing' = FALSE
  /\ facts' = Published([facts EXCEPT !.down = None, !.unnamed = FALSE, !.in = None])
  /\ UNCHANGED <<net, detail, info, secured, user, acct, vpn, be, emits, connectVars, endings, events, stopped>>

(* NetworkInfoManager.reload: a changed row wakes the watcher.             *)
Reload ==
  /\ info.reload
  /\ info' = [info EXCEPT !.reload = FALSE, !.row = DatabaseRow,
                          !.watch = @ \/ (vpn.service # "none" /\ DatabaseRow # info.row)]
  /\ UNCHANGED <<net, detail, changing, secured, facts, user, acct, vpn, be, emits, connectVars, endings, events, stopped>>

(***************************************************************************)
(* WindscribeVpnService.                                                   *)
(***************************************************************************)

Released(tun) == IF tun = "engine" THEN tun ELSE "none"
Held(tun, hold) == IF tun = "none" THEN tun ELSE hold

(* setState: the state is emitted later, from a coroutine of its own; a    *)
(* state with the status and id already shown is dropped unless forced.    *)
(* One from the backend is stamped with the backend's id in yet another    *)
(* coroutine, so with the id of the call or of the moment.                 *)
Emission(status, id, err, from) == [status |-> status, id |-> id, err |-> err, from |-> from]
SetStates(states) == Cardinality(emits \cup states) <= MaxEmits /\ emits' = emits \cup states
Terminal == Emission("Disconnected", None, "none", "end")

Emit(e) ==
  /\ e \in emits
  /\ emits' = emits \ {e}
  /\ \E id \in IF e.from = "backend" THEN {e.id, be.id} ELSE {e.id} :
       LET shown == e.from = "end" \/ e.status # vpn.status \/ id # vpn.id
       IN /\ vpn' = IF shown THEN [vpn EXCEPT !.status = e.status, !.id = id, !.err = e.err] ELSE vpn
          /\ driver' = IF shown /\ e.status = "Connected" THEN NotDriving ELSE driver
  /\ UNCHANGED <<netVars, info, facts, user, acct, be, request, attempt, launching, endings, events, stopped>>

(* The decisions endSession makes from the inputs it is handed.            *)
Verdict(input, end) ==
  [mode |-> serviceModeAfterSession(input, end), blocks |-> shouldBlockOutsideVpn(input, end)]

(* A connect other than the one ending is shown.                           *)
anotherConnect(v, id) == isTunnelUp(v) /\ (id = None \/ v.id # id)

(* A faulty variant of EndSession: it publishes Off instead of stopping.   *)
EndSessionPublishingOff(v, verdict, id) ==
  IF v.service = "none" \/ anotherConnect(v, id) THEN v ELSE [v EXCEPT !.mode = verdict.mode]

(* endSession(end, input, id): what the service becomes ...                *)
EndSession(v, verdict, id) ==
  LET tun == IF verdict.blocks /\ v.tun = "none" THEN "block" ELSE v.tun
      mode == IF verdict.mode \in Failed THEN IF tun = "none" THEN "Failed" ELSE "FailedBlocking" ELSE verdict.mode
  IN CASE v.service = "none" -> v
       [] v.service # "none" /\ anotherConnect(v, id) -> [v EXCEPT !.tun = tun]
       [] v.service # "none" /\ ~anotherConnect(v, id) /\ mode = "Off" -> [v EXCEPT !.tun = tun, !.service = "stopping"]
       [] OTHER -> [v EXCEPT !.tun = tun, !.mode = mode]

(* ... and the state it publishes with its mode.                           *)
Settled(v, verdict, id) ==
  IF v.service # "none" /\ ~anotherConnect(v, id) /\ verdict.mode # "Off" THEN {Terminal} ELSE {}

(* A start command: a service is created, or the one leaving is revived.   *)
(* onStartCommand returns START_STICKY only while the user wants a tunnel. *)
Started(v, sticky) == [v EXCEPT !.service = "up", !.sticky = sticky]
WatchesFromCreation(v) == info.watch \/ v.service = "none"

(* onDestroy.  The TUN is closed and the manager's engine stopped.         *)
ServiceDestroyed ==
  /\ vpn.service = "stopping"
  /\ vpn' = [vpn EXCEPT !.service = "none", !.mode = "none", !.tun = "none", !.sticky = FALSE]
  /\ be' = [be EXCEPT !.engine = "off"]
  /\ info' = [info EXCEPT !.watch = FALSE]
  /\ UNCHANGED <<netVars, facts, user, acct, emits, connectVars, endings, events, stopped>>

(***************************************************************************)
(* Session ends.  A backend reads its inputs before it stops the engine    *)
(* and hands them to the service after; the controller and the service     *)
(* launch a coroutine that reads them when it runs.                        *)
(***************************************************************************)
NoVerdict == [mode |-> "none", blocks |-> FALSE]
BackendEnd(verdict, err, of, viaHolder) ==
  [kind |-> "stop", end |-> "none", verdict |-> verdict, err |-> err, of |-> of, viaHolder |-> viaHolder]
LaunchedEnd(kind, end) ==
  [kind |-> kind, end |-> end, verdict |-> NoVerdict, err |-> "none", of |-> None, viaHolder |-> FALSE]
LaunchedDisconnect(err) ==
  [kind |-> "disconnect", end |-> "none", verdict |-> NoVerdict, err |-> err, of |-> None, viaHolder |-> FALSE]

UNEXPLAINED == {"Auth", "Broken"}
CONNECT_FAILURES == {"Timeout", "Generic", "Engine"}
HANDOVER_ERRORS == {"Timeout", "Auth", "Broken"}

isHandover(err) == err \in HANDOVER_ERRORS /\ driver.pc # "off"

sessionEndFor(err, established) ==
  CASE err \in UserIntentEnds -> err
    [] err \in UNEXPLAINED /\ driver.pc = "off" -> IF established THEN "AwaitingSession" ELSE "ConnectFailed"
    [] err \in CONNECT_FAILURES /\ driver.pc = "off" /\ ~established -> "ConnectFailed"
    [] OTHER -> "SystemDisconnect"

(* updateState(Disconnected), under the backend's id of the moment.  Only  *)
(* two errors matter to who reads it: the user's, and one that is shown.   *)
Gone(err) ==
  Emission("Disconnected", be.id, IF err \in {"UserDisconnect", "Generic"} THEN err ELSE "none", "backend")

(* A faulty variant: the start on its way is left to itself.               *)
LeaveEngineStart(b) == [b EXCEPT !.leaving = TRUE]

(* disconnecting = true and cancelEngineStart, which waits for the start   *)
(* to be over; one past its last suspension point is turned away by        *)
(* runConnect's own check.                                                 *)
cancelEngineStart(b) == [b EXCEPT !.leaving = TRUE, !.start = FALSE]

(* A handover holds the TUN for the next engine.                           *)
HandedOver(v) == [v EXCEPT !.tun = Held(@, "handover")]
WithoutEngine(b, viaHolder) == [b EXCEPT !.engine = "off", !.active = FALSE, !.holder = @ /\ ~viaHolder]

(* VpnBackend.runDisconnect up to its inputs; a handover reads none and    *)
(* ends here.  The refresh it asks for when the error does not say why is  *)
(* one more run of SessionWorker, which also runs by itself.               *)
Teardown(err, f, u, a, v, others, viaHolder) ==
  LET end == sessionEndFor(err, be.established)
  IN /\ acct' = a
     /\ \/ /\ isHandover(err)
           /\ vpn' = HandedOver(v)
           /\ be' = WithoutEngine(cancelEngineStart(be), viaHolder)
           /\ SetStates({Gone(err)})
           /\ endings' = others
        \/ /\ ~isHandover(err)
           /\ vpn' = v
           /\ be' = cancelEngineStart(be)
           /\ endings' = others \cup {BackendEnd(Verdict(CurrentInput(f, u, a, v), end), err, be.id, viaHolder)}
           /\ UNCHANGED emits

(* ... tunnelManager.disconnect: the engine that is attached by now stops, *)
(* and the TUN is held or closed as was decided ...                        *)
BackendStops(e) ==
  /\ e \in endings /\ e.kind = "stop"
  /\ vpn' = [vpn EXCEPT !.tun = IF e.verdict.blocks THEN Held(@, "block") ELSE "none"]
  /\ be' = [be EXCEPT !.engine = "off"]
  /\ endings' = (endings \ {e}) \cup {[e EXCEPT !.kind = "backend"]}
  /\ UNCHANGED <<netVars, info, facts, user, acct, emits, connectVars, events, stopped>>

(* ... and the end reaches the service, with the id the backend has by     *)
(* now, then the terminal state; deactivate(); and, in a disconnect of the *)
(* holder's, activeBackend = null.  turnOff() goes on to its own           *)
(* endSession.                                                             *)
BackendEnds(e) ==
  /\ e \in endings /\ e.kind = "backend"
  /\ vpn' = EndSession(vpn, e.verdict, be.id)
  /\ SetStates(Settled(vpn, e.verdict, be.id) \cup {Gone(e.err)})
  /\ be' = [be EXCEPT !.active = FALSE, !.holder = @ /\ ~e.viaHolder]
  /\ endings' = (endings \ {e}) \cup IF e.err = "UserTurnOff" THEN {LaunchedEnd("controller", "UserTurnOff")} ELSE {}
  /\ UNCHANGED <<netVars, info, facts, user, acct, connectVars, events, stopped>>

(* disconnect() with no backend, while something is shown: it publishes    *)
(* the terminal state and tells the service.                               *)
DisconnectWithoutBackend(err, a, v, others) ==
  /\ vpn' = v /\ acct' = a
  /\ SetStates(IF isTunnelUp(v) THEN {Terminal} ELSE {})
  /\ endings' = others \cup IF isTunnelUp(v)
                            THEN {LaunchedEnd("service", IF err \in UserIntentEnds THEN err ELSE "ConnectFailed")} ELSE {}
  /\ UNCHANGED be

(* connectJob?.cancel(): a connectAsync not yet launched goes.  The walk's *)
(* connect is not one; ended remembers that the user has disconnected it.  *)
CancelJob(err) ==
  attempt' = [attempt EXCEPT ![FALSE] = NoAttempt, ![TRUE].ended = @ \/ (attempt[TRUE].pc # "none" /\ err = "UserDisconnect")]

(* WindVpnController.disconnect; others are the ends already on their way. *)
DisconnectBeside(others, err, f, u, a, v) ==
  /\ CancelJob(err)
  /\ IF be.holder THEN Teardown(err, f, u, a, v, others, TRUE) ELSE DisconnectWithoutBackend(err, a, v, others)
  /\ UNCHANGED <<request, launching, driver>>

Disconnect(err, f, u, a, v) == DisconnectBeside(endings, err, f, u, a, v)

(* WindVpnController.endSession: keep or release a held TUN, tell the      *)
(* service.  A walk that a newer one cancelled ends this way, as the       *)
(* user's disconnect, and stops the driver it shares with the newer one;   *)
(* past its first protocol it only stops the driver.                       *)
ControllerEnds(e) ==
  /\ e \in endings /\ e.kind \in {"controller", "superseded"}
  /\ LET input == CurrentInput(facts, user, acct, vpn)
         verdict == Verdict(input, e.end)
         tun == CASE ~verdict.blocks -> Released(vpn.tun)
                  [] verdict.blocks /\ vpn.tun = "handover" -> "block"
                  [] OTHER -> vpn.tun
     IN IF e.end = "none"
        THEN UNCHANGED <<vpn, emits>>
        ELSE /\ vpn' = EndSession([vpn EXCEPT !.tun = tun], verdict, None)
             /\ SetStates(Settled(vpn, verdict, None))
  /\ endings' = endings \ {e}
  /\ driver' = IF e.kind = "superseded" THEN NotDriving ELSE driver
  /\ UNCHANGED <<netVars, info, facts, user, acct, be, request, attempt, launching, events, stopped>>

(* WindscribeVpnService.endSession(end), for callers with no inputs.       *)
ServiceEnds(e) ==
  /\ e \in endings /\ e.kind = "service"
  /\ LET verdict == Verdict(CurrentInput(facts, user, acct, vpn), e.end)
     IN /\ vpn' = EndSession(vpn, verdict, None)
        /\ SetStates(Settled(vpn, verdict, None))
  /\ endings' = endings \ {e}
  /\ UNCHANGED <<netVars, info, facts, user, acct, be, connectVars, events, stopped>>

(* The disconnect launched by pause(), or by onEngineStopped, which names  *)
(* no session, runs.                                                       *)
DisconnectRuns(e) ==
  /\ e \in endings /\ e.kind = "disconnect"
  /\ DisconnectBeside(endings \ {e}, e.err, facts, user, acct, vpn)
  /\ UNCHANGED <<netVars, info, facts, user, events, stopped>>

(* TunnelManager.onHoldExpired, with the host's blockingApplies(): the TUN *)
(* is kept or closed, and onEngineStopped disconnects what session there   *)
(* is by then.                                                             *)
HoldExpires ==
  /\ Event
  /\ vpn.tun = "handover"
  /\ LET blocks == blockingApplies(PolicyInput("unknown", facts, user, acct, vpn))
     IN vpn' = [vpn EXCEPT !.tun = IF blocks THEN "block" ELSE "none"]
  /\ endings' = endings \cup {LaunchedDisconnect("Engine")}
  /\ UNCHANGED <<netVars, info, facts, user, acct, be, emits, connectVars, stopped>>

(* TunnelManager.onMuxFailure: a pump under a live session has given up.   *)
PumpsFail ==
  /\ Event
  /\ be.engine = "up"
  /\ endings' = endings \cup {LaunchedDisconnect("Broken")}
  /\ UNCHANGED <<netVars, info, facts, user, acct, vpn, be, emits, connectVars, stopped>>

(***************************************************************************)
(* Connects.                                                               *)
(***************************************************************************)
At(w, pc) == attempt[w].pc = pc
Becomes(w, pc) == attempt' = [attempt EXCEPT ![w].pc = pc]
Asked(src, id) == [pc |-> "asked", src |-> src, id |-> id, ended |-> FALSE]

(* connectAsync(App): it cancels the one before it.                        *)
ConnectAsync == \E id \in FreshIds : attempt' = [attempt EXCEPT ![FALSE] = Asked("App", id)]

(* connectInForeground: an App walk that finds something shown is ignored, *)
(* one that finds no network ends the session, and the others start a      *)
(* walk.  A walk still waiting for its attempt is cancelled, which it      *)
(* takes for the user's disconnect once it runs again.                     *)
BeginIgnored ==
  /\ "App" \in request /\ isTunnelUp(vpn)
  /\ request' = request \ {"App"}
  /\ UNCHANGED <<netVars, info, facts, user, acct, vpn, be, emits, attempt, launching, driver, endings, events, stopped>>

BeginOffline(src) ==
  /\ src \in request /\ net = None
  /\ src = "App" => ~isTunnelUp(vpn)
  /\ request' = request \ {src}
  /\ driver' = NotDriving
  /\ endings' = endings \cup {LaunchedEnd("controller", "NoNetwork")}
  /\ UNCHANGED <<netVars, info, facts, user, acct, vpn, be, emits, attempt, launching, events, stopped>>

Begin(src) ==
  /\ src \in request /\ net # None
  /\ src = "App" => ~isTunnelUp(vpn)
  /\ request' = request \ {src}
  /\ \E id \in FreshIds :
       /\ attempt' = [attempt EXCEPT ![TRUE] = Asked(src, id)]
       /\ driver' = [pc |-> "waiting", src |-> src, id |-> id, first |-> TRUE]
  /\ endings' = endings \cup
       CASE driver.pc = "waiting" /\ ~driver.first -> {LaunchedEnd("superseded", "none")}
         [] (driver.pc = "waiting" /\ driver.first) \/ (driver.pc # "waiting" /\ ~At(TRUE, "none")) ->
              {LaunchedEnd("superseded", "UserDisconnect")}
         [] OTHER -> {}
  /\ UNCHANGED <<netVars, info, facts, user, acct, vpn, be, emits, launching, events, stopped>>

(* WindVpnController.connect.  A live backend is first torn down as a      *)
(* handover ...                                                            *)
Hand(w) ==
  /\ At(w, "asked") /\ be.holder /\ be.active
  /\ attempt' = [attempt EXCEPT ![FALSE] = IF w THEN NoAttempt ELSE @, ![w].pc = "handed"]
  /\ vpn' = HandedOver(vpn)
  /\ be' = WithoutEngine(cancelEngineStart(be), TRUE)
  /\ SetStates(IF isTunnelUp(vpn) THEN {Terminal} ELSE {})
  /\ UNCHANGED <<netVars, info, facts, user, acct, request, launching, driver, endings, events, stopped>>

(* ... the state is Connecting, once it is emitted ...                     *)
Announce(w) ==
  /\ At(w, "handed") \/ (At(w, "asked") /\ ~(be.holder /\ be.active))
  /\ Becomes(w, "announced")
  /\ vpn' = [vpn EXCEPT !.mode = "none"]
  /\ SetStates({Emission("Connecting", attempt[w].id, "none", "connect")})
  /\ UNCHANGED <<netVars, info, facts, user, acct, be, request, launching, driver, endings, events, stopped>>

(* ... blockBeforeBuildingProfile, with the service it finds or starts ... *)
Block(w) ==
  /\ At(w, "announced")
  /\ Becomes(w, "blocked")
  /\ LET blocks == vpn.tun = "none" /\ blockingApplies(CurrentInput(facts, user, acct, vpn))
         served == IF vpn.service = "none" THEN Started(vpn, user.wants) ELSE vpn
     IN /\ vpn' = IF blocks THEN [served EXCEPT !.tun = "block"] ELSE vpn
        /\ info' = IF blocks THEN [info EXCEPT !.watch = WatchesFromCreation(vpn)] ELSE info
  /\ UNCHANGED <<netVars, facts, user, acct, be, emits, request, launching, driver, endings, events, stopped>>

(* ... the location is fetched, and a user's connect settles the facts ... *)
Settle(w) ==
  /\ At(w, "blocked")
  /\ Becomes(w, "building")
  /\ facts' = IF attempt[w].src = "User" THEN OptIn(ClearStandDown(facts)) ELSE facts
  /\ UNCHANGED <<netVars, info, user, acct, vpn, be, emits, request, launching, driver, endings, events, stopped>>

(* ... and the profile goes to the holder.                                 *)
Launch(w) ==
  /\ At(w, "building")
  /\ attempt' = [attempt EXCEPT ![w] = NoAttempt]
  /\ launching' = launching \cup {[id |-> attempt[w].id, ended |-> attempt[w].ended]}
  /\ UNCHANGED <<netVars, info, facts, user, acct, vpn, be, emits, request, driver, endings, events, stopped>>

(* The location or the profile cannot be had.  The state this publishes    *)
(* does not carry the attempt's id, so a walk goes on waiting for it.      *)
BuildFails(w, err) ==
  /\ Event
  /\ At(w, "building") \/ (At(w, "blocked") /\ err = "Unknown")
  /\ attempt' = [attempt EXCEPT ![FALSE] = NoAttempt, ![w] = NoAttempt]
  /\ IF be.holder
     THEN Teardown(err, facts, user, acct, vpn, endings, TRUE) ELSE DisconnectWithoutBackend(err, acct, vpn, endings)
  /\ UNCHANGED <<netVars, info, facts, user, request, launching, driver, stopped>>

(* VpnBackendHolder.connect: activate(), then connect(), whose start       *)
(* replaces one still on its way.                                          *)
HolderConnects(l) ==
  /\ l \in launching
  /\ launching' = launching \ {l}
  /\ be' = [be EXCEPT !.holder = TRUE, !.active = TRUE, !.id = l.id, !.start = TRUE, !.ended = l.ended]
  /\ UNCHANGED <<netVars, info, facts, user, acct, vpn, emits, request, attempt, driver, endings, events, stopped>>

(* runConnect down to the engine, whose first report is Connecting.        *)
EngineStarts ==
  /\ be.start
  /\ be' = [be EXCEPT !.start = FALSE, !.leaving = FALSE, !.established = FALSE, !.engine = "starting"]
  /\ vpn' = [Started(vpn, IF vpn.service = "up" THEN vpn.sticky ELSE user.wants) EXCEPT !.tun = "engine", !.mode = "none"]
  /\ SetStates({Emission("Connecting", be.id, "none", "backend")})
  /\ info' = [info EXCEPT !.watch = WatchesFromCreation(vpn)]
  /\ UNCHANGED <<netVars, facts, user, acct, connectVars, endings, events, stopped>>

(* The engine is up and connectivityTestPassed.                            *)
Succeed ==
  /\ be.engine = "starting" /\ be.active /\ ~be.leaving /\ vpn.status # "Connected"
  /\ be' = [be EXCEPT !.engine = "up", !.established = TRUE]
  /\ vpn' = [vpn EXCEPT !.mode = "none"]
  /\ SetStates({Emission("Connected", be.id, "none", "backend")})
  /\ UNCHANGED <<netVars, info, facts, user, acct, connectVars, endings, events, stopped>>

(* The attempt times out, is refused, or cannot start its engine.          *)
Fail(err) ==
  /\ Event
  /\ be.start \/ (be.engine = "starting" /\ ~be.leaving)
  /\ Teardown(err, facts, user, acct, vpn, endings, FALSE)
  /\ UNCHANGED <<netVars, info, facts, user, connectVars, stopped>>

(* A live session is refused by the server or stops carrying traffic.      *)
Drop(err) ==
  /\ Event
  /\ be.engine = "up" /\ ~be.leaving
  /\ Teardown(err, facts, user, acct, vpn, endings, FALSE)
  /\ UNCHANGED <<netVars, info, facts, user, connectVars, stopped>>

(* The walk, waiting for its attempt, finds it disconnected: it is over if *)
(* the error is the user's or is shown, and the first protocol's end also  *)
(* ends the session.                                                       *)
WalkHears ==
  /\ driver.pc = "waiting" /\ At(TRUE, "none")
  /\ vpn.id = driver.id /\ vpn.status = "Disconnected"
  /\ LET over == vpn.err # "none"
         end == IF vpn.err = "Generic" THEN "SystemDisconnect" ELSE "UserDisconnect"
     IN /\ driver' = IF over THEN NotDriving ELSE [driver EXCEPT !.pc = "next"]
        /\ endings' = endings \cup IF over /\ driver.first THEN {LaunchedEnd("controller", end)} ELSE {}
  /\ UNCHANGED <<netVars, info, facts, user, acct, vpn, be, emits, request, attempt, launching, events, stopped>>

(* The walk tries another node, which is still its first attempt, or goes  *)
(* on to the next protocol.                                                *)
NextProtocol ==
  /\ driver.pc = "next" /\ net # None
  /\ \E id \in FreshIds, first \in {FALSE, driver.first} :
       /\ attempt' = [attempt EXCEPT ![TRUE] = Asked(driver.src, id)]
       /\ driver' = [driver EXCEPT !.pc = "waiting", !.id = id, !.first = first]
  /\ UNCHANGED <<netVars, info, facts, user, acct, vpn, be, emits, request, launching, endings, events, stopped>>

(* It has no protocol left, no network, or its dialog was cancelled.       *)
GiveUp(end) ==
  /\ driver.pc = "next"
  /\ end = "NoNetwork" => net = None
  /\ driver' = NotDriving
  /\ endings' = endings \cup {LaunchedEnd("controller", end)}
  /\ UNCHANGED <<netVars, info, facts, user, acct, vpn, be, emits, request, attempt, launching, events, stopped>>

(***************************************************************************)
(* AutoConnectWatcher, and the two places that act on the policy as it     *)
(* does: the network screen of the app and the controller's reconcile.     *)
(***************************************************************************)

(* onNetworkChanged: what it reads and decides, the check on the tunnel    *)
(* included ...                                                            *)
WatchEvaluates ==
  /\ info.watch /\ vpn.service # "none" /\ info.act = "none"
  /\ LET row == info.row
         isNew == row.name \notin {None, info.last}
         stale == (row.name # None /\ vpn.mode = "NoNetwork") \/ (isNew /\ vpn.mode \in Failed)
         cleared == [vpn EXCEPT !.mode = IF stale THEN "none" ELSE @]
         input == PolicyInput(AutoSecure(row), facts, user, acct, cleared)
         release == ~blockingApplies(input) /\ ~isTunnelUp(vpn)
         act == CASE shouldAutoConnect(input) -> "connect"
                  [] ~shouldAutoConnect(input) /\ shouldAutoDisconnect(input) -> "disconnect"
                  [] OTHER -> IF release THEN "idle" ELSE "none"
     IN /\ vpn' = cleared
        /\ info' = [info EXCEPT !.watch = FALSE, !.last = IF isNew THEN row.name ELSE @,
                                !.release = release, !.act = act]
  /\ UNCHANGED <<netVars, facts, user, acct, be, emits, connectVars, endings, events, stopped>>

(* ... and what it does about it, on a thread of a pool: it releases the   *)
(* TUN, unless an engine has it, and connects or disconnects.              *)
WatchActs ==
  /\ info.act # "none"
  /\ info' = [info EXCEPT !.release = FALSE, !.act = "none"]
  /\ LET v == IF info.release THEN [vpn EXCEPT !.tun = Released(@)] ELSE vpn
     IN \/ /\ info.act = "connect"
           /\ ConnectAsync
           /\ vpn' = v
           /\ UNCHANGED <<acct, be, emits, request, launching, driver, endings>>
        \/ /\ info.act = "disconnect"
           /\ Disconnect("SystemDisconnect", facts, user, acct, v)
        \/ /\ info.act = "idle"
           /\ vpn' = v
           /\ UNCHANGED <<acct, be, emits, connectVars, endings>>
  /\ UNCHANGED <<netVars, facts, user, events, stopped>>

(* WindVpnController.reconcile, with preferences, facts and mode as they   *)
(* are by then; StartWatching is a start command with ACTION_WATCH.        *)
Reconcile(f, u, a, v) ==
  LET effect == reconcile(CurrentInput(f, u, a, v))
  IN /\ vpn' = IF effect = "StartWatching" THEN Started(v, FALSE) ELSE v
     /\ info' = IF effect = "StartWatching" THEN [info EXCEPT !.watch = WatchesFromCreation(v)] ELSE info
     /\ IF effect = "Connect" THEN ConnectAsync ELSE UNCHANGED attempt
     /\ endings' = CASE effect = "StartWatching" -> endings \cup {LaunchedEnd("service", "SystemDisconnect")}
                     [] effect = "StopService" -> endings \cup {LaunchedEnd("controller", "UserTurnOff")}
                     [] OTHER -> endings

(* The app notices a change to a network that should be secured and starts *)
(* the service to watch it.                                                *)
AppNotices ==
  /\ info.notice
  /\ LET secure == shouldAutoConnect(CurrentInput(facts, user, acct, vpn))
     IN /\ vpn' = IF secure THEN Started(vpn, FALSE) ELSE vpn
        /\ info' = [info EXCEPT !.notice = FALSE, !.watch = @ \/ (secure /\ vpn.service = "none")]
        /\ endings' = IF secure THEN endings \cup {LaunchedEnd("service", "SystemDisconnect")} ELSE endings
  /\ UNCHANGED <<netVars, facts, user, acct, be, emits, connectVars, events, stopped>>

(* The Auto-Secure switch of the current network, in the app.              *)
ToggleAutoSecure ==
  /\ Event
  /\ "app" \in Surfaces
  /\ detail # None /\ info.row.name = detail
  /\ secured' = [secured EXCEPT ![detail] = ~@]
  /\ info' = [info EXCEPT !.reload = TRUE]
  /\ LET input == PolicyInput(AutoSecure([name |-> detail, on |-> ~secured[detail]]), facts, user, acct, vpn)
     IN \/ /\ shouldAutoConnect(input)
           /\ ConnectAsync
           /\ UNCHANGED <<vpn, acct, be, emits, request, launching, driver, endings>>
        \/ /\ ~shouldAutoConnect(input) /\ shouldAutoDisconnect(input)
           /\ Disconnect("SystemDisconnect", facts, user, acct, vpn)
        \/ /\ ~shouldAutoConnect(input) /\ ~shouldAutoDisconnect(input)
           /\ UNCHANGED <<vpn, acct, be, emits, connectVars, endings>>
  /\ UNCHANGED <<net, detail, changing, facts, user, stopped>>

(***************************************************************************)
(* The user.  The app's controls call the controller; the notification's   *)
(* are start commands, which also decide whether the service is sticky.    *)
(***************************************************************************)
Reachable(via) == via = "notification" => vpn.service # "none"

(* A walk.  From the notification, ShortcutStateManager records what the   *)
(* user wants at once, or after it has loaded; onStartCommand reads it     *)
(* either way.                                                             *)
PressConnect(via) ==
  /\ Event
  /\ Reachable(via)
  /\ vpn.status = "Disconnected" /\ acct.known = "okay"
  /\ vpn.mode \notin {"AwaitingSession", "AccountBlocked"}
  /\ via = "app" => vpn.mode # "FailedBlocking"
  /\ user' = [user EXCEPT !.wants = TRUE]
  /\ \E sticky \in {user.wants, TRUE} :
       vpn' = IF via = "notification" THEN [Started(vpn, sticky) EXCEPT !.mode = "none"] ELSE vpn
  /\ request' = request \cup {"User"}
  /\ stopped' = FALSE
  /\ UNCHANGED <<netVars, info, facts, acct, be, emits, attempt, launching, driver, endings>>

(* disconnectAsync(USER_DISCONNECT): the network is stood down.            *)
PressDisconnect(via) ==
  /\ Event
  /\ Reachable(via)
  /\ isTunnelUp(vpn) /\ (via = "notification" => vpn.tun # "none")
  /\ LET u == [user EXCEPT !.wants = FALSE]
         f == StandDown(facts)
     IN /\ user' = u
        /\ facts' = f
        /\ Disconnect("UserDisconnect", f, u, acct, IF via = "notification" THEN Started(vpn, FALSE) ELSE vpn)
  /\ stopped' = (detail = net /\ ~changing /\ request = {} /\ At(TRUE, "none") /\ driver.pc = "off" /\ info.act # "connect")
  /\ UNCHANGED <<netVars, info>>

(* ACTION_DISCONNECT with no TUN yet: a session end only.                  *)
DismissAttempt ==
  /\ Event
  /\ "notification" \in Surfaces
  /\ isTunnelUp(vpn) /\ vpn.service # "none" /\ vpn.tun = "none"
  /\ vpn' = Started(vpn, FALSE)
  /\ endings' = endings \cup {LaunchedEnd("service", "UserTurnOff")}
  /\ UNCHANGED <<netVars, info, facts, user, acct, be, emits, connectVars, stopped>>

Pause ==
  /\ Event
  /\ "notification" \in Surfaces
  /\ vpn.status = "Connected" /\ vpn.service # "none"
  /\ vpn' = [Started(vpn, FALSE) EXCEPT !.mode = "Paused"]
  /\ endings' = endings \cup {LaunchedDisconnect("UserPause")}
  /\ UNCHANGED <<netVars, info, facts, user, acct, be, emits, connectVars, stopped>>

(* turnOff(): a disconnect, and the controller's endSession after it.      *)
TurnOff(via) ==
  /\ Event
  /\ Reachable(via)
  /\ ~isTunnelUp(vpn) /\ (via = "app" => vpn.mode \in {"AwaitingSession", "AccountBlocked", "FailedBlocking"})
  /\ LET u == [user EXCEPT !.wants = FALSE]
         after == IF be.holder THEN {} ELSE {LaunchedEnd("controller", "UserTurnOff")}
     IN /\ user' = u
        /\ DisconnectBeside(endings \cup after, "UserTurnOff", facts, u, acct,
                            IF via = "notification" THEN Started(vpn, FALSE) ELSE vpn)
  /\ UNCHANGED <<netVars, info, facts, stopped>>

(* onAutoConnectChanged.                                                   *)
ToggleAutoConnect ==
  /\ Event
  /\ "app" \in Surfaces
  /\ LET u == [user EXCEPT !.autoConnect = ~@]
         f == IF u.autoConnect THEN ClearStandDown(facts) ELSE facts
     IN /\ user' = u
        /\ facts' = f
        /\ Reconcile(f, u, acct, vpn)
        /\ stopped' = (stopped /\ ~u.autoConnect)
  /\ UNCHANGED <<netVars, acct, be, emits, request, launching, driver>>

(***************************************************************************)
(* The account: the server changes it, SessionWorker finds out.            *)
(***************************************************************************)
AccountChanges ==
  /\ Event
  /\ acct' = [acct EXCEPT !.server = IF @ = "okay" THEN "expired" ELSE "okay"]
  /\ UNCHANGED <<netVars, info, facts, user, vpn, be, emits, connectVars, endings, stopped>>

Learned == [acct EXCEPT !.known = acct.server]

(* handleAccountStatusChange for an account that cannot connect.           *)
RefreshFindsExpired ==
  /\ net # None /\ acct.server = "expired"
  /\ \/ /\ vpn.status = "Connected"
        /\ Disconnect("SystemDisconnect", facts, user, Learned, vpn)
     \/ /\ vpn.status = "Connecting"
        /\ acct' = Learned
        /\ UNCHANGED <<vpn, be, emits, connectVars, endings>>
     \/ /\ vpn.status = "Disconnected"
        /\ acct' = Learned
        /\ endings' = endings \cup {LaunchedEnd("controller", "SystemDisconnect")}
        /\ UNCHANGED <<vpn, be, emits, connectVars>>
  /\ UNCHANGED <<netVars, info, facts, user, events, stopped>>

(* Refreshes are hours apart, or follow a drop: the walk that one asked    *)
(* for has announced itself, in milliseconds, before the next.             *)
BeingReconnected ==
  "Refresh" \in request \/ (attempt[TRUE].src = "Refresh" /\ attempt[TRUE].pc \in {"asked", "handed"})

(* Faulty variants: the mode outlives the account's recovery, and only a   *)
(* location that moved reconnects.                                         *)
RefreshKeepsBlock ==
  /\ net # None /\ acct.server = "okay" /\ vpn.mode = "AccountBlocked"
  /\ acct' = Learned
  /\ UNCHANGED <<netVars, info, facts, user, vpn, be, emits, connectVars, endings, events, stopped>>

RefreshReconnectsIfMoved(moved) ==
  /\ net # None /\ acct.server = "okay" /\ vpn.mode # "AccountBlocked"
  /\ ~BeingReconnected
  /\ acct' = Learned
  /\ request' = IF user.wants /\ moved THEN request \cup {"Refresh"} ELSE request
  /\ IF moved THEN Event ELSE UNCHANGED events
  /\ UNCHANGED <<netVars, info, facts, user, vpn, be, emits, attempt, launching, driver, endings, stopped>>

(* onAccountRecovered: a block lifts, and the session it took comes back.  *)
RefreshLiftsBlock ==
  /\ net # None /\ acct.server = "okay" /\ vpn.mode = "AccountBlocked"
  /\ acct' = Learned
  /\ LET v == [vpn EXCEPT !.mode = "none"]
     IN IF user.wants
        THEN vpn' = v /\ request' = request \cup {"Refresh"} /\ UNCHANGED <<info, attempt, endings>>
        ELSE Reconcile(facts, user, Learned, v) /\ UNCHANGED request
  /\ UNCHANGED <<netVars, facts, user, be, emits, launching, driver, events, stopped>>

(* ReconnectAfterRefresh: the location moved, or a dropped session waits.  *)
RefreshReconnects(moved) ==
  /\ net # None /\ acct.server = "okay" /\ vpn.mode # "AccountBlocked"
  /\ ~BeingReconnected
  /\ acct' = Learned
  /\ LET awaiting == vpn.mode = "AwaitingSession"
         again == (user.wants \/ awaiting) /\ (moved \/ awaiting)
     IN request' = IF again THEN request \cup {"Refresh"} ELSE request
  /\ IF moved THEN Event ELSE UNCHANGED events
  /\ UNCHANGED <<netVars, info, facts, user, vpn, be, emits, attempt, launching, driver, endings, stopped>>

(***************************************************************************)
(* The process starts: Application.onCreate starts the service to watch if *)
(* the policy does, and the system starts it again if it was sticky, with  *)
(* a null intent that ShortcutStateManager turns into a connect for an     *)
(* account that can.                                                       *)
(***************************************************************************)
NewSession(watches) ==
  [status |-> "Disconnected", id |-> None, err |-> "none", mode |-> "none", tun |-> "none",
   service |-> IF watches THEN "up" ELSE "none", sticky |-> FALSE]
NewBackend ==
  [holder |-> FALSE, active |-> FALSE, id |-> None, leaving |-> FALSE, start |-> FALSE, engine |-> "off",
   established |-> FALSE, ended |-> FALSE]
NewInfo(watches) ==
  [row |-> NoRow, reload |-> TRUE, watch |-> watches, notice |-> FALSE, last |-> None, release |-> FALSE, act |-> "none"]
NoFacts == [down |-> None, unnamed |-> FALSE, isDown |-> FALSE, in |-> None, isIn |-> FALSE]
StartingEnds(watches) == IF watches THEN {LaunchedEnd("service", "SystemDisconnect")} ELSE {}

Init ==
  /\ net \in Networks /\ detail = net /\ changing = FALSE
  /\ facts = NoFacts
  /\ \E on \in BOOLEAN, start \in Starts :
       /\ secured = start.secured
       /\ user = [autoConnect |-> on, wants |-> start.wants]
       /\ acct = [known |-> start.known, server |-> start.server]
  /\ vpn = NewSession(user.autoConnect) /\ be = NewBackend /\ emits = {}
  /\ info = NewInfo(user.autoConnect)
  /\ request = {} /\ attempt = [w \in BOOLEAN |-> NoAttempt] /\ launching = {} /\ driver = NotDriving
  /\ endings = StartingEnds(user.autoConnect)
  /\ events = 0
  /\ stopped = FALSE

(* The system kills the process; it is started again, with the service if  *)
(* that was sticky, and otherwise when the app is next opened.  Whether    *)
(* the cached account has been read by the time the app decides to watch   *)
(* is a race; ShortcutStateManager.loadNow reads it before it connects.    *)
ProcessDies ==
  /\ Event
  /\ \E read \in BOOLEAN :
       LET restarts == vpn.service = "up" /\ vpn.sticky
           connects == restarts /\ acct.known = "okay"
           watches == user.autoConnect /\ (read => acct.known = "okay")
       IN /\ vpn' = NewSession(restarts \/ watches)
          /\ request' = IF connects THEN {"App"} ELSE {}
          /\ user' = [user EXCEPT !.wants = @ \/ connects]
          /\ info' = NewInfo(restarts \/ watches)
          /\ endings' = StartingEnds(watches)
  /\ be' = NewBackend /\ emits' = {}
  /\ attempt' = [w \in BOOLEAN |-> NoAttempt] /\ launching' = {} /\ driver' = NotDriving
  /\ detail' = net /\ changing' = FALSE
  /\ facts' = NoFacts
  /\ stopped' = FALSE
  /\ UNCHANGED <<net, secured, acct>>

DeviceSteps == DeviceEmits \/ DeviceClears \/ Reload \/ WatchEvaluates \/ WatchActs \/ AppNotices
EmitSteps == \E e \in emits : Emit(e)
EndSteps == \E e \in endings : BackendStops(e) \/ BackendEnds(e) \/ ControllerEnds(e) \/ ServiceEnds(e) \/ DisconnectRuns(e)
BeginSteps == BeginIgnored \/ \E src \in Sources : BeginOffline(src) \/ Begin(src)
PrepareSteps == \E w \in BOOLEAN : Hand(w) \/ Announce(w) \/ Block(w) \/ Settle(w) \/ Launch(w)
StartSteps == EngineStarts \/ \E l \in launching : HolderConnects(l)
ConnectSteps == BeginSteps \/ PrepareSteps \/ StartSteps
WalkSteps == WalkHears \/ NextProtocol
Outcomes ==
  \/ Succeed
  \/ \E w \in BOOLEAN, err \in {"Timeout", "Unknown"} : BuildFails(w, err)
  \/ \E err \in {"Timeout", "Auth", "Generic"} : Fail(err)
  \/ Drop("Broken")
  \/ \E end \in {"ConnectFailed", "NoNetwork", "UserDisconnect"} : GiveUp(end)
  \/ HoldExpires \/ PumpsFail
UserSteps ==
  \/ \E via \in Surfaces : PressConnect(via) \/ PressDisconnect(via) \/ TurnOff(via)
  \/ DismissAttempt \/ Pause \/ ToggleAutoConnect \/ ToggleAutoSecure
RefreshSteps == RefreshFindsExpired \/ RefreshLiftsBlock \/ RefreshReconnects(FALSE)

Next ==
  \/ DeviceSteps \/ EmitSteps \/ EndSteps \/ ServiceDestroyed
  \/ ConnectSteps \/ WalkSteps \/ Outcomes
  \/ UserSteps \/ RefreshSteps
  \/ RefreshReconnects(TRUE)
  \/ AccountChanges
  \/ ProcessDies
  \/ \E n \in Networks \cup {None} : Move(n)

(* Coroutines get a thread: states are emitted, ends arrive and connects   *)
(* go on.  SessionWorker runs periodically while there is a network (it is *)
(* also asked to by a drop).  Users, servers, engines, the system and the  *)
(* device owe nothing.                                                     *)
Spec ==
  /\ Init /\ [][Next]_vars
  /\ WF_vars(EmitSteps) /\ WF_vars(EndSteps) /\ WF_vars(ConnectSteps) /\ WF_vars(RefreshSteps)

(* Once the user has disconnected, on a network the app knows it is on and *)
(* with no walk under way, the app decides on no connect of its own there: *)
(* neither the watcher nor the app's screens nor a reconcile, until the    *)
(* user connects or turns Auto-Connect on, the device moves, or the        *)
(* process dies.  Walks, the user's and a refresh's, go through            *)
(* connectInForeground, which does not read the stand-down: see            *)
(* DisconnectedAttemptStays.                                               *)
UserStopStands == stopped => info.act # "connect" /\ At(FALSE, "none")

(* "A connect still on its way to attaching would otherwise undo this      *)
(* teardown": from the moment a teardown has stopped the engine until it   *)
(* has ended the session, whatever starts, walks, pauses and drops run     *)
(* beside it, the session it tears down has no engine again.               *)
TornDownStartStays == \A e \in endings : e.kind = "backend" /\ e.of = be.id => be.engine = "off"

(* A dropped session does not wait for its verdict for ever.               *)
AwaitingSessionEnds ==
  (vpn.mode = "AwaitingSession" /\ net # None) ~> (vpn.mode # "AwaitingSession" \/ net = None)

(* An account that recovers gets out of AccountBlocked, "the only mode     *)
(* nothing else clears".                                                   *)
BlockedAccountRecovers ==
  (vpn.mode = "AccountBlocked" /\ acct.server = "okay" /\ net # None)
    ~> (vpn.mode # "AccountBlocked" \/ acct.server # "okay" \/ net = None)

(* "Disconnect during profile/API preparation cannot cancel the connect"   *)
(* is listed as fixed: an attempt the user has disconnected while it was   *)
(* being prepared never gets an engine.                                    *)
DisconnectedAttemptStays ==
  [][be.ended /\ be.engine # "starting" => be'.engine # "starting"]_vars

(* docs: a watching service holds no TUN; traffic is bypassed.             *)
StoodDownIsNotBlocked == vpn.mode = "WatchStoodDown" => vpn.tun # "block"

(* "Sticky only while the user wants a tunnel; an idle service should stay *)
(* dead": the system brings no service back to connect for a user who has  *)
(* disconnected.                                                           *)
IdleServiceStaysDead ==
  [][ProcessDies /\ request' # {} => user.wants]_vars

=============================================================================
