--------------------------- MODULE ConnectionPolicy ---------------------------
(***************************************************************************)
(* ConnectionPolicy.kt: whether to connect, whether to block, and what the *)
(* service becomes when a session ends, as pure operators of the inputs.   *)
(*                                                                         *)
(* An input is a record with the fields of PolicyInput: autoSecure ("on",  *)
(* "off", or "unknown" for a null isAutoSecureOn), stoodDown, optedIn,     *)
(* autoConnect, boot, wants (globalUserConnectionPreference), account      *)
(* ("unread" for null), status, mode, canName, online, lockdown and        *)
(* configured.  The protocols of shouldSwitchProtocol are its parameters.  *)
(***************************************************************************)

Statuses == {"Disconnected", "Connecting", "Connected"}
Accounts == {"unread", "okay", "expired"}

(* ServiceMode?; "none" is null.  Watching and Failed are split by their   *)
(* argument; AccountBlocked's status is left out.                          *)
Watching == {"WatchNotSecured", "WatchOptedOut", "WatchStoodDown"}
Failed == {"Failed", "FailedBlocking"}
Modes == Watching \cup Failed \cup
         {"none", "Off", "Paused", "NoNetwork", "AwaitingSession", "AuthFailed", "AccountBlocked"}

SessionEnds == {"UserPause", "UserDisconnect", "SystemDisconnect", "UserTurnOff",
                "ConnectFailed", "NoNetwork", "AwaitingSession", "AuthFailed"}
UserIntentEnds == {"UserTurnOff", "UserPause", "UserDisconnect"}

Inputs ==
  [autoSecure : {"on", "off", "unknown"}, stoodDown : BOOLEAN, optedIn : BOOLEAN,
   autoConnect : BOOLEAN, boot : BOOLEAN, wants : BOOLEAN, account : Accounts,
   status : Statuses, mode : Modes, canName : BOOLEAN, online : BOOLEAN,
   lockdown : BOOLEAN, configured : BOOLEAN]

(* shouldConnectOnStart(input, reason).                                    *)
shouldConnectOnStart(i, reason) ==
  CASE reason = "AppUpdate" -> i.wants
    [] reason # "AppUpdate" /\ i.autoConnect /\ i.autoSecure # "off" -> TRUE
    [] OTHER -> i.boot

accountCannotConnect(i) == i.account \notin {"unread", "okay"} /\ ~i.configured

(* isAutoSecureOn ?: !canReadNetworkName                                   *)
networkAllowsAutoConnect(i) ==
  i.autoSecure = "on" \/ (i.autoSecure = "unknown" /\ ~i.canName)

standsDown(i) == i.stoodDown

restoresOptedOutSession(i) == i.wants /\ i.mode = "WatchOptedOut" /\ i.autoSecure = "on"

(* A faulty variant: the stand-down no longer holds it back.               *)
AutoConnectIgnoringStandDown(i) ==
  /\ networkAllowsAutoConnect(i)
  /\ i.autoConnect \/ restoresOptedOutSession(i)
  /\ i.online
  /\ i.account = "okay" \/ i.configured
  /\ i.status = "Disconnected"
  /\ i.mode \notin {"Paused", "AwaitingSession", "AuthFailed"} \cup Failed

shouldAutoConnect(i) ==
  /\ networkAllowsAutoConnect(i)
  /\ i.autoConnect \/ restoresOptedOutSession(i)
  /\ i.online
  /\ ~standsDown(i)
  /\ i.account = "okay" \/ i.configured
  /\ i.status = "Disconnected"
  /\ i.mode \notin {"Paused", "AwaitingSession", "AuthFailed"} \cup Failed

shouldAutoDisconnect(i) ==
  i.autoSecure = "off" /\ ~i.optedIn /\ i.status = "Connected"

awaitsSecuredNetwork(i) ==
  i.autoSecure = "off" /\ i.wants /\ ~standsDown(i) /\ ~accountCannotConnect(i)

blockingApplies(i) ==
  i.autoConnect /\ i.autoSecure # "off" /\ ~standsDown(i) /\ ~i.lockdown /\ i.mode # "Paused"

shouldBlockOutsideVpn(i, end) == end \notin UserIntentEnds /\ blockingApplies(i)

shouldWatch(i) == i.autoConnect /\ ~accountCannotConnect(i)

(* shouldSwitchProtocol, over the configured and the live protocol.        *)
shouldSwitchProtocol(i, preferOn, preferred, active) ==
  /\ preferOn /\ i.autoSecure = "on"
  /\ preferred # "unset" /\ active # "unset"
  /\ i.status = "Connected" /\ preferred # active

(* reconcile(input): the Effect.                                           *)
reconcile(i) ==
  CASE ~i.autoConnect -> IF i.status = "Disconnected" THEN "StopService" ELSE "None"
    [] i.autoConnect /\ shouldAutoConnect(i) -> "Connect"
    [] i.autoConnect /\ ~shouldAutoConnect(i) /\ shouldWatch(i) /\ i.mode = "none" /\ i.status = "Disconnected" -> "StartWatching"
    [] OTHER -> "None"

(* A session ended and the policy watches, or stops, the idle service.     *)
IdleMode(i) ==
  CASE ~shouldWatch(i) /\ ~awaitsSecuredNetwork(i) -> "Off"
    [] (shouldWatch(i) \/ awaitsSecuredNetwork(i)) /\ standsDown(i) -> "WatchStoodDown"
    [] (shouldWatch(i) \/ awaitsSecuredNetwork(i)) /\ ~standsDown(i) /\ i.autoSecure = "off" -> "WatchOptedOut"
    [] OTHER -> "WatchNotSecured"

serviceModeAfterSession(i, end) ==
  IF end \notin UserIntentEnds /\ accountCannotConnect(i)
  THEN IF i.autoConnect THEN "AccountBlocked" ELSE "Off"
  ELSE CASE end = "UserTurnOff" -> "Off"
         [] end = "UserPause" -> "Paused"
         [] end = "ConnectFailed" -> IF shouldBlockOutsideVpn(i, end) THEN "FailedBlocking" ELSE "Failed"
         [] end \in {"NoNetwork", "AwaitingSession", "AuthFailed"} -> end
         [] OTHER -> IdleMode(i)

=============================================================================
