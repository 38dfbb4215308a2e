------------------------ MODULE ConnectionPolicyProofs ------------------------
(***************************************************************************)
(* What the service's two decisions about the end of a session, whether    *)
(* traffic stays blocked and what the service becomes, have to agree on.   *)
(* Both are asked with the same inputs (WindscribeVpnService.endSession).  *)
(***************************************************************************)
EXTENDS ConnectionPolicy, TLAPS

(* The modes in which the notification tells the user why nothing gets     *)
(* through and offers a way out.                                           *)
AnswersForBlock == {"WatchNotSecured", "NoNetwork", "AwaitingSession", "AuthFailed", "AccountBlocked", "FailedBlocking"}

(* A session end that leaves traffic blocked leaves the service in a mode  *)
(* that answers for it: never stopped, paused, stood down, on a network    *)
(* that was opted out, or in a failure reported as not blocking.           *)
THEOREM BlockIsAnswerable ==
  ASSUME NEW i \in Inputs, NEW end \in SessionEnds, shouldBlockOutsideVpn(i, end)
  PROVE  serviceModeAfterSession(i, end) \in AnswersForBlock
<1>1. end \notin UserIntentEnds /\ i.autoConnect /\ i.autoSecure # "off" /\ ~i.stoodDown
  BY DEF shouldBlockOutsideVpn, blockingApplies, standsDown
<1>2. CASE accountCannotConnect(i)
  BY <1>1, <1>2 DEF serviceModeAfterSession, AnswersForBlock
<1>3. CASE ~accountCannotConnect(i)
  <2>1. IdleMode(i) = "WatchNotSecured"
    BY <1>1, <1>3 DEF IdleMode, shouldWatch, standsDown
  <2>2. end \notin {"UserTurnOff", "UserPause"}
    BY <1>1 DEF UserIntentEnds
  <2>3. CASE end = "ConnectFailed"
    BY <1>3, <2>3 DEF serviceModeAfterSession, AnswersForBlock
  <2>4. CASE end \in {"NoNetwork", "AwaitingSession", "AuthFailed"}
    BY <1>3, <2>4 DEF serviceModeAfterSession, AnswersForBlock
  <2>5. CASE end \notin {"ConnectFailed", "NoNetwork", "AwaitingSession", "AuthFailed"}
    BY <1>3, <2>1, <2>2, <2>5 DEF serviceModeAfterSession, AnswersForBlock
  <2> QED BY <2>3, <2>4, <2>5
<1> QED BY <1>2, <1>3

(* The service never stops itself on a network it would connect on by      *)
(* Auto-Connect, unless the user turned it off.                            *)
THEOREM StopLeavesNothingToConnect ==
  ASSUME NEW i \in Inputs, NEW end \in SessionEnds,
         serviceModeAfterSession(i, end) = "Off", end # "UserTurnOff", i.autoConnect
  PROVE  ~shouldAutoConnect(i)
<1>1. SUFFICES ASSUME ~accountCannotConnect(i) PROVE FALSE
  BY DEF shouldAutoConnect, accountCannotConnect
<1>2. shouldWatch(i)
  BY <1>1 DEF shouldWatch
<1>3. IdleMode(i) # "Off"
  BY <1>2 DEF IdleMode
<1> QED BY <1>1, <1>3 DEF serviceModeAfterSession

=============================================================================
