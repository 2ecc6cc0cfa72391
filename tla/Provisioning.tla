---------------------------- MODULE Provisioning ----------------------------
(***************************************************************************)
(* A provisioning session: the phone writes credentials over BLE, the main *)
(* task joins the network with them, hands them to the network manager,    *)
(* and reports to the phone from the manager's state callback, after       *)
(* registering the pairing token with the server.                          *)
(*                                                                         *)
(* DeviceController::tick() is cut where another actor can be seen to act: *)
(* the phone may write, the link may go and power may fail between any two *)
(* stages.  The station itself is module Station.                          *)
(***************************************************************************)
EXTENDS Station, Naturals

CONSTANTS
    Tokens,          \* pairing tokens the server hands out
    NoToken,         \* an empty token field
    MaxSubmissions   \* bound: writes of the phone per behaviour

ASSUME ProvisioningAssumption ==
    /\ NoToken \notin Tokens
    /\ MaxSubmissions \in Nat

VARIABLES
    stage,        \* the part of tick() the main task runs next
    mailbox,      \* pendingCreds_ while credPending_; a set of at most one
    taken,        \* the submission take_credentials last returned
    startedUp,    \* the manager was in kConnected when it was taken
    inFlight,     \* bleProvisioningInFlight_
    token,        \* pendingProvisionToken_
    status,       \* STATUS: "ready", "connecting", "connected" or "failed"
    shutdown,     \* bleShutdownAtMs_: "none", "armed" or "due"
    advertising,  \* advertising_
    phone,        \* a phone is connected to the GATT server
    registered,   \* tokens /device/provision accepted
    submissions   \* writes so far

sessionVars == <<mailbox, taken, startedUp, inFlight, token, status, shutdown>>
vars == <<stationVars, stage, sessionVars, advertising, phone, registered,
          submissions>>

Submissions == [cred : Credentials, token : Tokens \cup {NoToken}]
NoSubmission == [cred |-> NoCredentials, token |-> NoToken]

Init ==
    /\ StationInit
    /\ stage = "take"
    /\ mailbox = {}
    /\ taken = NoSubmission
    /\ startedUp = FALSE
    /\ inFlight = FALSE
    /\ token = NoToken
    /\ status = "ready"
    /\ shutdown = "none"
    /\ advertising = FALSE
    /\ phone = FALSE
    /\ registered = {}
    /\ submissions = 0

(***************************************************************************)
(* Power.                                                                  *)
(***************************************************************************)
ControllerRamLost ==
    /\ stage' = "take"
    /\ mailbox' = {}
    /\ taken' = NoSubmission
    /\ startedUp' = FALSE
    /\ inFlight' = FALSE
    /\ token' = NoToken
    /\ status' = "ready"
    /\ shutdown' = "none"
    /\ advertising' = FALSE
    /\ phone' = FALSE
    /\ UNCHANGED <<registered, submissions>>

\* Slip: BLE starts only on a device without a stored network.
BootProvisionsOnlyNew(joined) ==
    /\ StationBoot(joined)
    /\ advertising' = (nvs.ssid = NoNet)
    /\ UNCHANGED <<stage, sessionVars, phone, registered, submissions>>

\* begin(): BLE always starts; the manager's callbacks find no session.
Boot(joined) ==
    /\ StationBoot(joined)
    /\ advertising' = TRUE
    /\ UNCHANGED <<stage, sessionVars, phone, registered, submissions>>

PowerFails ==
    /\ \/ PowerLoss
       \/ stage = "join" /\ PowerLossWhileSaving(taken.cred)
       \/ stage = "http" /\ link = "up" /\ \E c \in Credentials : PowerLossWhileSaving(c)
       \/ stage = "mqtt" /\ PowerLossWhileClearing
    /\ ControllerRamLost

\* factory_reset: clear_credentials, then restart.
FactoryReset ==
    /\ stage = "mqtt"
    /\ link = "up"
    /\ RamLost
    /\ nvs' = NoCredentials
    /\ ControllerRamLost

(***************************************************************************)
(* The phone.                                                              *)
(***************************************************************************)
PhoneConnects ==
    /\ advertising
    /\ ~phone
    /\ phone' = TRUE
    /\ UNCHANGED <<stationVars, stage, sessionVars, advertising, registered,
                   submissions>>

PhoneLeaves ==
    /\ phone
    /\ phone' = FALSE
    /\ UNCHANGED <<stationVars, stage, sessionVars, advertising, registered,
                   submissions>>

\* handle_write: a submission not yet taken is overwritten.
PhoneWrites(s) ==
    /\ phone
    /\ submissions < MaxSubmissions
    /\ mailbox' = {s}
    /\ submissions' = submissions + 1
    /\ UNCHANGED <<stationVars, stage, taken, startedUp, inFlight, token, status,
                   shutdown, advertising, phone, registered>>

(***************************************************************************)
(* The manager's state callback, handle_network_state.                     *)
(* It runs inside the step that changes `state`, with the token the step   *)
(* stored and the status it last notified.                                 *)
(***************************************************************************)
NoCallback(tok, notified) ==
    /\ state' = state
    /\ token' = tok
    /\ status' = notified
    /\ UNCHANGED <<inFlight, shutdown, registered>>

NoSession(tok, notified) ==
    /\ state' # state
    /\ ~inFlight
    /\ token' = tok
    /\ status' = notified
    /\ UNCHANGED <<inFlight, shutdown, registered>>

\* Slip: any answer of the server counts as its acceptance.
RegistersAnyAnswer(tok) ==
    /\ state' # state
    /\ state' = "Connected"
    /\ inFlight
    /\ tok # NoToken
    /\ \E accepted, answered \in BOOLEAN :
          /\ registered' = IF accepted THEN registered \cup {tok} ELSE registered
          /\ status' = IF answered THEN "connected" ELSE "failed"
    /\ shutdown' = IF status' = "connected" THEN "armed" ELSE "none"
    /\ token' = NoToken
    /\ inFlight' = FALSE

\* Slip: a session the server refused stays in flight.
RegistersOnlySuccess(tok) ==
    /\ state' # state
    /\ state' = "Connected"
    /\ inFlight
    /\ tok # NoToken
    /\ \E accepted, answered \in BOOLEAN :
          /\ registered' = IF accepted THEN registered \cup {tok} ELSE registered
          /\ status' = IF accepted /\ answered THEN "connected" ELSE "failed"
    /\ shutdown' = IF status' = "connected" THEN "armed" ELSE "none"
    /\ token' = IF status' = "connected" THEN NoToken ELSE tok
    /\ inFlight' = (status' # "connected")

\* call_provision_api: the server may refuse, and its acceptance may be lost
\* on the way back.
Registers(tok) ==
    /\ state' # state
    /\ state' = "Connected"
    /\ inFlight
    /\ tok # NoToken
    /\ \E accepted, answered \in BOOLEAN :
          /\ registered' = IF accepted THEN registered \cup {tok} ELSE registered
          /\ status' = IF accepted /\ answered THEN "connected" ELSE "failed"
    /\ shutdown' = IF status' = "connected" THEN "armed" ELSE "none"
    /\ token' = NoToken
    /\ inFlight' = FALSE

\* Slip: the session is reported and not ended.
ReportsConnectedAgain(tok) ==
    /\ state' # state
    /\ state' = "Connected"
    /\ inFlight
    /\ tok = NoToken
    /\ status' = "connected"
    /\ shutdown' = "armed"
    /\ token' = tok
    /\ UNCHANGED <<inFlight, registered>>

ReportsConnected(tok) ==
    /\ state' # state
    /\ state' = "Connected"
    /\ inFlight
    /\ tok = NoToken
    /\ status' = "connected"
    /\ shutdown' = "armed"
    /\ inFlight' = FALSE
    /\ token' = tok
    /\ UNCHANGED registered

ReportsConnecting(tok) ==
    /\ state' # state
    /\ state' = "Connecting" \/ (state' = "Disconnected" /\ WillRetry')
    /\ inFlight
    /\ status' = "connecting"
    /\ token' = tok
    /\ UNCHANGED <<inFlight, shutdown, registered>>

ReportsFailed ==
    /\ state' # state
    /\ state' = "Disconnected" /\ ~WillRetry'
    /\ inFlight
    /\ status' = "failed"
    /\ inFlight' = FALSE
    /\ token' = NoToken
    /\ UNCHANGED <<shutdown, registered>>

HandleNetworkState(tok, notified) ==
    \/ NoCallback(tok, notified)
    \/ NoSession(tok, notified)
    \/ Registers(tok)
    \/ ReportsConnected(tok)
    \/ ReportsConnecting(tok)
    \/ ReportsFailed

(***************************************************************************)
(* The main task: one turn of tick().                                      *)
(***************************************************************************)
TakesNothing ==
    /\ state # "Off"
    /\ stage = "take"
    /\ mailbox = {}
    /\ stage' = "net"
    /\ UNCHANGED <<stationVars, sessionVars, advertising, phone, registered,
                   submissions>>

Takes ==
    /\ state # "Off"
    /\ stage = "take"
    /\ mailbox # {}
    /\ mailbox' = {}
    /\ taken' \in mailbox
    /\ startedUp' = (state = "Connected")
    /\ inFlight' = TRUE
    /\ shutdown' = "none"
    /\ status' = "connecting"
    /\ stage' = "join"
    /\ UNCHANGED <<stationVars, token, advertising, phone, registered, submissions>>

\* Slip: the token of an earlier session is kept.
JoinFailsKeepingToken ==
    /\ stage = "join"
    /\ ProvisionFails
    /\ status' = "failed"
    /\ inFlight' = FALSE
    /\ shutdown' = "none"
    /\ stage' = "net"
    /\ UNCHANGED <<mailbox, taken, startedUp, token, advertising, phone, registered,
                   submissions>>

JoinFails ==
    /\ stage = "join"
    /\ ProvisionFails
    /\ status' = "failed"
    /\ inFlight' = FALSE
    /\ shutdown' = "none"
    /\ token' = NoToken
    /\ stage' = "net"
    /\ UNCHANGED <<mailbox, taken, startedUp, advertising, phone, registered,
                   submissions>>

JoinWorks ==
    /\ stage = "join"
    /\ \E linkNow \in {"down", "up"} : ProvisionJoins(taken.cred, linkNow)
    /\ HandleNetworkState(taken.token, "connecting")
    /\ stage' = "net"
    /\ UNCHANGED <<mailbox, taken, startedUp, advertising, phone, submissions>>

TicksNetwork ==
    /\ stage = "net"
    /\ StationTick
    /\ HandleNetworkState(token, status)
    /\ stage' = "mqtt"
    /\ UNCHANGED <<mailbox, taken, startedUp, advertising, phone, submissions>>

\* The broker is connected only while the link is up, but a command already
\* received is dispatched even if the link goes meanwhile.
CommandArrives == stage = "mqtt" /\ (link = "up" \/ state = "Connected")

\* Slip: the drain of an earlier success is not called off.
DisconnectKeepsDrain(clear, restart) ==
    LET callbackFails == inFlight /\ state # "Disconnected" IN
    /\ CommandArrives
    /\ Disconnect(clear)
    /\ token' = IF callbackFails THEN NoToken ELSE token
    /\ status' = CASE restart -> "ready"
                   [] ~restart /\ callbackFails -> "failed"
                   [] OTHER -> status
    /\ inFlight' = FALSE
    /\ advertising' = restart
    /\ mailbox' = IF restart THEN {} ELSE mailbox
    /\ stage' = "stop"
    /\ UNCHANGED <<taken, startedUp, shutdown, phone, registered, submissions>>

\* handle_disconnect_wifi_command.  disconnect() reports a change of state
\* first; then the session ends, and restarting BLE empties the mailbox.
DisconnectCommand(clear, restart) ==
    LET callbackFails == inFlight /\ state # "Disconnected" IN
    /\ CommandArrives
    /\ Disconnect(clear)
    /\ token' = IF callbackFails THEN NoToken ELSE token
    /\ status' = CASE restart -> "ready"
                   [] ~restart /\ callbackFails -> "failed"
                   [] OTHER -> status
    /\ inFlight' = FALSE
    /\ shutdown' = "none"
    /\ advertising' = restart
    /\ mailbox' = IF restart THEN {} ELSE mailbox
    /\ stage' = "stop"
    /\ UNCHANGED <<taken, startedUp, phone, registered, submissions>>

NoCommand ==
    /\ state # "Off"
    /\ stage = "mqtt"
    /\ stage' = "stop"
    /\ UNCHANGED <<stationVars, sessionVars, advertising, phone, registered,
                   submissions>>

\* maybe_stop_ble_after_success
StopsBle ==
    /\ state # "Off"
    /\ stage = "stop"
    /\ advertising' = (advertising /\ shutdown # "due")
    /\ shutdown' = IF shutdown = "due" THEN "none" ELSE shutdown
    /\ stage' = "http"
    /\ UNCHANGED <<stationVars, mailbox, taken, startedUp, inFlight, token, status,
                   phone, registered, submissions>>

\* POST /connect joins and hands over credentials like a BLE session does,
\* but starts no session of its own.
HttpConnectFails ==
    /\ stage = "http"
    /\ link = "up"
    /\ ProvisionFails
    /\ stage' = "take"
    /\ UNCHANGED <<sessionVars, advertising, phone, registered, submissions>>

HttpConnectWorks(c) ==
    /\ stage = "http"
    /\ link = "up"
    /\ \E linkNow \in {"down", "up"} : ProvisionJoins(c, linkNow)
    /\ HandleNetworkState(token, status)
    /\ stage' = "take"
    /\ UNCHANGED <<mailbox, taken, startedUp, advertising, phone, submissions>>

\* The turn ends without a request; the drain period may elapse in the delay.
EndsTurn ==
    /\ state # "Off"
    /\ stage = "http"
    /\ shutdown' \in IF shutdown = "armed" THEN {"armed", "due"} ELSE {shutdown}
    /\ stage' = "take"
    /\ UNCHANGED <<stationVars, mailbox, taken, startedUp, inFlight, token, status,
                   advertising, phone, registered, submissions>>

LinkChanges ==
    /\ JoinSucceeds \/ LinkLost
    /\ UNCHANGED <<stage, sessionVars, advertising, phone, registered, submissions>>

MainTask ==
    \/ TakesNothing
    \/ Takes
    \/ JoinFails
    \/ JoinWorks
    \/ TicksNetwork
    \/ NoCommand
    \/ StopsBle
    \/ EndsTurn

Requests ==
    \/ \E clear, restart \in BOOLEAN : DisconnectCommand(clear, restart)
    \/ FactoryReset
    \/ HttpConnectFails
    \/ \E c \in Credentials : HttpConnectWorks(c)

Next ==
    \/ \E joined \in BOOLEAN : Boot(joined)
    \/ PowerFails
    \/ PhoneConnects
    \/ PhoneLeaves
    \/ \E s \in Submissions : PhoneWrites(s)
    \/ MainTask
    \/ Requests
    \/ LinkChanges

Spec == Init /\ [][Next]_vars

\* loop() runs forever.  That a join times out and a due retry is not put off
\* forever follows from the clock NetworkManager has; that an access point
\* asked again and again accepts once is its assumption too.
FairSpec ==
    /\ Spec
    /\ WF_vars(MainTask)
    /\ SF_vars(TicksNetwork /\ TickTimedOut)
    /\ SF_vars(TicksNetwork /\ TickBeginStation)
    /\ SF_vars(LinkChanges /\ JoinSucceeds)

(***************************************************************************)
(* Properties.                                                             *)
(***************************************************************************)
\* "connected" reaches the phone only after the server accepted the pairing
\* token of the very submission being answered, or for a submission without
\* a token: no token left by an earlier session, by a command or by an HTTP
\* credential switch can be registered in its place.
ConnectedMeansRegistered ==
    status = "connected" =>
        taken.token = NoToken \/ taken.token \in registered

\* A pairing token kept for later always belongs to the session in flight:
\* however the session ended, nothing is left for a later connection to post.
TokenHasSession ==
    token # NoToken => inFlight

\* A turn ends with a session still in flight under a connected manager only
\* if that session was taken while the manager was already connected: in
\* every other case the phone has had its final status.
UnansweredOnlyIfStartedUp ==
    stage = "take" /\ inFlight /\ state = "Connected" => startedUp

\* A device that can be reached, by advertising or by returning to its
\* network, stays reachable: sessions that fail, drains that elapse and links
\* that drop never strand it.  Only a disconnect_wifi that does not restart
\* provisioning does.
Reachable == state = "Off" \/ advertising \/ WillRetry
OnlyCommandStrands ==
    [][Reachable /\ ~Reachable' =>
          \E clear \in BOOLEAN : DisconnectCommand(clear, FALSE)]_vars

\* A device that retries by itself falls silent on BLE only with credentials
\* that work, in RAM as in NVS.  Power lost in the middle of a save leaves the
\* name of one network with the passphrase of another: such a record is loaded
\* and retried without hope, through any number of restarts, so whoever holds
\* it, and every drain armed before it was written, must leave BLE on.
SilentMeansWorkingRecord ==
    state # "Off" /\ autoReconnect /\ ~advertising =>
        Joinable(saved) /\ nvs = saved

\* A session taken while the manager was not connected ends, once the link
\* stops being lost and no request resets the station again.
Interference ==
    /\ stationVars' # stationVars
    /\ LinkLost \/ HttpConnectFails \/ \E c \in Credentials : HttpConnectWorks(c)
SessionsEnd ==
    <>[][~Interference]_vars => ((inFlight /\ ~startedUp) ~> (~inFlight \/ startedUp))

\* The header of the BLE protocol: "Device notifies STATUS when WiFi result is
\* known".  A connected manager knows the result, so no session is left in
\* flight at the end of a turn.
StatusNotifiedWhenKnown ==
    stage = "take" /\ inFlight => state # "Connected"

=============================================================================
