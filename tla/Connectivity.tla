----------------------------- MODULE Connectivity -----------------------------
(***************************************************************************)
(* What DeviceController::tick() makes of the Wi-Fi and broker sessions:   *)
(* the screen the rider sees and the logs it owes the server.  The turn is *)
(* cut at the calls that take time (the joins, ensure_connected, loop, the *)
(* HTTP request), between which either session may go.  The network        *)
(* manager appears only through state() and will_retry_connection().       *)
(***************************************************************************)
EXTENDS MqttSession

VARIABLES
    step,        \* the part of begin() or tick() the main task runs next
    netState,    \* state_: "Connected", "Connecting" or "Disconnected", its others
    retries,     \* will_retry_connection()
    sampled,     \* mqttConnected, the local tick() reads once
    last,        \* lastMqttConnected_
    outageLog,   \* pendingWifiDisconnectLog_
    wifiLog,     \* pendingWifiConnectedLog_
    lossLog,     \* pendingMqttDisconnectLog_
    draining,    \* pendingReconnectLogs_
    crashLog,    \* pendingCrashReport_
    bootLog,     \* bootLogPublished_
    data,        \* renderModel_.hasData
    fresh,       \* hasFreshPayload_
    grace,       \* nowMs < mqttUiGraceUntilMs_
    ui,          \* renderModel_.uiState
    owed         \* history: a loss was recorded and no rows came since

netVars == <<netState, retries>>
edgeVars == <<sampled, last>>
logVars == <<outageLog, wifiLog, lossLog, draining, crashLog, bootLog>>
viewVars == <<data, fresh, grace, ui, owed>>
vars == <<mqttVars, step, netVars, edgeVars, logVars, viewVars>>

(***************************************************************************)
(* update_ui_state(), for the values its caller leaves.                    *)
(***************************************************************************)
\* Slip: fresh rows on a joined station count as live.
ShownUiWithoutBroker(shown, hasData, live, up, mqttUp, inGrace, willRetry) ==
    IF shown = "blank" /\ ~hasData THEN "blank"
    ELSE IF hasData /\ up /\ live THEN "transit"
    ELSE IF hasData THEN "stale"
    ELSE IF ~up THEN IF willRetry THEN "nowifi" ELSE "setup"
    ELSE IF mqttUp \/ inGrace THEN "waiting"
    ELSE "nomqtt"

ShownUi(shown, hasData, live, up, mqttUp, inGrace, willRetry) ==
    IF shown = "blank" /\ ~hasData THEN "blank"
    ELSE IF hasData /\ up /\ (mqttUp \/ inGrace) /\ live THEN "transit"
    ELSE IF hasData THEN "stale"
    ELSE IF ~up THEN IF willRetry THEN "nowifi" ELSE "setup"
    ELSE IF mqttUp \/ inGrace THEN "waiting"
    ELSE "nomqtt"

UpdatesUi(shown) ==
    ui' = ShownUi(shown, data', fresh', wifi', Connected', grace', retries')

(***************************************************************************)
(* handle_network_state(), run inside the step that changes netState.      *)
(* `kept` is whether the step itself keeps the rows fresh.                 *)
(***************************************************************************)
NetworkReports(kept) ==
    IF netState' = netState
    THEN /\ fresh' = kept
         /\ UNCHANGED <<outageLog, wifiLog, grace, ui>>
    ELSE /\ grace' = (grace \/ netState' = "Connected")
         /\ wifiLog' = (wifiLog \/ netState' = "Connected")
         /\ outageLog' = CASE netState' = "Connected" -> FALSE
                           [] netState' = "Disconnected" -> TRUE
                           [] OTHER -> outageLog
         /\ fresh' = (kept /\ netState' # "Disconnected")
         /\ UpdatesUi(ui)

(***************************************************************************)
(* Power.                                                                  *)
(***************************************************************************)
PowerFails ==
    /\ step # "off"
    /\ step' = "off"
    /\ ClientRestarts
    /\ wifi' = FALSE
    /\ netState' = "Disconnected"
    /\ ui' = "booting"
    /\ retries' = FALSE
    /\ sampled' = FALSE
    /\ last' = FALSE
    /\ outageLog' = FALSE
    /\ wifiLog' = FALSE
    /\ lossLog' = FALSE
    /\ draining' = FALSE
    /\ crashLog' = FALSE
    /\ bootLog' = FALSE
    /\ data' = FALSE
    /\ fresh' = FALSE
    /\ grace' = FALSE
    /\ owed' = FALSE

\* begin() up to the initial broker connect: the cached assignment is shown as
\* stale rows, the manager has joined or not.
Starts(joined, hasCredentials, hasCache, crashed) ==
    /\ joined => hasCredentials
    /\ ClientRestarts
    /\ wifi' = joined
    /\ step' = "boot"
    /\ netState' = IF joined THEN "Connected" ELSE "Disconnected"
    /\ retries' = hasCredentials
    /\ sampled' = FALSE
    /\ last' = FALSE
    /\ outageLog' = ~joined
    /\ wifiLog' = joined
    /\ lossLog' = FALSE
    /\ draining' = FALSE
    /\ crashLog' = crashed
    /\ bootLog' = FALSE
    /\ data' = hasCache
    /\ fresh' = FALSE
    /\ grace' = TRUE
    /\ owed' = FALSE
    /\ UpdatesUi("booting")

Init ==
    /\ MqttInit
    /\ step = "off"
    /\ netState = "Disconnected"
    /\ retries = FALSE
    /\ sampled = FALSE
    /\ last = FALSE
    /\ outageLog = FALSE
    /\ wifiLog = FALSE
    /\ lossLog = FALSE
    /\ draining = FALSE
    /\ crashLog = FALSE
    /\ bootLog = FALSE
    /\ data = FALSE
    /\ fresh = FALSE
    /\ grace = FALSE
    /\ ui = "booting"
    /\ owed = FALSE

\* begin() polls the broker until it is connected or the budget runs out.
BootEnds ==
    /\ step = "boot"
    /\ ~polling
    /\ step' = "ble"
    /\ UNCHANGED <<mqttVars, netVars, edgeVars, logVars, data, fresh, grace, owed>>
    /\ UpdatesUi(ui)

(***************************************************************************)
(* A BLE session: leave the broker, join, hand over the credentials.       *)
(***************************************************************************)
NoCredentialsPending ==
    /\ step = "ble"
    /\ step' = "net"
    /\ UNCHANGED <<mqttVars, netVars, edgeVars, logVars, viewVars>>

\* Slip: the station is reset before the broker is left.
TakesCredentialsResetting(delivered) ==
    /\ step = "ble"
    /\ ~polling
    /\ Disconnect(delivered)
    /\ wifi' = FALSE
    /\ step' = "join"
    /\ UNCHANGED <<netVars, edgeVars, logVars, viewVars>>

TakesCredentials(delivered) ==
    /\ step = "ble"
    /\ SwitchDisconnects(delivered)
    /\ step' = "join"
    /\ UNCHANGED <<netVars, edgeVars, logVars, viewVars>>

JoinFails ==
    /\ step = "join"
    /\ wifi' = FALSE
    /\ step' = "net"
    /\ UNCHANGED <<clientVars, brokerVars, netVars, edgeVars, logVars, viewVars>>

\* set_credentials()
SetsCredentials ==
    /\ retries' = TRUE
    /\ netState' = IF wifi' THEN "Connected" ELSE "Disconnected"
    /\ UNCHANGED <<edgeVars, lossLog, draining, crashLog, bootLog, data, owed>>
    /\ NetworkReports(fresh)

JoinWorks(up) ==
    /\ step = "join"
    /\ wifi' = up
    /\ UNCHANGED <<clientVars, brokerVars>>
    /\ SetsCredentials
    /\ step' = "net"

(***************************************************************************)
(* NetworkManager::tick(), as its contract (Station) allows.               *)
(***************************************************************************)
NetworkTicks(next) ==
    /\ step = "net"
    /\ \/ wifi /\ next = "Connected"
       \/ ~wifi /\ ~retries /\ next = "Disconnected"
       \/ ~wifi /\ retries /\ next \in {netState, "Connecting"}
       \/ ~wifi /\ retries /\ netState = "Connecting" /\ next = "Disconnected"
    /\ netState' = next
    /\ step' = "mqtt"
    /\ UNCHANGED <<mqttVars, retries, edgeVars, lossLog, draining, crashLog, bootLog,
                   data, owed>>
    /\ NetworkReports(fresh)

(***************************************************************************)
(* MqttClient::tick() and the commands loop() dispatches.                  *)
(***************************************************************************)
AfterPoll ==
    step' = CASE step = "boot" -> "boot"
              [] step = "mqtt" /\ polling' -> "mqtt"
              [] OTHER -> "edge"

Polling == step = "mqtt" \/ (step = "boot" /\ (polling \/ (netState = "Connected" /\ ~Connected)))

Polls ==
    /\ Polling
    /\ EnsureConnected \/ Loop
    /\ AfterPoll
    /\ UNCHANGED <<netVars, edgeVars, logVars, viewVars>>

ReceivesRows ==
    /\ Polling
    /\ MessageArrives
    /\ LoopGoesOn
    /\ data' = TRUE
    /\ fresh' = TRUE
    /\ ui' = "transit"
    /\ owed' = FALSE
    /\ AfterPoll
    /\ UNCHANGED <<netVars, edgeVars, logVars, grace>>

ReceivesBlank ==
    /\ Polling
    /\ MessageArrives
    /\ LoopGoesOn
    /\ data' = FALSE
    /\ fresh' = FALSE
    /\ ui' = "blank"
    /\ AfterPoll
    /\ UNCHANGED <<netVars, edgeVars, logVars, grace, owed>>

\* disconnect_wifi or unpair
ReceivesDisconnect(delivered) ==
    /\ Polling
    /\ CommandDisconnects(delivered)
    /\ wifi' = FALSE
    /\ netState' = "Disconnected"
    /\ retries' = FALSE
    /\ data' = FALSE
    /\ fresh' = FALSE
    /\ outageLog' = (outageLog \/ netState # "Disconnected")
    /\ AfterPoll
    /\ UNCHANGED <<edgeVars, wifiLog, lossLog, draining, crashLog, bootLog,
                   grace, owed>>
    /\ UpdatesUi(ui)

ReceivesFactoryReset(delivered) ==
    /\ Polling
    /\ CommandDisconnects(delivered)
    /\ wifi' = wifi
    /\ step' = "off"
    /\ UNCHANGED <<netVars, edgeVars, logVars, viewVars>>

(***************************************************************************)
(* The edge: mqttConnected is read once and used for the rest of the turn. *)
(***************************************************************************)
\* Slip: the rows stay fresh through a loss.
SamplesEdgeKeepingRows ==
    /\ step = "edge"
    /\ sampled' = Connected
    /\ IF last /\ ~Connected
       THEN lossLog' = TRUE /\ grace' = TRUE /\ owed' = TRUE
       ELSE UNCHANGED <<lossLog, grace, owed>>
    /\ step' = "http"
    /\ UNCHANGED <<mqttVars, netVars, last, outageLog, wifiLog, draining, crashLog,
                   bootLog, data, fresh, ui>>

SamplesEdge ==
    /\ step = "edge"
    /\ sampled' = Connected
    /\ IF last /\ ~Connected
       THEN /\ lossLog' = TRUE
            /\ fresh' = FALSE
            /\ grace' = TRUE
            /\ owed' = TRUE
       ELSE UNCHANGED <<lossLog, fresh, grace, owed>>
    /\ step' = "http"
    /\ UNCHANGED <<mqttVars, netVars, last, outageLog, wifiLog, draining, crashLog,
                   bootLog, data, ui>>

(***************************************************************************)
(* handleClient(): POST /connect resets the station, joins, and only then  *)
(* leaves the broker.                                                      *)
(***************************************************************************)
NoRequest ==
    /\ step = "http"
    /\ step' = "ui"
    /\ UNCHANGED <<mqttVars, netVars, edgeVars, logVars, viewVars>>

RequestResetsStation ==
    /\ step = "http"
    /\ wifi
    /\ wifi' = FALSE
    /\ step' = "switch"
    /\ UNCHANGED <<clientVars, brokerVars, netVars, edgeVars, logVars, viewVars>>

RequestJoinFails ==
    /\ step = "switch"
    /\ step' = "ui"
    /\ UNCHANGED <<mqttVars, netVars, edgeVars, logVars, viewVars>>

RequestJoins ==
    /\ step = "switch"
    /\ wifi' = TRUE
    /\ step' = "leave"
    /\ UNCHANGED <<clientVars, brokerVars, netVars, edgeVars, logVars, viewVars>>

RequestLeavesBroker(delivered) ==
    /\ step = "leave"
    /\ SwitchDisconnects(delivered)
    /\ SetsCredentials
    /\ step' = "ui"

(***************************************************************************)
(* The screen and the logs.                                                *)
(***************************************************************************)
ShowsState ==
    /\ step = "ui"
    /\ step' = "logs"
    /\ UNCHANGED <<mqttVars, netVars, edgeVars, logVars, data, fresh, grace, owed>>
    /\ UpdatesUi(ui)

\* Slip: the drain is given up after the loss was reported.
DrainsUntilLoss(drain) ==
    CASE ~drain -> UNCHANGED <<wifiLog, lossLog, crashLog, bootLog, draining>>
      [] drain /\ wifiLog ->
            wifiLog' = FALSE /\ draining' = TRUE /\ UNCHANGED <<lossLog, crashLog, bootLog>>
      [] drain /\ ~wifiLog /\ lossLog ->
            lossLog' = FALSE /\ draining' = FALSE /\ UNCHANGED <<wifiLog, crashLog, bootLog>>
      [] drain /\ ~wifiLog /\ ~lossLog /\ ~bootLog /\ crashLog ->
            crashLog' = FALSE /\ draining' = TRUE /\ UNCHANGED <<wifiLog, lossLog, bootLog>>
      [] drain /\ ~wifiLog /\ ~lossLog /\ ~bootLog /\ ~crashLog ->
            bootLog' = TRUE /\ draining' = TRUE /\ UNCHANGED <<wifiLog, lossLog, crashLog>>
      [] OTHER ->
            draining' = FALSE /\ UNCHANGED <<wifiLog, lossLog, crashLog, bootLog>>

\* Slip: the boot is reported before the crash.
DrainsBootFirst(drain) ==
    CASE ~drain -> UNCHANGED <<wifiLog, lossLog, crashLog, bootLog, draining>>
      [] drain /\ wifiLog ->
            wifiLog' = FALSE /\ draining' = TRUE /\ UNCHANGED <<lossLog, crashLog, bootLog>>
      [] drain /\ ~wifiLog /\ lossLog ->
            lossLog' = FALSE /\ draining' = TRUE /\ UNCHANGED <<wifiLog, crashLog, bootLog>>
      [] drain /\ ~wifiLog /\ ~lossLog /\ ~bootLog ->
            bootLog' = TRUE /\ draining' = TRUE /\ UNCHANGED <<wifiLog, lossLog, crashLog>>
      [] drain /\ ~wifiLog /\ ~lossLog /\ bootLog /\ crashLog ->
            crashLog' = FALSE /\ draining' = TRUE /\ UNCHANGED <<wifiLog, lossLog, bootLog>>
      [] OTHER ->
            draining' = FALSE /\ UNCHANGED <<wifiLog, lossLog, crashLog, bootLog>>

\* One deferred log a turn, in this order; a flag is cleared whether or not
\* the publish went out.
Drains(drain) ==
    CASE ~drain -> UNCHANGED <<wifiLog, lossLog, crashLog, bootLog, draining>>
      [] drain /\ wifiLog ->
            wifiLog' = FALSE /\ draining' = TRUE /\ UNCHANGED <<lossLog, crashLog, bootLog>>
      [] drain /\ ~wifiLog /\ lossLog ->
            lossLog' = FALSE /\ draining' = TRUE /\ UNCHANGED <<wifiLog, crashLog, bootLog>>
      [] drain /\ ~wifiLog /\ ~lossLog /\ ~bootLog /\ crashLog ->
            crashLog' = FALSE /\ draining' = TRUE /\ UNCHANGED <<wifiLog, lossLog, bootLog>>
      [] drain /\ ~wifiLog /\ ~lossLog /\ ~bootLog /\ ~crashLog ->
            bootLog' = TRUE /\ draining' = TRUE /\ UNCHANGED <<wifiLog, lossLog, crashLog>>
      [] OTHER ->
            draining' = FALSE /\ UNCHANGED <<wifiLog, lossLog, crashLog, bootLog>>

PublishesLogs ==
    LET rising == sampled /\ ~last
        drain == sampled /\ (rising \/ draining)
    IN
    /\ step = "logs"
    /\ Drains(drain)
    /\ last' = sampled
    /\ step' = "end"
    /\ UNCHANGED <<mqttVars, netVars, sampled, outageLog, viewVars>>

EndsTurn ==
    /\ step = "end"
    /\ step' = "ble"
    /\ UNCHANGED <<mqttVars, netVars, edgeVars, logVars, viewVars>>

(***************************************************************************)
(* The network, the broker and the clock.                                  *)
(***************************************************************************)
\* The driver joins only while the manager reports kConnecting; the broker
\* gives a session up whether the device has power or not.
SessionsChange ==
    /\ \/ WifiChanges /\ (wifi \/ (retries /\ netState = "Connecting"))
       \/ TransportDies
       \/ BrokerGivesUp
       \/ RetryComesDue
    /\ step = "off" => UNCHANGED <<wifi, clientVars>>
    /\ UNCHANGED <<step, netVars, edgeVars, logVars, viewVars>>

GraceEnds ==
    /\ grace
    /\ grace' = FALSE
    /\ UNCHANGED <<mqttVars, step, netVars, edgeVars, logVars, data, fresh, ui, owed>>

MainTask ==
    \/ BootEnds
    \/ NoCredentialsPending
    \/ JoinFails
    \/ \E up \in BOOLEAN : JoinWorks(up)
    \/ \E next \in {"Connected", "Connecting", "Disconnected"} : NetworkTicks(next)
    \/ Polls
    \/ SamplesEdge
    \/ NoRequest
    \/ RequestJoinFails
    \/ RequestJoins
    \/ \E delivered \in 0..2 : RequestLeavesBroker(delivered)
    \/ ShowsState
    \/ PublishesLogs
    \/ EndsTurn

Requests ==
    \/ \E delivered \in 0..2 : TakesCredentials(delivered)
    \/ ReceivesRows
    \/ ReceivesBlank
    \/ \E delivered \in 0..2 : ReceivesDisconnect(delivered)
    \/ \E delivered \in 0..2 : ReceivesFactoryReset(delivered)
    \/ RequestResetsStation

StartsUp ==
    /\ step = "off"
    /\ \E joined, hasCredentials, hasCache, crashed \in BOOLEAN :
          Starts(joined, hasCredentials, hasCache, crashed)

Next ==
    \/ PowerFails
    \/ StartsUp
    \/ MainTask
    \/ Requests
    \/ SessionsChange
    \/ GraceEnds

Spec == Init /\ [][Next]_vars

\* loop() runs forever and the clock moves on; begin() polls the broker for
\* kInitialMqttConnectBudgetMs at most; a board that is off is switched on again.
FairSpec ==
    /\ Spec
    /\ WF_vars(MainTask)
    /\ WF_vars(StartsUp)
    /\ SF_vars(BootEnds)
    /\ WF_vars(GraceEnds)

(***************************************************************************)
(* Properties.                                                             *)
(***************************************************************************)
\* Once tick() has recorded a loss of the broker session, the screen does not
\* call its rows live again before new rows came, whatever reconnects, grace
\* periods and credential switches follow.
RecordedLossNeedsNewRows == owed /\ step = "end" => ui # "transit"

\* No log is forgotten: while the controller counts the broker as connected,
\* a recorded loss, an unreported crash or an unreported boot is being drained.
OwedLogsAreDraining ==
    step = "ble" /\ last /\ (lossLog \/ crashLog \/ ~bootLog) => draining

\* A crash is reported before the boot that followed it: the drain, which
\* looks for a crash only before the boot log, never leaves one behind.
CrashReportedBeforeBoot == bootLog => ~crashLog

\* The controller's use of the client keeps to the client's own protocol.
RefinesMqttSession == MqttSpec

\* A rider is not shown live arrivals for ever by a device that stays away
\* from its broker once the grace periods are over, whatever joins, restarts
\* and requests go on.
ScreenAdmitsLoss == <>[](~Connected /\ ~grace) => <>[](ui # "transit")

===============================================================================
