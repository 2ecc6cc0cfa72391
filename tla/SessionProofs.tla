---------------------------- MODULE SessionProofs ----------------------------
(***************************************************************************)
(* Proofs about the MQTT session, alone, under the controller and beside   *)
(* whatever else the main task does.                                       *)
(*                                                                         *)
(* MqttSession: a session of this device leaves a retained "online" behind *)
(* only when disconnect() skips the "offline" publish.  What makes it true *)
(* is that the broker never holds a session of this client id without its  *)
(* will.                                                                   *)
(*                                                                         *)
(* Connectivity: the controller uses the client only in ways MqttSession   *)
(* allows, so that what is proved of the session holds for the controller; *)
(* and the promises of its turn about rows and logs.                       *)
(*                                                                         *)
(* MainTask: a firmware update inside a command callback decodes every     *)
(* body that arrives undisturbed, for images and buffers of any length,    *)
(* and neither updates nor scans break what MqttSession does; a scan       *)
(* beside them names every network that has a name, however many there     *)
(* are, because three of them always fit a chunk.                          *)
(***************************************************************************)
EXTENDS Connectivity, MainTask, SequenceTheorems, WellFoundedInduction, TLAPS

(***************************************************************************)
(* The session.                                                            *)
(***************************************************************************)
\* Every session was started with the retained "offline" will.
SessionHasWill == session => will

MqttInv == TypeOK /\ SessionHasWill

\* A restarted client has no session; the broker has never seen one.
LEMMA MqttInvInit == MqttInit => MqttInv
  BY DEF MqttInit, MqttInv, TypeOK, SessionHasWill

\* Ending a session takes its will and its subscription along.
LEMMA EndKeepsInv ==
  ASSUME MqttInv, SessionEnds, wifi' \in BOOLEAN, transport' \in BOOLEAN,
         connected' \in BOOLEAN, waiting' \in {"no"} \cup Deadlines,
         polling' \in BOOLEAN
  PROVE  MqttInv'
  BY DEF SessionEnds, MqttInv, TypeOK, SessionHasWill

\* disconnect() ends the whole session at the broker or nothing of it.
LEMMA DisconnectKeepsInv ==
  ASSUME MqttInv, NEW delivered, Disconnect(delivered), wifi' \in BOOLEAN
  PROVE  MqttInv'
<1> DEFINE reached == IF transport /\ wifi /\ session THEN delivered ELSE 0
           bye == reached >= IF Connected THEN 2 ELSE 1
<1>1. bye \in BOOLEAN
  OBVIOUS
<1>2. /\ transport' = FALSE /\ connected' = FALSE /\ polling' = FALSE
      /\ waiting' = waiting
      /\ session' = (session /\ ~bye)
      /\ will' = (will /\ ~bye)
      /\ subscribed' = (subscribed /\ ~bye)
      /\ presence' \in {"offline", presence}
  BY DEF Disconnect
<1> HIDE DEF bye
<1>3. CASE bye
  BY <1>2, <1>3 DEF MqttInv, TypeOK, SessionHasWill
<1>4. CASE ~bye
  BY <1>2, <1>4 DEF MqttInv, TypeOK, SessionHasWill
<1> QED
  BY <1>1, <1>3, <1>4

\* Every step of the client, the network and the broker keeps the invariant.
LEMMA MqttInvStep == MqttInv /\ [MqttNext]_mqttVars => MqttInv'
<1> SUFFICES ASSUME MqttInv, [MqttNext]_mqttVars PROVE MqttInv'
  OBVIOUS
<1> USE DEF MqttInv, TypeOK, SessionHasWill
<1>1. CASE WifiChanges
  BY <1>1 DEF WifiChanges, clientVars, brokerVars
<1>2. CASE ClientRestarts
  BY <1>2 DEF ClientRestarts, brokerVars
<1>3. CASE TransportDies
  BY <1>3 DEF TransportDies, brokerVars
<1>4. CASE BrokerGivesUp
  BY <1>4, EndKeepsInv DEF BrokerGivesUp, clientVars
<1>5. CASE RetryComesDue
  BY <1>5 DEF RetryComesDue, brokerVars
<1>6. CASE ClockWraps
  BY <1>6 DEF ClockWraps, brokerVars
<1>7. CASE EnsureConnected
  <2>1. CASE EnsureWifiDown
    BY <2>1 DEF EnsureWifiDown, brokerVars
  <2>2. CASE EnsureSession
    BY <2>2 DEF EnsureSession, brokerVars
  <2>3. CASE EnsureNotDue
    BY <2>3 DEF EnsureNotDue, brokerVars
  <2>4. ASSUME NEW accepted \in BOOLEAN, ConnectFails(accepted) PROVE MqttInv'
    BY <2>4 DEF ConnectFails, SessionStarts, brokerVars
  <2>5. ASSUME NEW heard \in BOOLEAN, NEW announced \in BOOLEAN,
               Connects(heard, announced)
        PROVE  MqttInv'
    BY <2>5 DEF Connects, SessionStarts
  <2> QED
    BY <1>7, <2>1, <2>2, <2>3, <2>4, <2>5 DEF EnsureConnected
<1>8. CASE Loop
  <2>1. CASE LoopFindsLoss
    BY <2>1 DEF LoopFindsLoss, brokerVars
  <2>2. CASE LoopGoesOn
    BY <2>2 DEF LoopGoesOn, brokerVars
  <2> QED
    BY <1>8, <2>1, <2>2 DEF Loop
<1>9. CASE Disconnects
  <2> PICK delivered \in 0..2 :
          SwitchDisconnects(delivered) \/ CommandDisconnects(delivered)
    BY <1>9 DEF Disconnects
  <2>1. Disconnect(delivered) /\ wifi' \in BOOLEAN
    BY DEF SwitchDisconnects, CommandDisconnects
  <2> QED
    BY <2>1, DisconnectKeepsInv
<1>10. CASE UNCHANGED mqttVars
  BY <1>10 DEF mqttVars, clientVars, brokerVars
<1> QED
  BY <1>1, <1>2, <1>3, <1>4, <1>5, <1>6, <1>7, <1>8, <1>9, <1>10 DEF MqttNext

\* The invariant holds throughout.
LEMMA MqttInvAlways == MqttSpec => []MqttInv
  BY MqttInvInit, MqttInvStep, PTL DEF MqttSpec

\* The client's and the broker's variables keep their types.
THEOREM SessionTypes == MqttSpec => []TypeOK
<1>1. MqttInv => TypeOK
  BY DEF MqttInv
<1> QED
  BY <1>1, MqttInvAlways, PTL

\* A session ends with "online" still retained only if disconnect() ran on an
\* open transport while connected_ was cleared.
LEMMA EndIsAnnounced ==
  ASSUME MqttInv, [MqttNext]_mqttVars,
         session, ~session', presence' = "online"
  PROVE  transport /\ ~connected
<1> USE DEF MqttInv, TypeOK, SessionHasWill
<1>1. CASE BrokerGivesUp
  BY <1>1 DEF BrokerGivesUp, SessionEnds
<1>2. CASE Disconnects
  <2> PICK delivered \in 0..2 : Disconnect(delivered)
    BY <1>2 DEF Disconnects, SwitchDisconnects, CommandDisconnects
  <2> DEFINE reached == IF transport /\ wifi /\ session THEN delivered ELSE 0
             bye == reached >= IF Connected THEN 2 ELSE 1
  <2>1. session' = (session /\ ~bye)
    BY DEF Disconnect
  <2>2. presence' = IF Connected /\ reached >= 1 THEN "offline" ELSE presence
    BY DEF Disconnect
  <2>3. bye
    BY <2>1
  <2>4. reached >= 1
    BY <2>3
  <2>5. transport
    BY <2>4
  <2>6. ~Connected
    BY <2>2, <2>4
  <2> QED
    BY <2>5, <2>6 DEF Connected
<1>3. CASE UNCHANGED brokerVars
  BY <1>3 DEF brokerVars
<1>4. CASE EnsureConnected
  BY <1>4 DEF EnsureConnected, EnsureWifiDown, EnsureSession, EnsureNotDue,
              ConnectFails, Connects, SessionStarts, brokerVars
<1>5. WifiChanges \/ ClientRestarts \/ TransportDies \/ RetryComesDue
      \/ ClockWraps \/ Loop \/ UNCHANGED mqttVars => UNCHANGED brokerVars
  BY DEF WifiChanges, ClientRestarts, TransportDies, RetryComesDue, ClockWraps,
         Loop, LoopFindsLoss, LoopGoesOn, mqttVars
<1> QED
  BY <1>1, <1>2, <1>3, <1>4, <1>5 DEF MqttNext

\* The broker forgets the device and still shows it "online" in that case only.
THEOREM OnlineIsWithdrawn == MqttSpec => OnlineOutlivesSessionOnlyBySkip
<1> DEFINE Announced == session /\ ~session' /\ presence' = "online" => transport /\ ~connected
<1>1. MqttInv /\ [MqttNext]_mqttVars => [Announced]_mqttVars
  BY EndIsAnnounced
<1> QED
  BY <1>1, MqttInvAlways, PTL DEF MqttSpec, OnlineOutlivesSessionOnlyBySkip

(***************************************************************************)
(* The controller keeps to the client's protocol.                          *)
(***************************************************************************)
\* Taking the station down or bringing it up is Wi-Fi changing, or nothing.
LEMMA StationChanges ==
  ASSUME wifi \in BOOLEAN, wifi' \in BOOLEAN, UNCHANGED <<clientVars, brokerVars>>
  PROVE  [MqttNext]_mqttVars
<1>1. wifi' = ~wifi \/ wifi' = wifi
  OBVIOUS
<1>2. CASE wifi' = ~wifi
  BY <1>2 DEF WifiChanges, MqttNext
<1>3. CASE wifi' = wifi
  BY <1>3 DEF mqttVars
<1> QED
  BY <1>1, <1>2, <1>3

\* Leaving the broker is one of the session's disconnects, whoever asks for it.
LEMMA LeavesBroker ==
  ASSUME NEW delivered \in 0..2,
         SwitchDisconnects(delivered) \/ CommandDisconnects(delivered)
  PROVE  MqttNext
  BY DEF Disconnects, MqttNext

\* Every step of the turn and of its surroundings is a step of the session.
LEMMA StepOfSession ==
  ASSUME wifi \in BOOLEAN, [Next]_vars
  PROVE  [MqttNext]_mqttVars
<1>1. CASE PowerFails
  BY <1>1 DEF PowerFails, MqttNext
<1>2. CASE StartsUp
  BY <1>2 DEF StartsUp, Starts, MqttNext
<1>3. CASE MainTask
  <2>1. BootEnds \/ NoCredentialsPending \/ SamplesEdge \/ NoRequest \/ RequestJoinFails
        \/ ShowsState \/ PublishesLogs \/ EndsTurn => UNCHANGED mqttVars
    BY DEF BootEnds, NoCredentialsPending, SamplesEdge, NoRequest, RequestJoinFails,
           ShowsState, PublishesLogs, EndsTurn
  <2>2. CASE JoinFails
    BY <2>2, StationChanges DEF JoinFails
  <2>3. ASSUME NEW up \in BOOLEAN, JoinWorks(up) PROVE [MqttNext]_mqttVars
    BY <2>3, StationChanges DEF JoinWorks
  <2>4. ASSUME NEW next \in {"Connected", "Connecting", "Disconnected"}, NetworkTicks(next)
        PROVE  UNCHANGED mqttVars
    BY <2>4 DEF NetworkTicks
  <2>5. CASE Polls
    BY <2>5 DEF Polls, MqttNext
  <2>6. CASE RequestJoins
    BY <2>6, StationChanges DEF RequestJoins
  <2>7. ASSUME NEW delivered \in 0..2, RequestLeavesBroker(delivered)
        PROVE  MqttNext
    BY <2>7, LeavesBroker DEF RequestLeavesBroker
  <2> QED
    BY <1>3, <2>1, <2>2, <2>3, <2>4, <2>5, <2>6, <2>7 DEF MainTask
<1>4. CASE Requests
  <2>1. ASSUME NEW delivered \in 0..2, TakesCredentials(delivered) PROVE MqttNext
    BY <2>1, LeavesBroker DEF TakesCredentials
  <2>2. CASE ReceivesRows \/ ReceivesBlank
    BY <2>2 DEF ReceivesRows, ReceivesBlank, Loop, MqttNext
  <2>3. ASSUME NEW delivered \in 0..2, ReceivesDisconnect(delivered) PROVE MqttNext
    BY <2>3, LeavesBroker DEF ReceivesDisconnect
  <2>4. ASSUME NEW delivered \in 0..2, ReceivesFactoryReset(delivered) PROVE MqttNext
    BY <2>4, LeavesBroker DEF ReceivesFactoryReset
  <2>5. CASE RequestResetsStation
    BY <2>5, StationChanges DEF RequestResetsStation
  <2> QED
    BY <1>4, <2>1, <2>2, <2>3, <2>4, <2>5 DEF Requests
<1>5. CASE SessionsChange
  BY <1>5 DEF SessionsChange, MqttNext
<1>6. CASE GraceEnds
  BY <1>6 DEF GraceEnds
<1>7. CASE UNCHANGED vars
  BY <1>7 DEF vars
<1> QED
  BY <1>1, <1>2, <1>3, <1>4, <1>5, <1>6, <1>7 DEF Next

\* What the session proofs need holds of the controller too.
LEMMA SessionInvAlways == Spec => []MqttInv
<1>1. Init => MqttInv
  BY MqttInvInit DEF Init
<1>2. MqttInv /\ [Next]_vars => MqttInv'
  BY StepOfSession, MqttInvStep DEF MqttInv, TypeOK
<1> QED
  BY <1>1, <1>2, PTL DEF Spec

\* DeviceController::tick(), its commands and /connect use the client only in
\* ways MqttSession allows: RefinesMqttSession, for every behaviour.
THEOREM ControllerKeepsProtocol == Spec => RefinesMqttSession
<1>1. Init => MqttInit
  BY DEF Init
<1>2. MqttInv /\ [Next]_vars => [MqttNext]_mqttVars
  BY StepOfSession DEF MqttInv, TypeOK
<1> QED
  BY <1>1, <1>2, SessionInvAlways, PTL DEF Spec, RefinesMqttSession, MqttSpec

\* So with all joins, commands and requests around it, the client still leaves
\* a retained "online" behind only when disconnect() skips the publish.
THEOREM ControllerWithdrawsOnline == Spec => OnlineOutlivesSessionOnlyBySkip
  BY ControllerKeepsProtocol, OnlineIsWithdrawn DEF RefinesMqttSession

(***************************************************************************)
(* Rows after a recorded loss.                                             *)
(***************************************************************************)
\* Between a recorded loss and new rows nothing calls the old rows fresh, and
\* what tick() then shows is not called live.
RowsInv ==
    /\ owed => ~fresh
    /\ step \in {"logs", "end"} /\ owed => ui # "transit"

\* update_ui_state() calls rows live only when they are fresh.
LEMMA LiveRowsAreFresh ==
  ASSUME NEW shown, NEW hasData, NEW live, NEW up, NEW mqttUp, NEW inGrace, NEW willRetry,
         ~live
  PROVE  ShownUi(shown, hasData, live, up, mqttUp, inGrace, willRetry) # "transit"
  BY DEF ShownUi

\* A change of the network's state may end freshness and never begins it.
LEMMA ReportsKeepStale ==
  ASSUME ~fresh, NetworkReports(fresh)
  PROVE  ~fresh'
  BY DEF NetworkReports

\* Each part of the turn keeps what is owed from looking fresh.
LEMMA RowsStep == RowsInv /\ [Next]_vars => RowsInv'
<1> SUFFICES ASSUME RowsInv, [Next]_vars PROVE RowsInv'
  OBVIOUS
<1> USE DEF RowsInv
<1>1. CASE PowerFails \/ StartsUp
  BY <1>1 DEF PowerFails, StartsUp, Starts
<1>2. CASE MainTask
  <2>1. CASE BootEnds \/ NoCredentialsPending \/ JoinFails \/ NoRequest \/ RequestJoinFails
             \/ RequestJoins \/ EndsTurn
    BY <1>2, <2>1 DEF BootEnds, NoCredentialsPending, JoinFails, NoRequest, RequestJoinFails,
                      RequestJoins, EndsTurn, viewVars
  <2>2. ASSUME NEW up \in BOOLEAN, JoinWorks(up) PROVE RowsInv'
    BY <2>2, ReportsKeepStale DEF JoinWorks, SetsCredentials
  <2>3. ASSUME NEW next \in {"Connected", "Connecting", "Disconnected"}, NetworkTicks(next)
        PROVE  RowsInv'
    BY <2>3, ReportsKeepStale DEF NetworkTicks
  <2>4. CASE Polls
    BY <2>4 DEF Polls, AfterPoll, viewVars
  <2>5. CASE SamplesEdge
    BY <2>5 DEF SamplesEdge
  <2>6. ASSUME NEW delivered \in 0..2, RequestLeavesBroker(delivered) PROVE RowsInv'
    BY <2>6, ReportsKeepStale DEF RequestLeavesBroker, SetsCredentials
  <2>7. CASE ShowsState
    BY <2>7, LiveRowsAreFresh DEF ShowsState, UpdatesUi
  <2>8. CASE PublishesLogs
    BY <2>8 DEF PublishesLogs, viewVars
  <2> QED
    BY <1>2, <2>1, <2>2, <2>3, <2>4, <2>5, <2>6, <2>7, <2>8 DEF MainTask
<1>3. CASE Requests
  <2>1. ASSUME NEW delivered \in 0..2,
               TakesCredentials(delivered) \/ ReceivesFactoryReset(delivered)
        PROVE  RowsInv'
    BY <2>1 DEF TakesCredentials, ReceivesFactoryReset, viewVars
  <2>2. CASE ReceivesRows \/ ReceivesBlank
    BY <2>2 DEF ReceivesRows, ReceivesBlank, AfterPoll
  <2>3. ASSUME NEW delivered \in 0..2, ReceivesDisconnect(delivered) PROVE RowsInv'
    BY <2>3, LiveRowsAreFresh DEF ReceivesDisconnect, UpdatesUi
  <2>4. CASE RequestResetsStation
    BY <2>4 DEF RequestResetsStation, viewVars
  <2> QED
    BY <1>3, <2>1, <2>2, <2>3, <2>4 DEF Requests
<1>4. CASE SessionsChange \/ GraceEnds \/ UNCHANGED vars
  BY <1>4 DEF SessionsChange, GraceEnds, vars, viewVars
<1> QED
  BY <1>1, <1>2, <1>3, <1>4 DEF Next

\* Rows are not called live after a recorded loss until new rows came.
THEOREM LossNeedsNewRows == Spec => []RecordedLossNeedsNewRows
<1>1. Init => RowsInv
  BY DEF Init, RowsInv
<1>2. RowsInv => RecordedLossNeedsNewRows
  BY DEF RowsInv, RecordedLossNeedsNewRows
<1> QED
  BY <1>1, <1>2, RowsStep, PTL DEF Spec

(***************************************************************************)
(* The logs owed to the server.                                            *)
(***************************************************************************)
\* The parts of the turn between the sample of the session and its use.
AfterSample == {"http", "switch", "leave", "ui", "logs"}

Owing == lossLog \/ crashLog \/ ~bootLog

\* While the session counts as connected, what is owed is being drained; once
\* the session was sampled, this speaks of the sample too, since a loss found
\* in this turn is drained by the next session.
LogsInv ==
    /\ bootLog => ~crashLog
    /\ step # "off" /\ last /\ Owing /\ (step \in AfterSample => sampled) => draining
    /\ bootLog \in BOOLEAN

\* Parts of the turn that do not touch the logs and lead to none of the parts
\* after the sample, or from one of those to another.
LEMMA LogsUntouched ==
  ASSUME LogsInv, UNCHANGED <<sampled, last, lossLog, crashLog, bootLog, draining>>,
         step' # "off", step # "off",
         step \in AfterSample <=> step' \in AfterSample
  PROVE  LogsInv'
  BY DEF LogsInv, Owing, AfterSample

\* The drain takes the crash before the boot, and forgets nothing.
LEMMA DrainKeepsLogs ==
  ASSUME LogsInv, PublishesLogs
  PROVE  LogsInv'
<1> DEFINE drain == sampled /\ ((sampled /\ ~last) \/ draining)
<1>1. /\ step = "logs" /\ step' = "end" /\ last' = sampled
      /\ Drains(drain)
  BY DEF PublishesLogs
<1>2. sampled /\ ~drain => ~Owing
  BY <1>1 DEF LogsInv, AfterSample
<1>3. bootLog' => ~crashLog'
  BY <1>1 DEF Drains, LogsInv
<1>4. sampled /\ Owing' => draining'
  BY <1>1, <1>2 DEF Drains, Owing, LogsInv
<1>5. bootLog' \in BOOLEAN
  BY <1>1 DEF Drains, LogsInv
<1> QED
  BY <1>1, <1>3, <1>4, <1>5 DEF LogsInv, AfterSample

\* Every step keeps it.
LEMMA LogsStep == LogsInv /\ [Next]_vars => LogsInv'
<1> SUFFICES ASSUME LogsInv, [Next]_vars PROVE LogsInv'
  OBVIOUS
<1>1. CASE PowerFails \/ StartsUp
  BY <1>1 DEF PowerFails, StartsUp, Starts, LogsInv, Owing, AfterSample
<1>2. CASE MainTask
  <2>1. CASE BootEnds \/ NoCredentialsPending \/ JoinFails \/ NoRequest \/ RequestJoinFails
             \/ RequestJoins \/ EndsTurn \/ ShowsState
    BY <2>1, LogsUntouched
       DEF BootEnds, NoCredentialsPending, JoinFails, NoRequest, RequestJoinFails,
           RequestJoins, EndsTurn, ShowsState, edgeVars, logVars, AfterSample
  <2>2. ASSUME NEW up \in BOOLEAN, JoinWorks(up) PROVE LogsInv'
    BY <2>2, LogsUntouched DEF JoinWorks, SetsCredentials, edgeVars, AfterSample
  <2>3. ASSUME NEW next \in {"Connected", "Connecting", "Disconnected"}, NetworkTicks(next)
        PROVE  LogsInv'
    BY <2>3, LogsUntouched DEF NetworkTicks, edgeVars, AfterSample
  <2>4. CASE Polls
    BY <2>4 DEF Polls, Polling, AfterPoll, edgeVars, logVars, LogsInv, Owing, AfterSample
  <2>5. CASE SamplesEdge
    BY <2>5 DEF SamplesEdge, LogsInv, Owing, AfterSample
  <2>6. ASSUME NEW delivered \in 0..2, RequestLeavesBroker(delivered) PROVE LogsInv'
    BY <2>6, LogsUntouched DEF RequestLeavesBroker, SetsCredentials, edgeVars, AfterSample
  <2>7. CASE PublishesLogs
    BY <2>7, DrainKeepsLogs
  <2> QED
    BY <1>2, <2>1, <2>2, <2>3, <2>4, <2>5, <2>6, <2>7 DEF MainTask
<1>3. CASE Requests
  <2>1. ASSUME NEW delivered \in 0..2, TakesCredentials(delivered) PROVE LogsInv'
    BY <2>1, LogsUntouched DEF TakesCredentials, edgeVars, logVars, AfterSample
  <2>2. CASE ReceivesRows \/ ReceivesBlank
    BY <2>2, LogsUntouched DEF ReceivesRows, ReceivesBlank, Polling, AfterPoll, edgeVars,
                               logVars, AfterSample
  <2>3. ASSUME NEW delivered \in 0..2, ReceivesDisconnect(delivered) PROVE LogsInv'
    BY <2>3, LogsUntouched DEF ReceivesDisconnect, Polling, AfterPoll, edgeVars, AfterSample
  <2>4. ASSUME NEW delivered \in 0..2, ReceivesFactoryReset(delivered) PROVE LogsInv'
    BY <2>4 DEF ReceivesFactoryReset, edgeVars, logVars, LogsInv, Owing, AfterSample
  <2>5. CASE RequestResetsStation
    BY <2>5, LogsUntouched DEF RequestResetsStation, edgeVars, logVars, AfterSample
  <2> QED
    BY <1>3, <2>1, <2>2, <2>3, <2>4, <2>5 DEF Requests
<1>4. CASE SessionsChange \/ GraceEnds \/ UNCHANGED vars
  BY <1>4 DEF SessionsChange, GraceEnds, vars, edgeVars, logVars, LogsInv, Owing, AfterSample
<1> QED
  BY <1>1, <1>2, <1>3, <1>4 DEF Next

\* Before power comes nothing is owed to anybody.
LEMMA LogsAlways == Spec => []LogsInv
<1>1. Init => LogsInv
  BY DEF Init, LogsInv
<1> QED
  BY <1>1, LogsStep, PTL DEF Spec

\* A crash is reported before the boot that followed it.
THEOREM CrashComesFirst == Spec => []CrashReportedBeforeBoot
<1>1. LogsInv => CrashReportedBeforeBoot
  BY DEF LogsInv, CrashReportedBeforeBoot
<1> QED
  BY <1>1, LogsAlways, PTL

\* No log is forgotten while the session counts as connected.
THEOREM NoLogForgotten == Spec => []OwedLogsAreDraining
<1>1. LogsInv => OwedLogsAreDraining
  BY DEF LogsInv, OwedLogsAreDraining, Owing, AfterSample
<1> QED
  BY <1>1, LogsAlways, PTL

(***************************************************************************)
(* The update.                                                             *)
(***************************************************************************)
\* What was read of an undisturbed body is the image as far as it goes.
UndisturbedInv ==
    ~disturbed =>
        /\ ~garbled
        /\ download # "lost"
        /\ download \in {"size", "data", "trailer"} => open
        /\ download \in {"size", "trailer"} => remaining = 0
        /\ download = "end" => written = ImageBlocks

OtaInv ==
    /\ OtaTypeOK
    /\ written + remaining <= ImageBlocks
    /\ download \in {"none", "length"} => written = 0 /\ remaining = 0 /\ ~garbled /\ ~disturbed
    /\ UndisturbedInv

\* An idle board has no download.
LEMMA OtaInvInit == OtaInit => OtaInv
<1> SUFFICES ASSUME OtaInit PROVE OtaInv
  OBVIOUS
<1>1. 0 \in 0..ImageBlocks /\ 0 + 0 <= ImageBlocks
  BY OtaAssumption
<1>2. OtaTypeOK
  BY <1>1 DEF OtaInit, OtaTypeOK, Steps
<1>3. written + remaining <= ImageBlocks
  BY <1>1 DEF OtaInit
<1>4. download \in {"none", "length"} => written = 0 /\ remaining = 0 /\ ~garbled /\ ~disturbed
  BY DEF OtaInit
<1>5. UndisturbedInv
  BY DEF OtaInit, UndisturbedInv
<1> QED
  BY <1>2, <1>3, <1>4, <1>5 DEF OtaInv

\* Part of an image fits where the image does.
LEMMA PartIsShorter ==
    \A part \in 0..(ImageBlocks - 1) : part \in 0..ImageBlocks /\ part + 0 <= ImageBlocks
BY OtaAssumption

\* Every way an update starts, goes on and is disturbed keeps the invariant.
LEMMA OtaInvStep == OtaInv /\ [OtaNext]_otaVars => OtaInv'
<1> SUFFICES ASSUME OtaInv, [OtaNext]_otaVars PROVE OtaInv'
  OBVIOUS
<1> USE OtaAssumption DEF OtaInv, OtaTypeOK, Steps, UndisturbedInv
<1>1. CASE OtaStarts
  <2>1. ASSUME NEW firstStep \in {"length", "size"}, UpdateStarts(firstStep)
        PROVE  OtaInv'
    BY <2>1 DEF UpdateStarts
  <2>2. CASE UnframedStarts
    BY <2>2 DEF UnframedStarts
  <2>3. CASE UpdateRefused
    BY <2>3 DEF UpdateRefused, otaVars
  <2> QED
    BY <1>1, <2>1, <2>2, <2>3 DEF OtaStarts
<1>2. CASE ReadsByLength
  <2>1. /\ download' = "end"
        /\ UNCHANGED <<open, remaining, garbled, image>>
        /\ download = "length"
    BY <1>2 DEF ReadsByLength
  <2>2. CASE written' = ImageBlocks /\ UNCHANGED disturbed
    BY <2>1, <2>2
  <2>3. CASE disturbed' = TRUE /\ written' \in 0..(ImageBlocks - 1)
    <3>1. remaining' = 0 /\ garbled' = FALSE
      BY <2>1
    <3>2. written' \in 0..ImageBlocks /\ written' + remaining' <= ImageBlocks
      BY <2>3, <3>1, PartIsShorter
    <3>3. OtaTypeOK'
      BY <2>1, <2>3, <3>2
    <3>4. UndisturbedInv'
      BY <2>3
    <3>5. download' \notin {"none", "length"}
      BY <2>1
    <3> QED
      BY <3>2, <3>3, <3>4, <3>5
  <2> QED
    BY <1>2, <2>2, <2>3 DEF ReadsByLength
<1>3. ASSUME NEW k \in Blocks, ReadsSize(k)
      PROVE  OtaInv'
  BY <1>3 DEF Blocks, ReadsSize, Unread
<1>4. CASE ReadsLastSize
  BY <1>4 DEF ReadsLastSize, Unread
<1>5. CASE FindsClosed
  BY <1>5 DEF FindsClosed
<1>6. ASSUME NEW got \in Blocks, ReadsData(got)
      PROVE  OtaInv'
  <2>1. got \in Nat /\ got <= remaining
    BY <1>6 DEF Blocks, ReadsData
  <2>2. written' = written + got /\ remaining' = remaining - got
    BY <1>6 DEF ReadsData
  <2>3. download' = (IF remaining' = 0 THEN "trailer" ELSE "data") /\ download = "data"
    BY <1>6 DEF ReadsData
  <2>4. UNCHANGED <<open, garbled, image, disturbed>>
    BY <1>6 DEF ReadsData
  <2> QED
    BY <2>1, <2>2, <2>3, <2>4
<1>7. CASE DataIsGone \/ ReadsTrailer
  BY <1>7 DEF DataIsGone, ReadsTrailer
<1>8. CASE UpdateSucceeds
  BY <1>8 DEF UpdateSucceeds
<1>9. CASE UpdateFails \/ OtaStops
  <2>1. 0 \in 0..ImageBlocks /\ 0 + 0 <= ImageBlocks
    OBVIOUS
  <2>2. NoDownload /\ image' \in {"old", "new"}
    BY <1>9 DEF UpdateFails, OtaStops
  <2>3. OtaTypeOK'
    BY <2>1, <2>2 DEF NoDownload
  <2>4. written' + remaining' <= ImageBlocks
    BY <2>1, <2>2 DEF NoDownload
  <2>5. download' \in {"none", "length"} => written' = 0 /\ remaining' = 0 /\ ~garbled' /\ ~disturbed'
    BY <2>2 DEF NoDownload
  <2>6. UndisturbedInv'
    BY <2>2 DEF NoDownload
  <2> QED
    BY <2>3, <2>4, <2>5, <2>6
<1>10. CASE SizeIsLate \/ SizeIsTorn \/ DataIsLate \/ ServerCloses
  <2>1. CASE SizeIsLate
    BY <2>1 DEF SizeIsLate, otaVars
  <2>2. CASE SizeIsTorn
    BY <2>2 DEF SizeIsTorn
  <2>3. CASE DataIsLate
    BY <2>3 DEF DataIsLate
  <2>4. CASE ServerCloses
    BY <2>4 DEF ServerCloses
  <2> QED
    BY <1>10, <2>1, <2>2, <2>3, <2>4
<1>11. CASE LostGoesOn
  BY <1>11 DEF LostGoesOn
<1>12. CASE UNCHANGED otaVars
  BY <1>12 DEF otaVars
<1> QED
  BY <1>1, <1>2, <1>3, <1>4, <1>5, <1>6, <1>7, <1>8, <1>9, <1>10, <1>11, <1>12
  DEF OtaNext, Transfers, Disturbs

\* The decoder's invariant holds throughout.
LEMMA UpdatesAlways == OtaSpec => []OtaInv
BY OtaInvInit, OtaInvStep, PTL DEF OtaSpec

\* perform_ota_update(): no chunking and no short read spoils a whole body.
LEMMA UpdatesDecode == OtaSpec => []WholeBodyInstalls
<1>1. OtaInv => WholeBodyInstalls
  BY DEF OtaInv, UndisturbedInv, WholeBodyInstalls, Verifies
<1> QED
  BY <1>1, UpdatesAlways, PTL

(***************************************************************************)
(* The composition.                                                        *)
(***************************************************************************)
\* Whatever else the main task does, an update only takes its own steps.
LEMMA TaskStepOfOta == [TaskNext]_taskVars => [OtaNext]_otaVars
<1> SUFFICES ASSUME [TaskNext]_taskVars PROVE [OtaNext]_otaVars
  OBVIOUS
<1>1. CASE NetworkGoesOn \/ PhoneGoesOn \/ ListenerStarts
  BY <1>1 DEF NetworkGoesOn, PhoneGoesOn, ListenerStarts, otaVars
<1>2. CASE ServerGoesOn
  BY <1>2 DEF ServerGoesOn, OtaNext, Disturbs
<1>3. CASE SessionStep(EnsureConnected) \/ SessionStep(Loop) \/ SessionStep(Disconnects)
  BY <1>3 DEF SessionStep
<1>4. CASE TickScans(TickFindsRequest) \/ TickScans(ScanGoesOn)
  BY <1>4 DEF TickScans
<1>5. CASE CommandUpdates
  BY <1>5 DEF CommandUpdates, OtaNext
<1>6. CASE UpdateGoesOn
  BY <1>6 DEF UpdateGoesOn, OtaNext, Disturbs
<1>7. CASE Restarts
  BY <1>7 DEF Restarts, OtaNext
<1>8. CASE UNCHANGED taskVars
  BY <1>8 DEF taskVars
<1> QED
  BY <1>1, <1>2, <1>3, <1>4, <1>5, <1>6, <1>7, <1>8 DEF TaskNext

\* A scan or an update delays the steps of the session and adds none.
LEMMA TaskStepOfMqtt == [TaskNext]_taskVars => [MqttNext]_mqttVars
<1> SUFFICES ASSUME [TaskNext]_taskVars PROVE [MqttNext]_mqttVars
  OBVIOUS
<1>1. CASE NetworkGoesOn
  BY <1>1 DEF NetworkGoesOn, MqttNext
<1>2. CASE PhoneGoesOn \/ ServerGoesOn \/ ListenerStarts
  BY <1>2 DEF PhoneGoesOn, ServerGoesOn, ListenerStarts
<1>3. CASE SessionStep(EnsureConnected) \/ SessionStep(Loop) \/ SessionStep(Disconnects)
  BY <1>3 DEF SessionStep, MqttNext
<1>4. CASE TickScans(TickFindsRequest) \/ TickScans(ScanGoesOn)
  BY <1>4 DEF TickScans
<1>5. CASE CommandUpdates \/ UpdateGoesOn
  BY <1>5 DEF CommandUpdates, UpdateGoesOn
<1>6. CASE Restarts
  BY <1>6 DEF Restarts, MqttNext
<1>7. CASE UNCHANGED taskVars
  BY <1>7 DEF taskVars
<1> QED
  BY <1>1, <1>2, <1>3, <1>4, <1>5, <1>6, <1>7 DEF TaskNext

\* The main task implements its parts: theorems about the client and about an
\* update are theorems about the task that runs both.
THEOREM TaskImplementsParts == TaskSpec => MqttSpec /\ OtaSpec
<1>1. TaskInit => MqttInit /\ OtaInit
  BY DEF TaskInit
<1>2. [TaskNext]_taskVars => [MqttNext]_mqttVars
  BY TaskStepOfMqtt
<1>3. [TaskNext]_taskVars => [OtaNext]_otaVars
  BY TaskStepOfOta
<1> QED
  BY <1>1, <1>2, <1>3, PTL DEF TaskSpec, MqttSpec, OtaSpec

\* perform_ota_update() in the callback of loop(): an update that ends without
\* an image was disturbed, for every length of image and buffer.
THEOREM TaskInstallsWholeBody == TaskSpec => []WholeBodyInstalls
BY TaskImplementsParts, UpdatesDecode

\* disconnect() in any turn of the task, updates and scans included.
THEOREM TaskWithdrawsOnline == TaskSpec => OnlineOutlivesSessionOnlyBySkip
BY TaskImplementsParts, OnlineIsWithdrawn

(***************************************************************************)
(* The scan.  First what recursive functions compute, by induction over    *)
(* the numbers of a set: an operator cannot be a parameter of a lemma, and *)
(* a set can.                                                              *)
(***************************************************************************)
\* A set with zero, and with every number after one of its numbers, has them all.
LEMMA NumbersByInduction ==
  ASSUME NEW T, 0 \in T, \A n \in Nat : n \in T => n + 1 \in T
  PROVE  Nat \subseteq T
<1> SUFFICES ASSUME NEW n0 \in Nat, n0 \notin T
             PROVE  FALSE
  OBVIOUS
<1> DEFINE Missing == Nat \ T
           Less == OpToRel(<, Nat)
<1>1. PICK least \in Missing : \A n \in Missing : ~(<<n, least>> \in Less)
  BY NatLessThanWellFounded, WFMin
<1>2. least \in Nat /\ least # 0 /\ least \notin T
  BY <1>1
<1>3. least - 1 \in Missing
  BY <1>2
<1>4. <<least - 1, least>> \in Less
  BY <1>2, <1>3 DEF OpToRel
<1> QED
  BY <1>1, <1>3, <1>4

\* The values a function runs through, from `first` and each from the one before.
Runs(f, A, first, advance, n) ==
    /\ f \in [0..n -> A]
    /\ \A i \in 0..n : f[i] = IF i = 0 THEN first ELSE advance[<<f[i - 1], i>>]

\* Every step that is a function has such a run.
LEMMA StepByStep ==
  ASSUME NEW A, NEW first \in A, NEW advance \in [A \X Nat -> A], NEW n \in Nat
  PROVE  \E f : Runs(f, A, first, advance, n)
<1> DEFINE Follows(f, m) == \A i \in 0..m : f[i] = IF i = 0 THEN first ELSE advance[<<f[i - 1], i>>]
           T == {m \in Nat : \E f \in [0..m -> A] : Follows(f, m)}
<1>1. 0 \in T
  <2> DEFINE f == [i \in 0..0 |-> first]
  <2>1. f \in [0..0 -> A] /\ Follows(f, 0)
    OBVIOUS
  <2> QED
    BY <2>1
<1>2. ASSUME NEW m \in Nat, m \in T
      PROVE  m + 1 \in T
  <2>1. PICK f \in [0..m -> A] : Follows(f, m)
    BY <1>2
  <2> DEFINE upper == advance[<<f[m], m + 1>>]
             g == [i \in 0..(m + 1) |-> IF i = m + 1 THEN upper ELSE f[i]]
  <2>2. upper \in A
    <3>1. f[m] \in A /\ m + 1 \in Nat
      OBVIOUS
    <3> QED
      BY <3>1
  <2>3. g \in [0..(m + 1) -> A]
    <3> HIDE DEF upper
    <3> QED
      BY <2>2
  <2>4. ASSUME NEW i \in 0..(m + 1)
        PROVE  g[i] = IF i = 0 THEN first ELSE advance[<<g[i - 1], i>>]
    <3>1. CASE i = 0
      <4>1. 0 \in 0..m /\ 0 \in 0..(m + 1) /\ 0 # m + 1
        OBVIOUS
      <4>2. g[0] = f[0] /\ f[0] = first
        <5>1. g[0] = f[0]
          BY <4>1
        <5>2. f[0] = first
          BY <2>1, <4>1
        <5> QED
          BY <5>1, <5>2
      <4> HIDE DEF g
      <4> QED
        BY <3>1, <4>2
    <3>2. CASE i \in 1..m
      <4>1. i \in 0..m /\ i - 1 \in 0..(m + 1) /\ i - 1 # m + 1 /\ i # m + 1 /\ i # 0
        BY <3>2
      <4>2. g[i] = f[i] /\ g[i - 1] = f[i - 1]
        BY <4>1
      <4>3. f[i] = advance[<<f[i - 1], i>>]
        BY <2>1, <4>1
      <4> HIDE DEF g
      <4> QED
        BY <4>1, <4>2, <4>3
    <3>3. CASE i = m + 1
      <4>1. i - 1 = m /\ m \in 0..(m + 1) /\ m # m + 1 /\ i # 0
        BY <3>3
      <4>2. g[i] = upper /\ g[i - 1] = f[m]
        BY <3>3, <4>1
      <4> HIDE DEF g
      <4> QED
        BY <3>3, <4>1, <4>2
    <3> QED
      BY <3>1, <3>2, <3>3
  <2> HIDE DEF g
  <2>5. Follows(g, m + 1)
    BY <2>4
  <2> HIDE DEF Follows
  <2> QED
    BY <2>3, <2>5
<1>3. n \in T
  <2> HIDE DEF T
  <2> QED
    BY <1>1, <1>2, NumbersByInduction
<1> QED
  BY <1>3 DEF Runs

\* A function that goes on by the step as long as its values are in the range
\* runs through the range.
LEMMA FollowingRuns ==
  ASSUME NEW A, NEW first \in A, NEW advance \in [A \X Nat -> A], NEW n \in Nat,
         NEW f, f = [i \in 0..n |-> f[i]], f[0] = first,
         \A i \in 1..n : f[i - 1] \in A => f[i] = advance[<<f[i - 1], i>>]
  PROVE  Runs(f, A, first, advance, n)
<1> DEFINE T == {i \in Nat : i <= n => f[i] \in A}
<1>1. 0 \in T
  OBVIOUS
<1>2. ASSUME NEW i \in Nat, i \in T
      PROVE  i + 1 \in T
  <2>1. CASE i + 1 <= n
    <3>1. i + 1 \in 1..n /\ (i + 1) - 1 = i /\ f[i] \in A
      BY <1>2, <2>1
    <3>2. f[i + 1] = advance[<<f[i], i + 1>>]
      BY <3>1
    <3>3. f[i + 1] \in A
      BY <3>1, <3>2
    <3> QED
      BY <3>3
  <2>2. CASE ~(i + 1 <= n)
    BY <2>2
  <2> QED
    BY <2>1, <2>2
<1> HIDE DEF T
<1>3. Nat \subseteq T
  BY <1>1, <1>2, NumbersByInduction
<1>4. \A i \in 0..n : f[i] \in A
  BY <1>3 DEF T
<1>5. f \in [0..n -> A]
  BY <1>4
<1>6. ASSUME NEW i \in 0..n
      PROVE  f[i] = IF i = 0 THEN first ELSE advance[<<f[i - 1], i>>]
  <2>1. CASE i = 0
    BY <2>1
  <2>2. CASE i # 0
    <3>1. i \in 1..n /\ i - 1 \in 0..n
      BY <2>2
    <3> QED
      BY <1>4, <2>2, <3>1
  <2> QED
    BY <2>1, <2>2
<1> QED
  BY <1>5, <1>6 DEF Runs

\* Two runs agree as far as their steps do.
RunAlike(f, g, A, first, advance, other, n, m) ==
    /\ n \in Nat /\ m \in Nat /\ n <= m
    /\ Runs(f, A, first, advance, n)
    /\ Runs(g, A, first, other, m)
    /\ \A i \in 1..n, a \in A : advance[<<a, i>>] = other[<<a, i>>]

\* Alike runs have the same value after n steps.
LEMMA RunsAgree ==
  ASSUME NEW f, NEW g, NEW A, NEW first, NEW advance, NEW other, NEW n, NEW m,
         RunAlike(f, g, A, first, advance, other, n, m)
  PROVE  g[n] = f[n]
<1> USE DEF RunAlike
<1> DEFINE T == {i \in Nat : i <= n => g[i] = f[i]}
<1>1. 0 \in T
  <2>1. 0 \in 0..n /\ 0 \in 0..m
    OBVIOUS
  <2>2. f[0] = first /\ g[0] = first
    BY <2>1 DEF Runs
  <2> QED
    BY <2>2
<1>2. ASSUME NEW i \in Nat, i \in T
      PROVE  i + 1 \in T
  <2>1. CASE i + 1 <= n
    <3>1. /\ i + 1 \in 0..n /\ i + 1 \in 0..m /\ i + 1 \in 1..n /\ i + 1 # 0
          /\ (i + 1) - 1 = i /\ i \in 0..n /\ g[i] = f[i]
      BY <1>2, <2>1
    <3>2. f[i + 1] = advance[<<f[i], i + 1>>] /\ g[i + 1] = other[<<g[i], i + 1>>] /\ f[i] \in A
      BY <3>1 DEF Runs
    <3>3. g[i + 1] = f[i + 1]
      BY <3>1, <3>2
    <3> QED
      BY <3>3
  <2>2. CASE ~(i + 1 <= n)
    BY <2>2
  <2> QED
    BY <2>1, <2>2
<1> HIDE DEF T
<1>3. n \in T
  BY <1>1, <1>2, NumbersByInduction
<1> QED
  BY <1>3 DEF T

(***************************************************************************)
(* A list without some of its entries.                                     *)
(***************************************************************************)
\* One step of Without(): the next entry, or not.
WithoutStep(S, list, token) ==
    [pair \in Seq(S) \X Nat |->
        IF pair[2] \notin 1..Len(list) \/ list[pair[2]] = token THEN pair[1]
        ELSE Append(pair[1], list[pair[2]])]

IsWithoutStep(advance, S, list, token) ==
    /\ advance \in [Seq(S) \X Nat -> Seq(S)]
    /\ \A start \in Seq(S), i \in 1..Len(list) :
           advance[<<start, i>>] = IF list[i] = token THEN start ELSE Append(start, list[i])

\* The step stays among the lists.
LEMMA WithoutStepIs ==
  ASSUME NEW S, NEW list \in Seq(S), NEW token
  PROVE  IsWithoutStep(WithoutStep(S, list, token), S, list, token)
<1> DEFINE n == Len(list)
<1>1. n \in Nat /\ \A i \in 1..n : list[i] \in S
  OBVIOUS
<1> HIDE DEF n
<1> QED
  BY <1>1 DEF WithoutStep, IsWithoutStep, n

\* Without() is what the run of these steps ends with.
LEMMA WithoutRuns ==
  ASSUME NEW S, NEW list \in Seq(S), NEW token
  PROVE  \E f : /\ Runs(f, Seq(S), <<>>, WithoutStep(S, list, token), Len(list))
                /\ Without(list, token) = f[Len(list)]
<1> DEFINE n == Len(list)
           advance == WithoutStep(S, list, token)
           IsUpTo(f) == f = [i \in 0..n |-> IF i = 0 THEN <<>>
                                            ELSE IF list[i] = token THEN f[i - 1]
                                            ELSE Append(f[i - 1], list[i])]
           upTo == CHOOSE f : IsUpTo(f)
<1>1. n \in Nat
  OBVIOUS
<1>2. <<>> \in Seq(S)
  OBVIOUS
<1>3. /\ advance \in [Seq(S) \X Nat -> Seq(S)]
      /\ \A start \in Seq(S), i \in 1..n :
             advance[<<start, i>>] = IF list[i] = token THEN start ELSE Append(start, list[i])
  <2>1. IsWithoutStep(WithoutStep(S, list, token), S, list, token)
    BY WithoutStepIs, Zenon
  <2> QED
    BY <2>1 DEF IsWithoutStep
<1>4. Without(list, token) = upTo[n]
  BY DEF Without
<1> HIDE DEF n, advance
<1>5. \E f : IsUpTo(f)
  <2>1. PICK f : Runs(f, Seq(S), <<>>, advance, n)
    BY <1>1, <1>2, <1>3, StepByStep, Zenon
  <2>2. ASSUME NEW i \in 0..n
        PROVE  f[i] = IF i = 0 THEN <<>>
                      ELSE IF list[i] = token THEN f[i - 1] ELSE Append(f[i - 1], list[i])
    <3>1. CASE i = 0
      BY <2>1, <3>1 DEF Runs
    <3>2. CASE i # 0
      <4>1. i \in 1..n /\ i - 1 \in 0..n
        BY <1>1, <3>2
      <4>2. f[i] = advance[<<f[i - 1], i>>] /\ f[i - 1] \in Seq(S)
        BY <2>1, <3>2, <4>1 DEF Runs
      <4> QED
        BY <1>3, <3>2, <4>1, <4>2
    <3> QED
      BY <3>1, <3>2
  <2>3. f = [i \in 0..n |-> f[i]]
    BY <2>1 DEF Runs
  <2>4. IsUpTo(f)
    BY <2>2, <2>3
  <2> QED
    BY <2>4
<1>6. IsUpTo(upTo)
  <2> HIDE DEF IsUpTo
  <2> QED
    BY <1>5
<1> HIDE DEF upTo
<1>7. upTo = [i \in 0..n |-> upTo[i]] /\ upTo[0] = <<>>
  BY <1>1, <1>6
<1>8. ASSUME NEW i \in 1..n, upTo[i - 1] \in Seq(S)
      PROVE  upTo[i] = advance[<<upTo[i - 1], i>>]
  <2>1. i \in 0..n /\ i # 0
    BY <1>1
  <2>2. upTo[i] = IF list[i] = token THEN upTo[i - 1] ELSE Append(upTo[i - 1], list[i])
    BY <1>6, <2>1
  <2> QED
    BY <1>3, <1>8, <2>2
<1> HIDE DEF IsUpTo
<1>9. Runs(upTo, Seq(S), <<>>, advance, n)
  BY <1>1, <1>2, <1>3, <1>7, <1>8, FollowingRuns, Zenon
<1> QED
  BY <1>4, <1>9 DEF n, advance

\* One entry more is kept or left out.
LEMMA WithoutAppend ==
  ASSUME NEW S, NEW list \in Seq(S), NEW x \in S, NEW token
  PROVE  /\ Without(list, token) \in Seq(S)
         /\ x = token => Without(Append(list, x), token) = Without(list, token)
         /\ x # token => Without(Append(list, x), token) = Append(Without(list, token), x)
<1> DEFINE n == Len(list)
           longer == Append(list, x)
           advance == WithoutStep(S, list, token)
           other == WithoutStep(S, longer, token)
<1>1. /\ n \in Nat /\ Len(longer) = n + 1 /\ longer[n + 1] = x /\ longer \in Seq(S)
      /\ \A i \in 1..n : longer[i] = list[i]
  OBVIOUS
<1>2. <<>> \in Seq(S)
  OBVIOUS
<1> HIDE DEF longer
<1>3. \A start \in Seq(S), i \in 1..n :
          advance[<<start, i>>] = IF list[i] = token THEN start ELSE Append(start, list[i])
  <2>1. IsWithoutStep(WithoutStep(S, list, token), S, list, token)
    BY WithoutStepIs, Zenon
  <2> QED
    BY <2>1 DEF IsWithoutStep
<1>4. \A start \in Seq(S), i \in 1..(n + 1) :
          other[<<start, i>>] = IF longer[i] = token THEN start ELSE Append(start, longer[i])
  <2>1. longer \in Seq(S) /\ Len(longer) = n + 1
    BY <1>1
  <2>2. \A start \in Seq(S), i \in 1..Len(longer) :
            other[<<start, i>>] = IF longer[i] = token THEN start ELSE Append(start, longer[i])
    <3>1. IsWithoutStep(WithoutStep(S, longer, token), S, longer, token)
      BY <2>1, WithoutStepIs, Zenon
    <3> QED
      BY <3>1 DEF IsWithoutStep
  <2> QED
    BY <2>1, <2>2
<1>5. PICK f : Runs(f, Seq(S), <<>>, advance, n) /\ Without(list, token) = f[n]
  BY WithoutRuns
<1>6. PICK g : Runs(g, Seq(S), <<>>, other, n + 1) /\ Without(longer, token) = g[n + 1]
  BY <1>1, WithoutRuns
<1> HIDE DEF n, advance, other
<1>7. \A i \in 1..n, a \in Seq(S) : advance[<<a, i>>] = other[<<a, i>>]
  <2>1. \A i \in 1..n : i \in 1..(n + 1)
    BY <1>1
  <2> QED
    BY <1>1, <1>3, <1>4, <2>1
<1>8. g[n] = f[n]
  <2>1. n \in Nat /\ n + 1 \in Nat /\ n <= n + 1
    BY <1>1
  <2>2. Runs(f, Seq(S), <<>>, advance, n) /\ Runs(g, Seq(S), <<>>, other, n + 1)
    BY <1>5, <1>6
  <2> QED
    <3>1. RunAlike(f, g, Seq(S), <<>>, advance, other, n, n + 1)
      BY <1>7, <2>1, <2>2, Zenon DEF RunAlike
    <3> QED
      BY <3>1, RunsAgree
<1>9. f[n] \in Seq(S)
  BY <1>1, <1>5 DEF Runs
<1>10. g[n + 1] = IF x = token THEN g[n] ELSE Append(g[n], x)
  <2>1. n + 1 \in 0..(n + 1) /\ n + 1 # 0 /\ (n + 1) - 1 = n /\ n + 1 \in 1..(n + 1)
    BY <1>1
  <2>2. g[n + 1] = other[<<g[n], n + 1>>]
    BY <1>6, <2>1 DEF Runs
  <2> QED
    BY <1>1, <1>4, <1>8, <1>9, <2>1, <2>2
<1> QED
  BY <1>5, <1>6, <1>8, <1>9, <1>10 DEF longer

\* An empty list stays empty.
LEMMA WithoutNothing ==
  ASSUME NEW token
  PROVE  Without(<<>>, token) = <<>>
<1>1. <<>> \in Seq({}) /\ Len(<<>>) = 0
  OBVIOUS
<1>2. PICK f : /\ Runs(f, Seq({}), <<>>, WithoutStep({}, <<>>, token), Len(<<>>))
               /\ Without(<<>>, token) = f[Len(<<>>)]
  BY <1>1, WithoutRuns
<1> QED
  BY <1>1, <1>2 DEF Runs

\* An entry behind two lists is an entry behind the second.
AppendsToSecond(a, b, x) == Append(a \o b, x) = a \o Append(b, x)

\* This holds entry by entry.
LEMMA AppendToConcat ==
  ASSUME NEW S, NEW a \in Seq(S), NEW b \in Seq(S), NEW x \in S
  PROVE  AppendsToSecond(a, b, x)
<1> DEFINE n == Len(a)
           k == Len(b)
           left == Append(a \o b, x)
           longer == Append(b, x)
           right == a \o longer
<1>1. n \in Nat /\ k \in Nat
  OBVIOUS
<1>2. a \o b \in Seq(S) /\ Len(a \o b) = n + k
  BY ConcatProperties
<1>3. \A i \in 1..(n + k) : (a \o b)[i] = IF i <= n THEN a[i] ELSE b[i - n]
  BY ConcatProperties
<1>4. /\ left \in Seq(S) /\ Len(left) = n + k + 1 /\ left[n + k + 1] = x
      /\ \A i \in 1..(n + k) : left[i] = (a \o b)[i]
  BY <1>2, AppendProperties
<1>5. /\ longer \in Seq(S) /\ Len(longer) = k + 1 /\ longer[k + 1] = x
      /\ \A i \in 1..k : longer[i] = b[i]
  BY AppendProperties
<1> HIDE DEF longer
<1>6. /\ right \in Seq(S) /\ Len(right) = n + (k + 1)
      /\ \A i \in 1..(n + (k + 1)) : right[i] = IF i <= n THEN a[i] ELSE longer[i - n]
  <2>1. /\ a \o longer \in Seq(S)
        /\ Len(a \o longer) = Len(a) + Len(longer)
        /\ \A i \in 1..(Len(a) + Len(longer)) :
               (a \o longer)[i] = IF i <= Len(a) THEN a[i] ELSE longer[i - Len(a)]
    BY <1>5, ConcatProperties
  <2> QED
    BY <1>5, <2>1
<1> HIDE DEF n, k, left, right
<1>7. ASSUME NEW i \in 1..(n + k + 1)
      PROVE  left[i] = right[i]
  <2>1. CASE i <= n
    <3>1. i \in 1..(n + k) /\ i \in 1..(n + (k + 1))
      BY <1>1, <2>1
    <3> QED
      BY <1>3, <1>4, <1>6, <2>1, <3>1
  <2>2. CASE i > n /\ i <= n + k
    <3>1. i - n \in 1..k /\ i \in 1..(n + k) /\ ~(i <= n) /\ i \in 1..(n + (k + 1))
      BY <1>1, <2>2
    <3> QED
      BY <1>3, <1>4, <1>5, <1>6, <3>1
  <2>3. CASE i = n + k + 1
    <3>1. i - n = k + 1 /\ ~(i <= n) /\ i \in 1..(n + (k + 1))
      BY <1>1, <2>3
    <3> QED
      BY <1>4, <1>5, <1>6, <2>3, <3>1
  <2> QED
    BY <1>1, <2>1, <2>2, <2>3
<1>8. Len(left) = Len(right) /\ \A i \in 1..Len(left) : left[i] = right[i]
  BY <1>1, <1>4, <1>6, <1>7
<1>9. left = right
  BY <1>4, <1>6, <1>8, SeqEqual
<1> QED
  BY <1>9 DEF left, right, longer, AppendsToSecond

\* What is left of two lists one after the other.
LEMMA WithoutConcat ==
  ASSUME NEW S, NEW list \in Seq(S), NEW more \in Seq(S), NEW token
  PROVE  Without(list \o more, token) = Without(list, token) \o Without(more, token)
<1> DEFINE Splits(end) == Without(list \o end, token) = Without(list, token) \o Without(end, token)
           T == {n \in Nat : \A end \in Seq(S) : Len(end) = n => Splits(end)}
<1>1. 0 \in T
  <2>1. ASSUME NEW end \in Seq(S), Len(end) = 0
        PROVE  Splits(end)
    <3>1. end = <<>> /\ list \o <<>> = list
      BY <2>1
    <3>2. Without(list, token) \in Seq(S)
      <4>1. CASE S = {}
        <5>1. list = <<>>
          BY <4>1
        <5> QED
          BY <5>1, WithoutNothing
      <4>2. CASE S # {}
        <5>1. PICK x \in S : TRUE
          BY <4>2
        <5> QED
          BY <5>1, WithoutAppend
      <4> QED
        BY <4>1, <4>2
    <3>3. Without(list, token) \o <<>> = Without(list, token)
      BY <3>2
    <3> QED
      BY <3>1, <3>3, WithoutNothing
  <2> QED
    BY <2>1
<1>2. ASSUME NEW n \in Nat, n \in T
      PROVE  n + 1 \in T
  <2>1. ASSUME NEW end \in Seq(S), Len(end) = n + 1
        PROVE  Splits(end)
    <3>1. PICK front \in Seq(S), x \in S : end = Append(front, x)
      <4>1. end # <<>>
        BY <2>1
      <4> QED
        BY <4>1, SequenceEmptyOrAppend
    <3>2. Splits(front)
      <4>1. Len(front) = n
        BY <2>1, <3>1, AppendProperties
      <4> QED
        BY <1>2, <4>1
    <3>3. list \o end = Append(list \o front, x) /\ list \o front \in Seq(S)
      BY <3>1
    <3>4. /\ x = token => Without(list \o end, token) = Without(list \o front, token)
          /\ x # token => Without(list \o end, token) = Append(Without(list \o front, token), x)
      <4> DEFINE whole == list \o front
      <4>1. whole \in Seq(S)
        BY <3>3
      <4> HIDE DEF whole
      <4>2. /\ x = token => Without(Append(whole, x), token) = Without(whole, token)
            /\ x # token => Without(Append(whole, x), token) = Append(Without(whole, token), x)
        BY <4>1, WithoutAppend
      <4> QED
        BY <3>3, <4>2 DEF whole
    <3>5. /\ Without(list, token) \in Seq(S) /\ Without(front, token) \in Seq(S)
          /\ x = token => Without(end, token) = Without(front, token)
          /\ x # token => Without(end, token) = Append(Without(front, token), x)
      BY <3>1, WithoutAppend
    <3>6. Append(Without(list, token) \o Without(front, token), x)
              = Without(list, token) \o Append(Without(front, token), x)
      <4> DEFINE one == Without(list, token)
                 two == Without(front, token)
      <4>1. one \in Seq(S) /\ two \in Seq(S)
        BY <3>5
      <4> HIDE DEF one, two
      <4>2. AppendsToSecond(one, two, x)
        BY <4>1, AppendToConcat
      <4> QED
        BY <4>2 DEF AppendsToSecond, one, two
    <3>7. CASE x = token
      BY <3>2, <3>4, <3>5, <3>7
    <3>8. CASE x # token
      <4>1. Without(list \o end, token) = Append(Without(list, token) \o Without(front, token), x)
        BY <3>2, <3>4, <3>8
      <4>2. @ = Without(list, token) \o Append(Without(front, token), x)
        BY <3>6
      <4> QED
        BY <3>5, <3>8, <4>1, <4>2
    <3> QED
      BY <3>7, <3>8
  <2> QED
    BY <2>1
<1> HIDE DEF T
<1>3. Len(more) \in T
  <2>1. Len(more) \in Nat
    OBVIOUS
  <2> QED
    BY <1>1, <1>2, <2>1, NumbersByInduction
<1> QED
  BY <1>3 DEF T

(***************************************************************************)
(* The bytes of a chunk.                                                   *)
(***************************************************************************)
Tokens == Networks \cup {"comma"}

\* No token is wider than a comma's neighbour with 32 bytes of name.
LEMMA WidthIsBounded ==
  ASSUME NEW x \in Tokens
  PROVE  Width(x) \in Nat /\ Width(x) <= 55
<1>1. CASE x = "comma"
  BY <1>1 DEF Width
<1>2. CASE x # "comma"
  <2>1. NameLength[x] \in 0..32
    <3>1. NameLength["hidden"] = 0 /\ NameLength["long"] = 32
      BY DEF NameLength
    <3>2. x = "hidden" \/ x = "long"
      BY <1>2 DEF Tokens, Networks
    <3> QED
      BY <3>1, <3>2
  <2> QED
    BY <1>2, <2>1 DEF Width, Entry
<1> QED
  BY <1>1, <1>2

\* One step of Bytes(): the width of the next token.
BytesStep(list) ==
    [pair \in Nat \X Nat |-> IF pair[2] \notin 1..Len(list) THEN pair[1] ELSE pair[1] + Width(list[pair[2]])]

IsBytesStep(advance, list) ==
    /\ advance \in [Nat \X Nat -> Nat]
    /\ \A start \in Nat, i \in 1..Len(list) : advance[<<start, i>>] = start + Width(list[i])

\* The step stays among the numbers.
LEMMA BytesStepIs ==
  ASSUME NEW list \in Seq(Tokens)
  PROVE  IsBytesStep(BytesStep(list), list)
<1> DEFINE n == Len(list)
<1>1. n \in Nat /\ \A i \in 1..n : list[i] \in Tokens
  OBVIOUS
<1>2. ASSUME NEW i \in 1..n
      PROVE  Width(list[i]) \in Nat
  <2>1. list[i] \in Tokens
    BY <1>1
  <2> QED
    BY <2>1, WidthIsBounded
<1> HIDE DEF n
<1> QED
  BY <1>1, <1>2 DEF BytesStep, IsBytesStep, n

\* Bytes() is what the run of these steps ends with.
LEMMA BytesRuns ==
  ASSUME NEW list \in Seq(Tokens)
  PROVE  \E f : Runs(f, Nat, Header, BytesStep(list), Len(list)) /\ Bytes(list) = f[Len(list)]
<1> DEFINE n == Len(list)
           advance == BytesStep(list)
           IsUpTo(f) == f = [i \in 0..n |-> IF i = 0 THEN Header ELSE f[i - 1] + Width(list[i])]
           upTo == CHOOSE f : IsUpTo(f)
<1>1. n \in Nat /\ Header \in Nat
  BY DEF Header
<1>2. /\ advance \in [Nat \X Nat -> Nat]
      /\ \A start \in Nat, i \in 1..n : advance[<<start, i>>] = start + Width(list[i])
  <2>1. IsBytesStep(BytesStep(list), list)
    BY BytesStepIs, Zenon
  <2> QED
    BY <2>1 DEF IsBytesStep
<1>3. Bytes(list) = upTo[n]
  BY DEF Bytes
<1> HIDE DEF n, advance
<1>4. \E f : IsUpTo(f)
  <2>1. PICK f : Runs(f, Nat, Header, advance, n)
    BY <1>1, <1>2, StepByStep, Zenon
  <2>2. ASSUME NEW i \in 0..n
        PROVE  f[i] = IF i = 0 THEN Header ELSE f[i - 1] + Width(list[i])
    <3>1. CASE i = 0
      BY <2>1, <3>1 DEF Runs
    <3>2. CASE i # 0
      <4>1. i \in 1..n /\ i - 1 \in 0..n
        BY <1>1, <3>2
      <4>2. f[i] = advance[<<f[i - 1], i>>] /\ f[i - 1] \in Nat
        BY <2>1, <3>2, <4>1 DEF Runs
      <4> QED
        BY <1>2, <3>2, <4>1, <4>2
    <3> QED
      BY <3>1, <3>2
  <2>3. f = [i \in 0..n |-> f[i]]
    BY <2>1 DEF Runs
  <2>4. IsUpTo(f)
    BY <2>2, <2>3
  <2> QED
    BY <2>4
<1>5. IsUpTo(upTo)
  <2> HIDE DEF IsUpTo
  <2> QED
    BY <1>4
<1> HIDE DEF upTo
<1>6. upTo = [i \in 0..n |-> upTo[i]] /\ upTo[0] = Header
  BY <1>1, <1>5
<1>7. ASSUME NEW i \in 1..n, upTo[i - 1] \in Nat
      PROVE  upTo[i] = advance[<<upTo[i - 1], i>>]
  <2>1. i \in 0..n /\ i # 0
    BY <1>1
  <2>2. upTo[i] = upTo[i - 1] + Width(list[i])
    BY <1>5, <2>1
  <2> QED
    BY <1>2, <1>7, <2>2
<1> HIDE DEF IsUpTo
<1>8. Runs(upTo, Nat, Header, advance, n)
  BY <1>1, <1>2, <1>6, <1>7, FollowingRuns, Zenon
<1> QED
  BY <1>3, <1>8 DEF n, advance

\* One token more adds its width.
LEMMA BytesAppend ==
  ASSUME NEW list \in Seq(Tokens), NEW x \in Tokens
  PROVE  Bytes(list) \in Nat /\ Bytes(Append(list, x)) = Bytes(list) + Width(x)
<1> DEFINE n == Len(list)
           longer == Append(list, x)
           advance == BytesStep(list)
           other == BytesStep(longer)
<1>1. /\ n \in Nat /\ Len(longer) = n + 1 /\ longer[n + 1] = x /\ longer \in Seq(Tokens)
      /\ \A i \in 1..n : longer[i] = list[i]
  OBVIOUS
<1> HIDE DEF longer
<1>3. \A start \in Nat, i \in 1..n : advance[<<start, i>>] = start + Width(list[i])
  <2>1. IsBytesStep(BytesStep(list), list)
    BY BytesStepIs, Zenon
  <2> QED
    BY <2>1 DEF IsBytesStep
<1>4. \A start \in Nat, i \in 1..(n + 1) : other[<<start, i>>] = start + Width(longer[i])
  <2>1. IsBytesStep(BytesStep(longer), longer)
    BY <1>1, BytesStepIs
  <2> QED
    BY <1>1, <2>1 DEF IsBytesStep
<1>5. PICK f : Runs(f, Nat, Header, advance, n) /\ Bytes(list) = f[n]
  BY BytesRuns
<1>6. PICK g : Runs(g, Nat, Header, other, n + 1) /\ Bytes(longer) = g[n + 1]
  BY <1>1, BytesRuns
<1> HIDE DEF n, advance, other
<1>7. \A i \in 1..n, a \in Nat : advance[<<a, i>>] = other[<<a, i>>]
  <2>1. \A i \in 1..n : i \in 1..(n + 1)
    BY <1>1
  <2> QED
    BY <1>1, <1>3, <1>4, <2>1
<1>8. g[n] = f[n]
  <2>1. n \in Nat /\ n + 1 \in Nat /\ n <= n + 1
    BY <1>1
  <2>2. Runs(f, Nat, Header, advance, n) /\ Runs(g, Nat, Header, other, n + 1)
    BY <1>5, <1>6
  <2>3. RunAlike(f, g, Nat, Header, advance, other, n, n + 1)
    BY <1>7, <2>1, <2>2, Zenon DEF RunAlike
  <2> QED
    BY <2>3, RunsAgree
<1>9. f[n] \in Nat
  BY <1>1, <1>5 DEF Runs
<1>10. g[n + 1] = g[n] + Width(x)
  <2>1. n + 1 \in 0..(n + 1) /\ n + 1 # 0 /\ (n + 1) - 1 = n /\ n + 1 \in 1..(n + 1)
    BY <1>1
  <2>2. g[n + 1] = other[<<g[n], n + 1>>]
    BY <1>6, <2>1 DEF Runs
  <2> QED
    BY <1>1, <1>4, <1>8, <1>9, <2>1, <2>2
<1> QED
  BY <1>5, <1>6, <1>8, <1>9, <1>10 DEF longer

\* An empty list has the bytes of the header.
LEMMA BytesOfNothing == Bytes(<<>>) = Header
<1>1. <<>> \in Seq(Tokens) /\ Len(<<>>) = 0
  OBVIOUS
<1>2. PICK f : Runs(f, Nat, Header, BytesStep(<<>>), Len(<<>>)) /\ Bytes(<<>>) = f[Len(<<>>)]
  BY <1>1, BytesRuns
<1> QED
  BY <1>1, <1>2 DEF Runs

(***************************************************************************)
(* The text of a chunk.                                                    *)
(***************************************************************************)
\* With room for it, a network with a name is added behind a comma or none.
LEMMA AddsNamed ==
  ASSUME NEW list \in Seq(Tokens), NEW networks \in Seq(Networks), NEW i \in 1..Len(networks),
         Bytes(list) < BufferLimit
  PROVE  /\ AddsNetwork(list, networks, i) \in Seq(Tokens)
         /\ Bytes(AddsNetwork(list, networks, i)) \in Nat
         /\ Bytes(AddsNetwork(list, networks, i)) <= Bytes(list) + 56
         /\ networks[i] = "hidden" => Without(AddsNetwork(list, networks, i), "comma") = Without(list, "comma")
         /\ networks[i] # "hidden" =>
                Without(AddsNetwork(list, networks, i), "comma") = Append(Without(list, "comma"), networks[i])
<1> DEFINE net == networks[i]
           added == AddsNetwork(list, networks, i)
<1>1. net \in Networks /\ net \in Tokens /\ net # "comma" /\ "comma" \in Tokens
  BY DEF Networks, Tokens
<1>2. Bytes(list) \in Nat
  BY <1>1, BytesAppend
<1>3. ~(Bytes(list) >= BufferLimit)
  BY <1>2 DEF BufferLimit
<1>4. CASE net = "hidden"
  <2>1. added = list
    BY <1>4 DEF AddsNetwork
  <2> QED
    BY <1>2, <1>4, <2>1
<1>5. CASE net # "hidden" /\ i > 1
  <2> DEFINE comma == Append(list, "comma")
  <2>1. comma \in Seq(Tokens)
    BY <1>1
  <2>2. added = Append(comma, net)
    <3>1. added = list \o <<"comma">> \o <<net>>
      BY <1>3, <1>5 DEF AddsNetwork
    <3>2. comma = list \o <<"comma">>
      BY <1>1, AppendIsConcat
    <3>3. Append(comma, net) = comma \o <<net>>
      BY <1>1, <2>1, AppendIsConcat
    <3> QED
      BY <3>1, <3>2, <3>3
  <2>3. Bytes(comma) = Bytes(list) + Width("comma") /\ Without(comma, "comma") = Without(list, "comma")
    BY <1>1, BytesAppend, WithoutAppend
  <2> HIDE DEF comma
  <2>4. /\ Bytes(Append(comma, net)) = Bytes(comma) + Width(net)
        /\ Without(Append(comma, net), "comma") = Append(Without(comma, "comma"), net)
    BY <1>1, <2>1, BytesAppend, WithoutAppend
  <2>5. Width("comma") = 1 /\ Width(net) \in Nat /\ Width(net) <= 55
    BY <1>1, WidthIsBounded DEF Width
  <2>6. Append(comma, net) \in Seq(Tokens)
    BY <1>1, <2>1
  <2> HIDE DEF net, added
  <2>7. Bytes(added) \in Nat /\ Bytes(added) <= Bytes(list) + 56
    BY <1>2, <2>2, <2>3, <2>4, <2>5
  <2>8. added \in Seq(Tokens) /\ Without(added, "comma") = Append(Without(list, "comma"), net)
    BY <2>2, <2>3, <2>4, <2>6
  <2> QED
    BY <1>5, <2>7, <2>8 DEF net, added
<1>6. CASE net # "hidden" /\ ~(i > 1)
  <2>1. added = Append(list, net)
    <3>1. added = list \o <<>> \o <<net>>
      BY <1>3, <1>6 DEF AddsNetwork
    <3>2. Append(list, net) = list \o <<net>>
      BY <1>1, AppendIsConcat
    <3>3. list \o <<>> = list
      OBVIOUS
    <3> QED
      BY <3>1, <3>2, <3>3
  <2>2. /\ Bytes(Append(list, net)) = Bytes(list) + Width(net)
        /\ Without(Append(list, net), "comma") = Append(Without(list, "comma"), net)
    BY <1>1, BytesAppend, WithoutAppend
  <2>3. Width(net) \in Nat /\ Width(net) <= 55
    BY <1>1, WidthIsBounded
  <2>4. Append(list, net) \in Seq(Tokens)
    BY <1>1
  <2> HIDE DEF net, added
  <2>5. Bytes(added) \in Nat /\ Bytes(added) <= Bytes(list) + 56
    BY <1>2, <2>1, <2>2, <2>3
  <2>6. added \in Seq(Tokens) /\ Without(added, "comma") = Append(Without(list, "comma"), net)
    BY <2>1, <2>2, <2>4
  <2> QED
    BY <1>6, <2>5, <2>6 DEF net, added
<1> QED
  BY <1>4, <1>5, <1>6

\* With room or without, the text remains a list of tokens.
LEMMA AddsTokens ==
  ASSUME NEW list \in Seq(Tokens), NEW networks \in Seq(Networks), NEW i \in 1..Len(networks)
  PROVE  AddsNetwork(list, networks, i) \in Seq(Tokens)
<1>1. Bytes(list) \in Nat
  <2>1. "comma" \in Tokens
    BY DEF Tokens
  <2> QED
    BY <2>1, BytesAppend
<1>2. CASE Bytes(list) < BufferLimit
  BY <1>2, AddsNamed
<1>3. CASE Bytes(list) >= BufferLimit
  BY <1>3 DEF AddsNetwork
<1> QED
  BY <1>1, <1>2, <1>3 DEF BufferLimit

\* One step of ListOf(): the next network.
TextStep(networks) ==
    [pair \in Seq(Tokens) \X Nat |->
        IF pair[2] \notin 1..Len(networks) THEN pair[1] ELSE AddsNetwork(pair[1], networks, pair[2])]

IsTextStep(advance, networks) ==
    /\ advance \in [Seq(Tokens) \X Nat -> Seq(Tokens)]
    /\ \A start \in Seq(Tokens), i \in 1..Len(networks) : advance[<<start, i>>] = AddsNetwork(start, networks, i)

\* The step stays among the texts.
LEMMA TextStepIs ==
  ASSUME NEW networks \in Seq(Networks)
  PROVE  IsTextStep(TextStep(networks), networks)
<1> DEFINE n == Len(networks)
<1>1. n \in Nat
  OBVIOUS
<1>2. \A start \in Seq(Tokens), i \in 1..n : AddsNetwork(start, networks, i) \in Seq(Tokens)
  BY AddsTokens
<1> HIDE DEF n
<1> QED
  BY <1>1, <1>2 DEF TextStep, IsTextStep, n

\* ListOf() is what the run of these steps ends with.
LEMMA TextRuns ==
  ASSUME NEW networks \in Seq(Networks)
  PROVE  \E f : /\ Runs(f, Seq(Tokens), <<>>, TextStep(networks), Len(networks))
                /\ ListOf(networks) = f[Len(networks)]
<1> DEFINE n == Len(networks)
           advance == TextStep(networks)
           IsUpTo(f) == f = [i \in 0..n |-> IF i = 0 THEN <<>> ELSE AddsNetwork(f[i - 1], networks, i)]
           upTo == CHOOSE f : IsUpTo(f)
<1>1. n \in Nat
  OBVIOUS
<1>2. <<>> \in Seq(Tokens)
  OBVIOUS
<1>3. /\ advance \in [Seq(Tokens) \X Nat -> Seq(Tokens)]
      /\ \A start \in Seq(Tokens), i \in 1..n : advance[<<start, i>>] = AddsNetwork(start, networks, i)
  <2>1. IsTextStep(TextStep(networks), networks)
    BY TextStepIs, Zenon
  <2> QED
    BY <2>1 DEF IsTextStep
<1>4. ListOf(networks) = upTo[n]
  BY DEF ListOf
<1> HIDE DEF n, advance
<1>5. \E f : IsUpTo(f)
  <2>1. PICK f : Runs(f, Seq(Tokens), <<>>, advance, n)
    BY <1>1, <1>2, <1>3, StepByStep, Zenon
  <2>2. ASSUME NEW i \in 0..n
        PROVE  f[i] = IF i = 0 THEN <<>> ELSE AddsNetwork(f[i - 1], networks, i)
    <3>1. CASE i = 0
      BY <2>1, <3>1 DEF Runs
    <3>2. CASE i # 0
      <4>1. i \in 1..n /\ i - 1 \in 0..n
        BY <1>1, <3>2
      <4>2. f[i] = advance[<<f[i - 1], i>>] /\ f[i - 1] \in Seq(Tokens)
        BY <2>1, <3>2, <4>1 DEF Runs
      <4> QED
        BY <1>3, <3>2, <4>1, <4>2
    <3> QED
      BY <3>1, <3>2
  <2>3. f = [i \in 0..n |-> f[i]]
    BY <2>1 DEF Runs
  <2>4. IsUpTo(f)
    BY <2>2, <2>3
  <2> QED
    BY <2>4
<1>6. IsUpTo(upTo)
  <2> HIDE DEF IsUpTo
  <2> QED
    BY <1>5
<1> HIDE DEF upTo
<1>7. upTo = [i \in 0..n |-> upTo[i]] /\ upTo[0] = <<>>
  BY <1>1, <1>6
<1>8. ASSUME NEW i \in 1..n, upTo[i - 1] \in Seq(Tokens)
      PROVE  upTo[i] = advance[<<upTo[i - 1], i>>]
  <2>1. i \in 0..n /\ i # 0
    BY <1>1
  <2>2. upTo[i] = AddsNetwork(upTo[i - 1], networks, i)
    BY <1>6, <2>1
  <2> QED
    BY <1>3, <1>8, <2>2
<1> HIDE DEF IsUpTo
<1>9. Runs(upTo, Seq(Tokens), <<>>, advance, n)
  BY <1>1, <1>2, <1>3, <1>7, <1>8, FollowingRuns, Zenon
<1> QED
  BY <1>4, <1>9 DEF n, advance

\* Three networks always fit: the text of a chunk names each that has a name,
\* once and in order.
LEMMA ChunkNamesAll ==
  ASSUME NEW networks \in Seq(Networks), Len(networks) <= PerChunk
  PROVE  Without(ListOf(networks), "comma") = Without(networks, "hidden")
<1> DEFINE n == Len(networks)
           advance == TextStep(networks)
<1>1. n \in Nat /\ n <= 3
  BY DEF PerChunk
<1>2. \A start \in Seq(Tokens), i \in 1..n : advance[<<start, i>>] = AddsNetwork(start, networks, i)
  <2>1. IsTextStep(TextStep(networks), networks)
    BY TextStepIs, Zenon
  <2> QED
    BY <2>1 DEF IsTextStep
<1>3. PICK f : Runs(f, Seq(Tokens), <<>>, advance, n) /\ ListOf(networks) = f[n]
  BY TextRuns
<1> DEFINE Named(i) == /\ Bytes(f[i]) <= Header + 56 * i
                       /\ Without(f[i], "comma") = Without(SubSeq(networks, 1, i), "hidden")
           T == {i \in Nat : i <= n => Named(i)}
<1> HIDE DEF advance
<1>4. 0 \in T
  <2>1. f[0] = <<>>
    <3>1. 0 \in 0..n
      BY <1>1
    <3> QED
      BY <1>3, <3>1 DEF Runs
  <2>2. SubSeq(networks, 1, 0) = <<>>
    BY SubSeqEmpty
  <2>3. Without(<<>>, "comma") = <<>> /\ Without(<<>>, "hidden") = <<>>
    BY WithoutNothing
  <2>4. Bytes(<<>>) <= Header + 56 * 0
    BY BytesOfNothing DEF Header
  <2>5. Named(0)
    BY <2>1, <2>2, <2>3, <2>4
  <2> HIDE DEF Named
  <2> QED
    BY <2>5
<1>5. ASSUME NEW i \in Nat, i \in T
      PROVE  i + 1 \in T
  <2>1. CASE i + 1 <= n
    <3>1. i \in 0..n /\ i + 1 \in 0..n /\ i + 1 \in 1..n /\ i + 1 # 0 /\ (i + 1) - 1 = i /\ i <= 2
      BY <1>1, <2>1
    <3>2. Named(i)
      BY <1>5, <3>1
    <3>3. f[i] \in Seq(Tokens)
      BY <1>3, <3>1 DEF Runs
    <3>4. f[i + 1] = AddsNetwork(f[i], networks, i + 1)
      <4>1. f[i + 1] = advance[<<f[i], i + 1>>]
        BY <1>3, <3>1 DEF Runs
      <4> QED
        BY <1>2, <3>1, <3>3, <4>1
    <3>5. Bytes(f[i]) \in Nat
      <4>1. "comma" \in Tokens
        BY DEF Tokens
      <4> QED
        BY <3>3, <4>1, BytesAppend
    <3>6. Bytes(f[i]) < BufferLimit
      BY <3>1, <3>2, <3>5 DEF Header, BufferLimit
    <3> DEFINE front == SubSeq(networks, 1, i)
               net == networks[i + 1]
    <3>7. front \in Seq(Networks) /\ net \in Networks
      BY <1>1, <3>1
    <3>8. SubSeq(networks, 1, i + 1) = Append(front, net)
      <4>1. SubSeq(networks, 1, i + 1) = front \o <<net>>
        <5>1. 1 \in 1..Len(networks) /\ i + 1 \in 1..Len(networks)
          BY <3>1
        <5> QED
          BY <3>1, <5>1, SubSeqRecursiveSecond
      <4>2. Append(front, net) = front \o <<net>>
        BY <3>7, AppendIsConcat
      <4> QED
        BY <4>1, <4>2
    <3>9. /\ net = "hidden" => Without(Append(front, net), "hidden") = Without(front, "hidden")
          /\ net # "hidden" => Without(Append(front, net), "hidden") = Append(Without(front, "hidden"), net)
      <4> HIDE DEF front, net
      <4> QED
        BY <3>7, WithoutAppend
    <3>10. /\ Bytes(f[i + 1]) \in Nat
           /\ Bytes(f[i + 1]) <= Bytes(f[i]) + 56
           /\ net = "hidden" => Without(f[i + 1], "comma") = Without(f[i], "comma")
           /\ net # "hidden" => Without(f[i + 1], "comma") = Append(Without(f[i], "comma"), net)
      BY <3>1, <3>3, <3>4, <3>6, AddsNamed
    <3>11. Bytes(f[i + 1]) <= Header + 56 * (i + 1)
      BY <3>2, <3>5, <3>10 DEF Header
    <3>12. Without(f[i + 1], "comma") = Without(SubSeq(networks, 1, i + 1), "hidden")
      <4> HIDE DEF net
      <4> QED
        BY <3>2, <3>8, <3>9, <3>10
    <3>13. Named(i + 1)
      BY <3>11, <3>12
    <3> HIDE DEF Named
    <3> QED
      BY <3>13
  <2>2. CASE ~(i + 1 <= n)
    BY <2>2
  <2> QED
    BY <2>1, <2>2
<1>6. n \in T
  <2> HIDE DEF T
  <2> QED
    BY <1>1, <1>4, <1>5, NumbersByInduction
<1>7. Without(f[n], "comma") = Without(SubSeq(networks, 1, n), "hidden")
  BY <1>1, <1>6
<1>8. SubSeq(networks, 1, n) = networks
  BY SubSeqFull
<1> QED
  BY <1>3, <1>7, <1>8

(***************************************************************************)
(* The invariant.                                                          *)
(***************************************************************************)
\* The number of networks in the chunks notified.
Reached(networks, chunks) == IF chunks * PerChunk < Len(networks) THEN chunks * PerChunk ELSE Len(networks)

\* What was reported are the named networks of the chunks notified.
ScanInv ==
    /\ found \in Seq(Networks)
    /\ chunk \in 0..TotalChunks(Len(found))
    /\ reported = Without(SubSeq(found, 1, Reached(found, chunk)), "hidden")
    /\ job # "notifying" => chunk = 0 /\ reported = <<>>

\* Where a chunk ends, the next begins.
LEMMA ChunkGoesOn ==
  ASSUME NEW networks \in Seq(Networks), NEW c \in Nat, c < TotalChunks(Len(networks))
  PROVE  /\ ChunkOf(networks, c) \in Seq(Networks)
         /\ Len(ChunkOf(networks, c)) <= PerChunk
         /\ SubSeq(networks, 1, Reached(networks, c)) \in Seq(Networks)
         /\ SubSeq(networks, 1, Reached(networks, c)) \o ChunkOf(networks, c)
                = SubSeq(networks, 1, Reached(networks, c + 1))
<1> DEFINE n == Len(networks)
           k == c * 3
           upper == Reached(networks, c + 1)
<1>1. n \in Nat /\ k \in Nat /\ k < n
  BY DEF PerChunk, TotalChunks
<1>2. upper \in k..n /\ upper <= k + 3 /\ Reached(networks, c) = k
  BY <1>1 DEF Reached, PerChunk
<1>3. ChunkOf(networks, c) = SubSeq(networks, k + 1, upper)
  BY DEF ChunkOf, Reached, PerChunk
<1> HIDE DEF k, upper
<1>4. \A i \in 1..n : networks[i] \in Networks
  OBVIOUS
<1> HIDE DEF n
<1>5. /\ SubSeq(networks, k + 1, upper) \in Seq(Networks)
      /\ Len(SubSeq(networks, k + 1, upper)) <= 3
  <2>1. k + 1 \in Int /\ upper \in Int /\ \A i \in (k + 1)..upper : networks[i] \in Networks
    BY <1>1, <1>2, <1>4
  <2>2. /\ SubSeq(networks, k + 1, upper) \in Seq(Networks)
        /\ Len(SubSeq(networks, k + 1, upper)) = IF k + 1 <= upper THEN upper - (k + 1) + 1 ELSE 0
    BY <2>1, SubSeqProperties
  <2> QED
    BY <1>1, <1>2, <2>2
<1>6. SubSeq(networks, 1, k) \in Seq(Networks)
  <2>1. 1 \in Int /\ k \in Int /\ \A i \in 1..k : networks[i] \in Networks
    BY <1>1, <1>4
  <2> QED
    BY <2>1, SubSeqProperties
<1>7. SubSeq(networks, 1, k) \o SubSeq(networks, k + 1, upper) = SubSeq(networks, 1, upper)
  <2>1. 1 \in 1..(n + 1) /\ k \in (1 - 1)..n /\ upper \in k..n
    BY <1>1, <1>2
  <2> QED
    BY <2>1, ConcatAdjacentSubSeq DEF n
<1> QED
  BY <1>2, <1>3, <1>5, <1>6, <1>7 DEF upper, PerChunk

\* A scan whose results were deleted, or a restart.
LEMMA ScanInvCleared ==
  ASSUME found' = <<>>, chunk' = 0, reported' = <<>>
  PROVE  ScanInv'
<1>1. SubSeq(<<>>, 1, Reached(<<>>, 0)) = <<>>
  <2>1. Reached(<<>>, 0) = 0
    BY DEF Reached, PerChunk
  <2> QED
    BY <2>1, SubSeqEmpty
<1>2. Without(<<>>, "hidden") = <<>>
  BY WithoutNothing
<1>3. 0 \in 0..TotalChunks(Len(<<>>)) /\ <<>> \in Seq(Networks)
  BY DEF TotalChunks, PerChunk
<1> QED
  BY <1>1, <1>2, <1>3 DEF ScanInv

\* No chunk is missing or cut, whatever is asked meanwhile.
LEMMA ScanInvStep == ScanInv /\ [ScanNext]_scanVars => ScanInv'
<1> SUFFICES ASSUME ScanInv, [ScanNext]_scanVars
             PROVE  ScanInv'
  OBVIOUS
<1>1. CASE StartsListening \/ PhoneAsks \/ TickFindsRequest \/ ScanFindsNothing \/ UNCHANGED scanVars
  <2>1. UNCHANGED <<found, chunk, reported>> /\ (job' = "notifying" <=> job = "notifying")
    BY <1>1 DEF StartsListening, PhoneAsks, TickFindsRequest, ScanFindsNothing, scanVars
  <2> QED
    BY <2>1 DEF ScanInv
<1>2. ASSUME NEW networks \in Scans, ScanFinds(networks)
      PROVE  ScanInv'
  <2>1. found' = networks /\ job' = "notifying" /\ chunk' = 0 /\ reported' = <<>>
    BY <1>2 DEF ScanFinds, ScanInv
  <2>2. networks \in Seq(Networks)
    BY ScanAssumption DEF Scans
  <2>3. SubSeq(networks, 1, Reached(networks, 0)) = <<>>
    <3>1. Reached(networks, 0) = 0
      BY <2>2 DEF Reached, PerChunk
    <3> QED
      BY <3>1, SubSeqEmpty
  <2>4. Without(<<>>, "hidden") = <<>>
    BY WithoutNothing
  <2>5. 0 \in 0..TotalChunks(Len(networks))
    BY <2>2 DEF TotalChunks, PerChunk
  <2> QED
    BY <2>1, <2>2, <2>3, <2>4, <2>5 DEF ScanInv
<1>3. CASE NotifiesChunk
  <2> DEFINE networks == ChunkOf(found, chunk)
             before == SubSeq(found, 1, Reached(found, chunk))
  <2>1. /\ job' = job /\ job = "notifying" /\ found' = found /\ chunk' = chunk + 1
        /\ reported' = reported \o Without(ListOf(networks), "comma")
    BY <1>3 DEF NotifiesChunk
  <2>2. chunk \in Nat /\ chunk < TotalChunks(Len(found)) /\ found \in Seq(Networks)
    <3>1. chunk # TotalChunks(Len(found)) /\ chunk \in 0..TotalChunks(Len(found)) /\ found \in Seq(Networks)
      BY <1>3 DEF NotifiesChunk, AllNotified, ScanInv
    <3>2. Len(found) \in Nat
      BY <3>1
    <3>3. TotalChunks(Len(found)) \in Nat
      BY <3>2 DEF TotalChunks, PerChunk
    <3> QED
      BY <3>1, <3>3
  <2>3. /\ networks \in Seq(Networks) /\ Len(networks) <= PerChunk /\ before \in Seq(Networks)
        /\ before \o networks = SubSeq(found, 1, Reached(found, chunk + 1))
    BY <2>2, ChunkGoesOn
  <2>4. reported = Without(before, "hidden")
    BY DEF ScanInv
  <2> HIDE DEF networks, before
  <2>5. Without(ListOf(networks), "comma") = Without(networks, "hidden")
    BY <2>3, ChunkNamesAll
  <2>6. reported' = Without(before \o networks, "hidden")
    <3>1. Without(before \o networks, "hidden") = Without(before, "hidden") \o Without(networks, "hidden")
      <4>1. before \in Seq(Networks) /\ networks \in Seq(Networks)
        BY <2>3
      <4> QED
        BY <4>1, WithoutConcat
    <3> QED
      BY <2>1, <2>4, <2>5, <3>1
  <2>7. chunk + 1 \in 0..TotalChunks(Len(found))
    BY <2>2 DEF TotalChunks, PerChunk
  <2> QED
    BY <2>1, <2>2, <2>3, <2>6, <2>7 DEF ScanInv
<1>4. CASE ScanEnds
  <2>1. found' = <<>> /\ chunk' = 0 /\ reported' = <<>> /\ job' = "loop"
    BY <1>4 DEF ScanEnds, ScanDeleted
  <2> QED
    BY <2>1, ScanInvCleared
<1> QED
  BY <1>1, <1>2, <1>3, <1>4 DEF ScanNext, ScanGoesOn

\* With every chunk notified, every network has been reached.
LEMMA AllAreReached == ScanInv => NamedAreReported
<1> SUFFICES ASSUME ScanInv, AllNotified
             PROVE  reported = Without(found, "hidden")
  BY DEF NamedAreReported
<1>1. found \in Seq(Networks)
  BY DEF ScanInv
<1>2. Reached(found, chunk) = Len(found)
  BY <1>1 DEF AllNotified, Reached, TotalChunks, PerChunk
<1>3. SubSeq(found, 1, Len(found)) = found
  BY <1>1, SubSeqFull
<1> QED
  BY <1>2, <1>3 DEF ScanInv

\* A scan of the device that has not started.
LEMMA ScanInvInit == ScanInit => ScanInv
<1> SUFFICES ASSUME ScanInit
             PROVE  ScanInv
  OBVIOUS
<1>1. found = <<>> /\ chunk = 0 /\ reported = <<>>
  BY DEF ScanInit
<1>2. SubSeq(<<>>, 1, Reached(<<>>, 0)) = <<>>
  <2>1. Reached(<<>>, 0) = 0
    BY DEF Reached, PerChunk
  <2> QED
    BY <2>1, SubSeqEmpty
<1>3. Without(<<>>, "hidden") = <<>>
  BY WithoutNothing
<1>4. 0 \in 0..TotalChunks(Len(<<>>)) /\ <<>> \in Seq(Networks)
  BY DEF TotalChunks, PerChunk
<1> QED
  BY <1>1, <1>2, <1>3, <1>4 DEF ScanInv

\* The session and updates leave the scan alone; a restart forgets it.
LEMMA TaskStepOfScan == ScanInv /\ [TaskNext]_taskVars => ScanInv'
<1> SUFFICES ASSUME ScanInv, [TaskNext]_taskVars
             PROVE  ScanInv'
  OBVIOUS
<1>1. CASE NetworkGoesOn \/ ServerGoesOn \/ CommandUpdates \/ UpdateGoesOn \/ UNCHANGED taskVars
  <2>1. UNCHANGED scanVars
    BY <1>1 DEF NetworkGoesOn, ServerGoesOn, CommandUpdates, UpdateGoesOn, taskVars
  <2> QED
    BY <2>1, ScanInvStep
<1>2. CASE SessionStep(EnsureConnected) \/ SessionStep(Loop) \/ SessionStep(Disconnects)
  <2>1. UNCHANGED scanVars
    BY <1>2 DEF SessionStep
  <2> QED
    BY <2>1, ScanInvStep
<1>3. CASE PhoneGoesOn \/ ListenerStarts \/ TickScans(TickFindsRequest) \/ TickScans(ScanGoesOn)
  <2>1. ScanNext
    BY <1>3 DEF PhoneGoesOn, ListenerStarts, TickScans, ScanNext
  <2> QED
    BY <2>1, ScanInvStep
<1>4. CASE Restarts
  <2>1. found' = <<>> /\ chunk' = 0 /\ reported' = <<>>
    BY <1>4 DEF Restarts
  <2> QED
    BY <2>1, ScanInvCleared
<1> QED
  BY <1>1, <1>2, <1>3, <1>4 DEF TaskNext

\* scan_and_emit(): for every number of networks found, the chunks name each one
\* that has a name, once and in order, whatever is asked or goes on meanwhile.
THEOREM TaskReportsNamed == TaskSpec => []NamedAreReported
<1>1. TaskInit => ScanInv
  BY ScanInvInit DEF TaskInit
<1>2. ScanInv /\ [TaskNext]_taskVars => ScanInv'
  BY TaskStepOfScan
<1> QED
  BY <1>1, <1>2, AllAreReached, PTL DEF TaskSpec

=============================================================================
