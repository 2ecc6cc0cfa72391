-------------------------------- MODULE MainTask --------------------------------
(***************************************************************************)
(* What else the main task does while it should keep the MQTT session      *)
(* alive: tick() runs a scan for the phone before it comes to the client's *)
(* tick(), and a command callback runs a whole firmware update inside      *)
(* mqtt_.loop().  Both block; the network, the broker, the phone and the   *)
(* server of the image go on.                                              *)
(***************************************************************************)
EXTENDS MqttSession, WifiScan, OtaUpdate

taskVars == <<mqttVars, scanVars, otaVars>>

TaskInit == MqttInit /\ ScanInit /\ OtaInit

Scanning == job # "loop"
Updating == download # "none"
Free == ~Scanning /\ ~Updating

(***************************************************************************)
(* Beside the main task.                                                   *)
(***************************************************************************)
NetworkGoesOn ==
    /\ WifiChanges \/ TransportDies \/ BrokerGivesUp \/ RetryComesDue \/ ClockWraps
    /\ UNCHANGED <<scanVars, otaVars>>

PhoneGoesOn == PhoneAsks /\ UNCHANGED <<mqttVars, otaVars>>

ServerGoesOn == ServerCloses /\ UNCHANGED <<mqttVars, scanVars>>

(***************************************************************************)
(* The main task.                                                          *)
(***************************************************************************)
ListenerStarts == Free /\ StartsListening /\ UNCHANGED <<mqttVars, otaVars>>

SessionStep(action) ==
    /\ Free
    /\ action
    /\ UNCHANGED <<scanVars, otaVars>>

TickScans(action) ==
    /\ ~Updating
    /\ ~polling
    /\ action
    /\ UNCHANGED <<mqttVars, otaVars>>

\* ota_update
CommandUpdates ==
    /\ Free
    /\ MessageArrives
    /\ OtaStarts
    /\ UNCHANGED <<mqttVars, scanVars>>

UpdateGoesOn ==
    /\ Transfers \/ SizeIsLate \/ SizeIsTorn \/ DataIsLate \/ LostGoesOn
    /\ UNCHANGED <<mqttVars, scanVars>>

\* The restart behind an update, a power failure or a crash.  The phone's
\* requests of the last life are not answered in this one.
Restarts ==
    /\ ClientRestarts
    /\ OtaStops
    /\ listening' = FALSE
    /\ pending' = FALSE
    /\ job' = "loop"
    /\ found' = <<>>
    /\ chunk' = 0
    /\ text' = <<>>
    /\ reported' = <<>>
    /\ asked' = 0
    /\ begun' = 0
    /\ answered' = 0

\* ESP.restart()
UpdateRestarts == download = "restart" /\ Restarts

TaskNext ==
    \/ NetworkGoesOn
    \/ PhoneGoesOn
    \/ ServerGoesOn
    \/ ListenerStarts
    \/ SessionStep(EnsureConnected)
    \/ SessionStep(Loop)
    \/ SessionStep(Disconnects)
    \/ TickScans(TickFindsRequest)
    \/ TickScans(ScanGoesOn)
    \/ CommandUpdates
    \/ UpdateGoesOn
    \/ Restarts

TaskSpec == TaskInit /\ [][TaskNext]_taskVars

\* The client's fairness is that of MqttSession, in the turns the main task
\* has for it; a scan of the driver ends.  The server of the image is taken
\* to go on sending or to close at last: the code sets no limit to an open
\* connection that stays silent.
FairTaskSpec ==
    /\ TaskSpec
    /\ WF_taskVars(SessionStep(EnsureConnected))
    /\ SF_taskVars(SessionStep(Loop))
    /\ WF_taskVars(waiting = "due" /\ RetryComesDue /\ UNCHANGED <<scanVars, otaVars>>)
    /\ WF_taskVars(KeepaliveExpires /\ UNCHANGED <<scanVars, otaVars>>)
    /\ SF_taskVars(\E heard, announced \in BOOLEAN : SessionStep(Connects(heard, announced)))
    /\ SF_taskVars(TickScans(TickFindsRequest))
    /\ WF_taskVars(TickScans(ScanFindsNothing \/ NotifiesChunk \/ ScanEnds))
    /\ WF_taskVars(Transfers /\ UNCHANGED <<mqttVars, scanVars>>)
    /\ WF_taskVars(ServerGoesOn)
    /\ WF_taskVars(UpdateRestarts)

=============================================================================
