-------------------------- MODULE ProvisioningProofs --------------------------
(***************************************************************************)
(* Proofs about Provisioning, for every number of networks, tokens and     *)
(* submissions: whose token is registered, which sessions go unanswered,   *)
(* when BLE may fall silent, and what takes a device out of reach.         *)
(***************************************************************************)
EXTENDS Provisioning, TLAPS

(***************************************************************************)
(* The station.                                                            *)
(***************************************************************************)
\* The station uses what a start would load.
SavedIsLoaded == state # "Off" => saved = LoadedCredentials

\* A station that is joining or joined has a network to return to, and a
\* manager that asked for it; and it uses what a start would load.
StationInv ==
    /\ link # "down" => state \in {"Connecting", "Connected"}
    /\ state \in {"Connecting", "Connected"} => WillRetry
    /\ SavedIsLoaded

\* What a join or a session leaves in RAM and NVS.
LEMMA StationStep ==
  ASSUME StationInv, [StationNext]_stationVars
  PROVE  StationInv'
<1> USE NetworksAssumption
    DEF StationInv, SavedIsLoaded, WillRetry, HasSaved, LoadedCredentials
<1>1. ASSUME NEW joined \in BOOLEAN, StationBoot(joined) PROVE StationInv'
  BY <1>1 DEF StationBoot, Joinable
<1>2. CASE PowerLoss
  BY <1>2 DEF PowerLoss, RamLost
<1>3. CASE PowerLossWhileClearing
  BY <1>3 DEF PowerLossWhileClearing, RamLost
<1>4. ASSUME NEW c \in Credentials, PowerLossWhileSaving(c) PROVE StationInv'
  BY <1>4 DEF PowerLossWhileSaving, RamLost
<1>5. CASE JoinSucceeds \/ LinkLost
  BY <1>5 DEF JoinSucceeds, LinkLost
<1>6. CASE StationTick
  BY <1>6 DEF StationTick, TickConnected, TickTimedOut, TickSetupMode, TickBeginStation,
              TickWaits, stationVars
<1>7. CASE ProvisionFails
  BY <1>7 DEF ProvisionFails
<1>8. ASSUME NEW c \in Credentials, NEW linkNow \in {"down", "up"}, ProvisionJoins(c, linkNow)
      PROVE  StationInv'
  BY <1>8 DEF ProvisionJoins, ApplyCredentials, Joinable
<1>9. ASSUME NEW clear \in BOOLEAN, Disconnect(clear) PROVE StationInv'
  BY <1>9 DEF Disconnect, NoCredentials
<1>10. CASE UNCHANGED stationVars
  BY <1>10 DEF stationVars
<1> QED
  BY <1>1, <1>2, <1>3, <1>4, <1>5, <1>6, <1>7, <1>8, <1>9, <1>10 DEF StationNext

\* A submission joins only with credentials an access point accepts.
LEMMA JoinIsOfStation ==
  ASSUME NEW c, NEW linkNow \in {"down", "up"}, StationInv, ProvisionJoins(c, linkNow)
  PROVE  StationInv'
  BY NetworksAssumption
     DEF StationInv, SavedIsLoaded, WillRetry, HasSaved, LoadedCredentials,
         ProvisionJoins, ApplyCredentials, Joinable

\* A board that lost its power has nothing in RAM, whatever is left in NVS.
LEMMA RamLostKeeps ==
  ASSUME RamLost
  PROVE  StationInv'
  BY DEF RamLost, StationInv, SavedIsLoaded

\* Every step of the session keeps the station's invariant.
LEMMA SessionStationStep == StationInv /\ [Next]_vars => StationInv'
<1> SUFFICES ASSUME StationInv, [Next]_vars PROVE StationInv'
  OBVIOUS
<1>1. ASSUME NEW joined \in BOOLEAN, Boot(joined) PROVE StationInv'
  BY <1>1, StationStep DEF Boot, StationNext
<1>2. CASE PowerFails \/ FactoryReset
  BY <1>2, RamLostKeeps DEF PowerFails, FactoryReset, PowerLoss, PowerLossWhileSaving,
                            PowerLossWhileClearing
<1>3. CASE PhoneConnects \/ PhoneLeaves \/ TakesNothing \/ Takes \/ NoCommand \/ StopsBle
           \/ EndsTurn \/ UNCHANGED vars
  <2>1. UNCHANGED stationVars
    BY <1>3 DEF PhoneConnects, PhoneLeaves, TakesNothing, Takes, NoCommand, StopsBle,
                EndsTurn, vars
  <2> QED
    BY <2>1, StationStep
<1>4. ASSUME NEW s \in Submissions, PhoneWrites(s) PROVE StationInv'
  BY <1>4, StationStep DEF PhoneWrites
<1>5. CASE JoinFails \/ HttpConnectFails
  BY <1>5, StationStep DEF JoinFails, HttpConnectFails, StationNext
<1>6. CASE JoinWorks
  BY <1>6, JoinIsOfStation DEF JoinWorks
<1>7. CASE TicksNetwork
  BY <1>7, StationStep DEF TicksNetwork, StationNext
<1>8. ASSUME NEW clear \in BOOLEAN, NEW restart \in BOOLEAN, DisconnectCommand(clear, restart)
      PROVE  StationInv'
  BY <1>8, StationStep DEF DisconnectCommand, StationNext
<1>9. ASSUME NEW c \in Credentials, HttpConnectWorks(c) PROVE StationInv'
  BY <1>9, JoinIsOfStation DEF HttpConnectWorks
<1>10. CASE LinkChanges
  BY <1>10, StationStep DEF LinkChanges, StationNext
<1> QED
  BY <1>1, <1>2, <1>3, <1>4, <1>5, <1>6, <1>7, <1>8, <1>9, <1>10
     DEF Next, MainTask, Requests

\* It holds throughout.
LEMMA StationAlways == Spec => []StationInv
<1>1. Init => StationInv
  BY DEF Init, StationInit, StationInv, SavedIsLoaded
<1> QED
  BY <1>1, SessionStationStep, PTL DEF Spec

(***************************************************************************)
(* The pairing token.                                                      *)
(***************************************************************************)
\* A token is kept for the session in flight, and once the join is over it is
\* the token of the submission that session answers.
TokenInv ==
    /\ TokenHasSession
    /\ stage = "join" => inFlight
    /\ stage # "join" /\ inFlight => token = taken.token
    /\ ConnectedMeansRegistered

\* The state callback posts, keeps or drops the token it finds.
LEMMA CallbackKeepsTokens ==
  ASSUME NEW tok, NEW notified, HandleNetworkState(tok, notified),
         inFlight => tok = taken.token, ~inFlight => tok = NoToken,
         notified = "connected" => status = "connected" /\ ConnectedMeansRegistered,
         taken' = taken, stage' # "join"
  PROVE  TokenInv'
<1> USE DEF TokenInv, TokenHasSession, ConnectedMeansRegistered
<1>1. CASE NoCallback(tok, notified)
  BY <1>1 DEF NoCallback
<1>2. CASE NoSession(tok, notified)
  BY <1>2 DEF NoSession
<1>3. CASE Registers(tok)
  BY <1>3 DEF Registers
<1>4. CASE ReportsConnected(tok)
  BY <1>4 DEF ReportsConnected
<1>5. CASE ReportsConnecting(tok)
  BY <1>5 DEF ReportsConnecting
<1>6. CASE ReportsFailed
  BY <1>6 DEF ReportsFailed
<1> QED
  BY <1>1, <1>2, <1>3, <1>4, <1>5, <1>6 DEF HandleNetworkState

\* disconnect_wifi ends the session and its token together: a command arrives
\* under a manager that is not kDisconnected, so its callback runs.
LEMMA CommandDropsToken ==
  ASSUME StationInv, TokenInv, NEW clear, NEW restart, DisconnectCommand(clear, restart)
  PROVE  TokenInv'
<1>1. state # "Disconnected"
  BY DEF DisconnectCommand, CommandArrives, StationInv
<1>2. token' = NoToken /\ ~inFlight' /\ stage' = "stop"
  BY <1>1 DEF DisconnectCommand, TokenInv, TokenHasSession
<1>3. taken' = taken /\ registered' = registered
  BY DEF DisconnectCommand
<1>4. status' = "connected" => status = "connected"
  <2>1. status' \in {"ready", "failed", status}
    BY DEF DisconnectCommand
  <2> QED
    BY <2>1
<1> QED
  BY <1>2, <1>3, <1>4 DEF TokenInv, TokenHasSession, ConnectedMeansRegistered

\* Every step keeps the token with its session.
LEMMA TokenStep == StationInv /\ TokenInv /\ [Next]_vars => TokenInv'
<1> SUFFICES ASSUME StationInv, TokenInv, [Next]_vars PROVE TokenInv'
  OBVIOUS
<1>1. ASSUME NEW joined \in BOOLEAN, Boot(joined) PROVE TokenInv'
  BY <1>1 DEF Boot, sessionVars, TokenInv, TokenHasSession, ConnectedMeansRegistered
<1>2. CASE PowerFails \/ FactoryReset
  BY <1>2 DEF PowerFails, FactoryReset, ControllerRamLost, TokenInv, TokenHasSession,
              ConnectedMeansRegistered
<1>3. CASE PhoneConnects \/ PhoneLeaves \/ TakesNothing \/ NoCommand \/ StopsBle \/ EndsTurn
           \/ HttpConnectFails \/ LinkChanges \/ UNCHANGED vars
  <2>1. /\ UNCHANGED <<taken, inFlight, token, status, registered>>
        /\ stage' = "join" <=> stage = "join"
    BY <1>3 DEF PhoneConnects, PhoneLeaves, TakesNothing, NoCommand, StopsBle, EndsTurn,
                HttpConnectFails, LinkChanges, vars, sessionVars
  <2> QED
    BY <2>1 DEF TokenInv, TokenHasSession, ConnectedMeansRegistered
<1>4. ASSUME NEW s \in Submissions, PhoneWrites(s) PROVE TokenInv'
  BY <1>4 DEF PhoneWrites, TokenInv, TokenHasSession, ConnectedMeansRegistered
<1>5. CASE Takes
  BY <1>5 DEF Takes, TokenInv, TokenHasSession, ConnectedMeansRegistered
<1>6. CASE JoinFails
  BY <1>6 DEF JoinFails, TokenInv, TokenHasSession, ConnectedMeansRegistered
<1>7. CASE JoinWorks
  BY <1>7, CallbackKeepsTokens DEF JoinWorks, TokenInv
<1>8. CASE TicksNetwork
  BY <1>8, CallbackKeepsTokens DEF TicksNetwork, TokenInv, TokenHasSession
<1>9. ASSUME NEW clear \in BOOLEAN, NEW restart \in BOOLEAN, DisconnectCommand(clear, restart)
      PROVE  TokenInv'
  BY <1>9, CommandDropsToken
<1>10. ASSUME NEW c \in Credentials, HttpConnectWorks(c) PROVE TokenInv'
  BY <1>10, CallbackKeepsTokens DEF HttpConnectWorks, TokenInv, TokenHasSession
<1> QED
  BY <1>1, <1>2, <1>3, <1>4, <1>5, <1>6, <1>7, <1>8, <1>9, <1>10
     DEF Next, MainTask, Requests

\* It holds throughout.
LEMMA TokensAlways == Spec => []TokenInv
<1>1. Init => TokenInv
  BY DEF Init, TokenInv, TokenHasSession, ConnectedMeansRegistered
<1> QED
  BY <1>1, TokenStep, StationAlways, PTL DEF Spec

\* No token is left for a later connection to post.
THEOREM TokensHaveSessions == Spec => []TokenHasSession
<1>1. TokenInv => TokenHasSession
  BY DEF TokenInv
<1> QED
  BY <1>1, TokensAlways, PTL

\* "connected" is said only for the accepted token of the session answered.
THEOREM ConnectedIsRegistered == Spec => []ConnectedMeansRegistered
<1>1. TokenInv => ConnectedMeansRegistered
  BY DEF TokenInv
<1> QED
  BY <1>1, TokensAlways, PTL

(***************************************************************************)
(* Sessions that go unanswered.                                            *)
(***************************************************************************)
\* Wherever in the turn a session meets a connected manager, it has met it
\* from the start; a board without power has no session.
AnswerInv ==
    /\ state = "Off" => ~inFlight
    /\ inFlight /\ state = "Connected" => startedUp

\* The callback that reports kConnected ends the session.
LEMMA CallbackAnswers ==
  ASSUME AnswerInv, NEW tok, NEW notified, HandleNetworkState(tok, notified),
         startedUp' = startedUp, state' # "Off"
  PROVE  AnswerInv'
  BY DEF HandleNetworkState, NoCallback, NoSession, Registers, ReportsConnected,
         ReportsConnecting, ReportsFailed, AnswerInv

\* The station is never switched off by a join or a tick.
LEMMA StationStaysOn ==
  ASSUME StationTick \/ \E c, linkNow : ProvisionJoins(c, linkNow)
  PROVE  state' # "Off"
  BY DEF StationTick, TickConnected, TickTimedOut, TickSetupMode, TickBeginStation,
         TickWaits, stationVars, ProvisionJoins, ApplyCredentials

\* Every step keeps sessions answered.
LEMMA AnswerStep == AnswerInv /\ [Next]_vars => AnswerInv'
<1> SUFFICES ASSUME AnswerInv, [Next]_vars PROVE AnswerInv'
  OBVIOUS
<1>1. ASSUME NEW joined \in BOOLEAN, Boot(joined) PROVE AnswerInv'
  BY <1>1 DEF Boot, StationBoot, sessionVars, AnswerInv
<1>2. CASE PowerFails \/ FactoryReset
  BY <1>2 DEF PowerFails, FactoryReset, ControllerRamLost, AnswerInv
<1>3. CASE PhoneConnects \/ PhoneLeaves \/ TakesNothing \/ NoCommand \/ StopsBle \/ EndsTurn
           \/ HttpConnectFails \/ LinkChanges \/ UNCHANGED vars
  <2>1. UNCHANGED <<state, inFlight, startedUp>>
    BY <1>3 DEF PhoneConnects, PhoneLeaves, TakesNothing, NoCommand, StopsBle, EndsTurn,
                HttpConnectFails, LinkChanges, vars, sessionVars, stationVars,
                ProvisionFails, JoinSucceeds, LinkLost
  <2> QED
    BY <2>1 DEF AnswerInv
<1>4. ASSUME NEW s \in Submissions, PhoneWrites(s) PROVE AnswerInv'
  BY <1>4 DEF PhoneWrites, stationVars, AnswerInv
<1>5. CASE Takes
  BY <1>5 DEF Takes, stationVars, AnswerInv
<1>6. CASE JoinFails
  BY <1>6 DEF JoinFails, AnswerInv
<1>7. CASE JoinWorks
  BY <1>7, CallbackAnswers, StationStaysOn DEF JoinWorks
<1>8. CASE TicksNetwork
  BY <1>8, CallbackAnswers, StationStaysOn DEF TicksNetwork
<1>9. ASSUME NEW clear \in BOOLEAN, NEW restart \in BOOLEAN, DisconnectCommand(clear, restart)
      PROVE  AnswerInv'
  BY <1>9 DEF DisconnectCommand, AnswerInv
<1>10. ASSUME NEW c \in Credentials, HttpConnectWorks(c) PROVE AnswerInv'
  BY <1>10, CallbackAnswers, StationStaysOn DEF HttpConnectWorks
<1> QED
  BY <1>1, <1>2, <1>3, <1>4, <1>5, <1>6, <1>7, <1>8, <1>9, <1>10
     DEF Next, MainTask, Requests

\* Only a session taken under a connected manager outlives a turn of one.
THEOREM AnsweredUnlessStartedUp == Spec => []UnansweredOnlyIfStartedUp
<1>1. Init => AnswerInv
  BY DEF Init, StationInit, AnswerInv
<1>2. AnswerInv => UnansweredOnlyIfStartedUp
  BY DEF AnswerInv, UnansweredOnlyIfStartedUp
<1> QED
  BY <1>1, <1>2, AnswerStep, PTL DEF Spec

(***************************************************************************)
(* A device that can be reached.                                           *)
(***************************************************************************)
\* BLE is about to be switched off only on a device that will return to its
\* network by itself.
DrainInv ==
    /\ shutdown # "none" => WillRetry
    /\ state = "Off" => shutdown = "none"

\* A drain is armed by the callback that reports kConnected.
LEMMA CallbackArmsDrain ==
  ASSUME DrainInv, StationInv', NEW tok, NEW notified, HandleNetworkState(tok, notified),
         WillRetry => WillRetry', state' # "Off"
  PROVE  DrainInv'
  BY DEF HandleNetworkState, NoCallback, NoSession, Registers, ReportsConnected,
         ReportsConnecting, ReportsFailed, DrainInv, StationInv

\* Neither a tick nor a join takes the network to return to away.
LEMMA RetryStays ==
  ASSUME StationTick \/ \E c, linkNow : ProvisionJoins(c, linkNow)
  PROVE  WillRetry => WillRetry'
<1>1. CASE StationTick
  BY <1>1 DEF StationTick, TickConnected, TickTimedOut, TickSetupMode, TickBeginStation,
              TickWaits, stationVars, WillRetry, HasSaved
<1>2. ASSUME NEW c, NEW linkNow, ProvisionJoins(c, linkNow) PROVE WillRetry'
  BY <1>2, NetworksAssumption
     DEF ProvisionJoins, ApplyCredentials, Joinable, WillRetry, HasSaved
<1> QED
  BY <1>1, <1>2

\* Steps that leave both BLE and the station's memory alone.
LEMMA ReachUntouched ==
  ASSUME DrainInv, UNCHANGED <<state, autoReconnect, saved, shutdown, advertising>>
  PROVE  DrainInv' /\ (Reachable => Reachable')
  BY DEF DrainInv, Reachable, WillRetry, HasSaved

\* Every step keeps the drain harmless, and none but the command strands.
LEMMA ReachStep ==
  ASSUME StationInv, DrainInv, [Next]_vars
  PROVE  /\ DrainInv'
         /\ Reachable /\ ~Reachable' => \E clear \in BOOLEAN : DisconnectCommand(clear, FALSE)
<1> DEFINE Goal == /\ DrainInv'
                   /\ Reachable /\ ~Reachable' =>
                        \E clear \in BOOLEAN : DisconnectCommand(clear, FALSE)
<1>0. StationInv'
  BY SessionStationStep
<1>1. ASSUME NEW joined \in BOOLEAN, Boot(joined) PROVE Goal
  BY <1>1 DEF Boot, StationBoot, sessionVars, DrainInv, Reachable
<1>2. CASE PowerFails \/ FactoryReset
  BY <1>2 DEF PowerFails, PowerLoss, PowerLossWhileSaving, PowerLossWhileClearing, RamLost,
              FactoryReset, ControllerRamLost, DrainInv, Reachable
<1>3. CASE PhoneConnects \/ PhoneLeaves \/ TakesNothing \/ NoCommand \/ HttpConnectFails
           \/ LinkChanges \/ UNCHANGED vars
  <2>1. UNCHANGED <<state, autoReconnect, saved, shutdown, advertising>>
    BY <1>3 DEF PhoneConnects, PhoneLeaves, TakesNothing, NoCommand, HttpConnectFails,
                LinkChanges, vars, sessionVars, stationVars, ProvisionFails,
                JoinSucceeds, LinkLost
  <2> QED
    BY <2>1, ReachUntouched
<1>4. ASSUME NEW s \in Submissions, PhoneWrites(s) PROVE Goal
  BY <1>4, ReachUntouched DEF PhoneWrites, stationVars
<1>5. CASE Takes \/ JoinFails
  <2>1. /\ shutdown' = "none"
        /\ UNCHANGED <<state, autoReconnect, saved, advertising>>
    BY <1>5 DEF Takes, JoinFails, ProvisionFails, stationVars
  <2> QED
    BY <2>1 DEF DrainInv, Reachable, WillRetry, HasSaved
<1>6. CASE JoinWorks
  <2>1. state # "Off" /\ state' # "Off" /\ (WillRetry => WillRetry') /\ advertising' = advertising
    BY <1>6, RetryStays, StationStaysOn DEF JoinWorks, ProvisionJoins
  <2>2. DrainInv'
    BY <1>0, <1>6, <2>1, CallbackArmsDrain DEF JoinWorks
  <2> QED
    BY <2>1, <2>2 DEF Reachable
<1>7. CASE TicksNetwork
  <2>1. state # "Off" /\ state' # "Off" /\ (WillRetry => WillRetry') /\ advertising' = advertising
    BY <1>7, RetryStays, StationStaysOn
       DEF TicksNetwork, StationTick, TickConnected, TickTimedOut, TickSetupMode,
           TickBeginStation, TickWaits
  <2>2. DrainInv'
    BY <1>0, <1>7, <2>1, CallbackArmsDrain DEF TicksNetwork
  <2> QED
    BY <2>1, <2>2 DEF Reachable
<1>8. ASSUME NEW clear \in BOOLEAN, NEW restart \in BOOLEAN, DisconnectCommand(clear, restart)
      PROVE  Goal
  <2>1. DrainInv'
    BY <1>8 DEF DisconnectCommand, Disconnect, DrainInv
  <2>2. restart => Reachable'
    BY <1>8 DEF DisconnectCommand, Reachable
  <2> QED
    BY <1>8, <2>1, <2>2
<1>9. ASSUME NEW c \in Credentials, HttpConnectWorks(c) PROVE Goal
  <2>1. state # "Off" /\ state' # "Off" /\ (WillRetry => WillRetry') /\ advertising' = advertising
    BY <1>9, RetryStays, StationStaysOn DEF HttpConnectWorks, ProvisionJoins
  <2>2. DrainInv'
    BY <1>0, <1>9, <2>1, CallbackArmsDrain DEF HttpConnectWorks
  <2> QED
    BY <2>1, <2>2 DEF Reachable
<1>10. CASE StopsBle \/ EndsTurn
  <2>1. state # "Off" /\ UNCHANGED state /\ WillRetry' = WillRetry
    BY <1>10 DEF StopsBle, EndsTurn, stationVars, WillRetry, HasSaved
  <2>2. shutdown' # "none" => shutdown # "none"
    BY <1>10 DEF StopsBle, EndsTurn
  <2>3. advertising /\ ~advertising' => shutdown # "none"
    BY <1>10 DEF StopsBle, EndsTurn
  <2> QED
    BY <2>1, <2>2, <2>3 DEF DrainInv, Reachable
<1> QED
  BY <1>1, <1>2, <1>3, <1>4, <1>5, <1>6, <1>7, <1>8, <1>9, <1>10
     DEF Next, MainTask, Requests

\* It holds throughout.
LEMMA DrainAlways == Spec => []DrainInv
<1>1. Init => DrainInv
  BY DEF Init, DrainInv
<1>2. StationInv /\ DrainInv /\ [Next]_vars => DrainInv'
  BY ReachStep
<1> QED
  BY <1>1, <1>2, StationAlways, PTL DEF Spec

\* Sessions that fail, drains that elapse and links that drop never strand a
\* device that can be reached; only disconnect_wifi without restart does.
THEOREM OnlyCommandTakesAway == Spec => OnlyCommandStrands
<1> DEFINE Stranded ==
       Reachable /\ ~Reachable' => \E clear \in BOOLEAN : DisconnectCommand(clear, FALSE)
<1>1. StationInv /\ DrainInv /\ [Next]_vars => [Stranded]_vars
  BY ReachStep
<1> QED
  BY <1>1, StationAlways, DrainAlways, PTL DEF Spec, OnlyCommandStrands

(***************************************************************************)
(* A device that is silent.                                                *)
(***************************************************************************)
\* Credentials that brought the link up work, and go on working until others
\* replace them; only they arm the drain that ends in silence.
WorkingInv ==
    /\ link = "up" \/ state = "Connected" \/ shutdown # "none" => Joinable(saved)
    /\ state # "Off" /\ autoReconnect /\ ~advertising => Joinable(saved)

\* The callback arms the drain only when it reports kConnected.
LEMMA CallbackHasNetwork ==
  ASSUME NEW tok, NEW notified, HandleNetworkState(tok, notified)
  PROVE  shutdown' # "none" => shutdown # "none" \/ state' = "Connected"
  BY DEF HandleNetworkState, NoCallback, NoSession, Registers, ReportsConnected,
         ReportsConnecting, ReportsFailed

\* Credentials that were just joined with work, whatever the link does since.
LEMMA JoinedWith ==
  ASSUME NEW c, NEW linkNow, ProvisionJoins(c, linkNow)
  PROVE  WorkingInv'
  BY DEF ProvisionJoins, ApplyCredentials, Joinable, WorkingInv

\* A tick finds the link up or does not report kConnected.
LEMMA TickHasNetwork ==
  ASSUME StationTick
  PROVE  /\ UNCHANGED <<autoReconnect, saved>>
         /\ state # "Off"
         /\ link' = "up" => link = "up"
         /\ state' = "Connected" => link = "up" \/ state = "Connected"
  BY DEF StationTick, TickConnected, TickTimedOut, TickSetupMode, TickBeginStation,
         TickWaits, stationVars

\* No step silences a device whose credentials do not work.
LEMMA WorkingStep == DrainInv /\ WorkingInv /\ [Next]_vars => WorkingInv'
<1> SUFFICES ASSUME DrainInv, WorkingInv, [Next]_vars PROVE WorkingInv'
  OBVIOUS
<1>1. ASSUME NEW joined \in BOOLEAN, Boot(joined) PROVE WorkingInv'
  <2>1. advertising' /\ shutdown' = shutdown /\ saved' = LoadedCredentials
    BY <1>1 DEF Boot, StationBoot, sessionVars
  <2>2. link' = "up" \/ state' = "Connected" => Joinable(saved')
    BY <1>1 DEF Boot, StationBoot
  <2>3. shutdown = "none"
    BY <1>1 DEF Boot, StationBoot, DrainInv
  <2> QED
    BY <2>1, <2>2, <2>3 DEF WorkingInv, Joinable
<1>2. CASE PowerFails \/ FactoryReset
  BY <1>2 DEF PowerFails, PowerLoss, PowerLossWhileSaving, PowerLossWhileClearing, RamLost,
              FactoryReset, ControllerRamLost, WorkingInv
<1>3. CASE PhoneConnects \/ PhoneLeaves \/ TakesNothing \/ Takes \/ NoCommand \/ UNCHANGED vars
  BY <1>3 DEF PhoneConnects, PhoneLeaves, TakesNothing, Takes, NoCommand, vars, sessionVars,
              stationVars, WorkingInv, Joinable
<1>4. ASSUME NEW s \in Submissions, PhoneWrites(s) PROVE WorkingInv'
  BY <1>4 DEF PhoneWrites, stationVars, WorkingInv, Joinable
<1>5. CASE JoinFails \/ HttpConnectFails
  BY <1>5 DEF JoinFails, HttpConnectFails, ProvisionFails, sessionVars, WorkingInv, Joinable
<1>6. CASE JoinWorks
  BY <1>6, JoinedWith DEF JoinWorks
<1>7. CASE TicksNetwork
  <2>1. shutdown' # "none" => shutdown # "none" \/ state' = "Connected"
    BY <1>7, CallbackHasNetwork DEF TicksNetwork
  <2>2. StationTick /\ advertising' = advertising
    BY <1>7 DEF TicksNetwork
  <2> QED
    BY <2>1, <2>2, TickHasNetwork DEF WorkingInv, Joinable
<1>8. ASSUME NEW clear \in BOOLEAN, NEW restart \in BOOLEAN, DisconnectCommand(clear, restart)
      PROVE  WorkingInv'
  BY <1>8 DEF DisconnectCommand, Disconnect, WorkingInv
<1>9. ASSUME NEW c \in Credentials, HttpConnectWorks(c) PROVE WorkingInv'
  BY <1>9, JoinedWith DEF HttpConnectWorks
<1>10. CASE StopsBle \/ EndsTurn
  <2>1. UNCHANGED <<link, state, saved, autoReconnect>>
    BY <1>10 DEF StopsBle, EndsTurn, stationVars
  <2>2. shutdown' # "none" => shutdown # "none"
    BY <1>10 DEF StopsBle, EndsTurn
  <2>3. advertising /\ ~advertising' => shutdown # "none"
    BY <1>10 DEF StopsBle, EndsTurn
  <2> QED
    BY <2>1, <2>2, <2>3 DEF WorkingInv, Joinable
<1>11. CASE LinkChanges
  BY <1>11 DEF LinkChanges, JoinSucceeds, LinkLost, sessionVars, WorkingInv, Joinable
<1> QED
  BY <1>1, <1>2, <1>3, <1>4, <1>5, <1>6, <1>7, <1>8, <1>9, <1>10, <1>11
     DEF Next, MainTask, Requests

\* For any networks and any sequence of torn saves: a device that retries and
\* is silent on BLE has credentials that work, and NVS holds the same.
THEOREM SilentHasWorkingRecord == Spec => []SilentMeansWorkingRecord
<1>1. Init => WorkingInv
  BY DEF Init, StationInit, WorkingInv
<1>2. StationInv /\ WorkingInv => SilentMeansWorkingRecord
  <2> SUFFICES ASSUME StationInv, WorkingInv, state # "Off", autoReconnect, ~advertising
               PROVE  Joinable(saved) /\ nvs = saved
    BY DEF SilentMeansWorkingRecord
  <2>1. Joinable(saved) /\ saved = LoadedCredentials
    BY DEF WorkingInv, StationInv, SavedIsLoaded
  <2>2. nvs.ssid # NoNet
    BY <2>1, NetworksAssumption DEF LoadedCredentials, NoCredentials, Joinable
  <2> QED
    BY <2>1, <2>2 DEF LoadedCredentials
<1> QED
  BY <1>1, <1>2, WorkingStep, StationAlways, DrainAlways, PTL DEF Spec

(***************************************************************************)
(* The session as the station sees it.                                     *)
(***************************************************************************)
\* What the main task joins with was written by the phone.
WrittenInv ==
    /\ mailbox \subseteq Submissions
    /\ stage = "join" => taken \in Submissions

\* No step brings a submission from anywhere else.
LEMMA WrittenStep == WrittenInv /\ [Next]_vars => WrittenInv'
<1> SUFFICES ASSUME WrittenInv, [Next]_vars PROVE WrittenInv'
  OBVIOUS
<1> USE DEF WrittenInv
<1>1. ASSUME NEW joined \in BOOLEAN, Boot(joined) PROVE WrittenInv'
  BY <1>1 DEF Boot, sessionVars
<1>2. CASE PowerFails \/ FactoryReset
  BY <1>2 DEF PowerFails, FactoryReset, ControllerRamLost
<1>3. CASE PhoneConnects \/ PhoneLeaves \/ NoCommand \/ LinkChanges
  BY <1>3 DEF PhoneConnects, PhoneLeaves, NoCommand, LinkChanges, sessionVars
<1>4. ASSUME NEW s \in Submissions, PhoneWrites(s) PROVE WrittenInv'
  BY <1>4 DEF PhoneWrites
<1>5. CASE TakesNothing \/ Takes
  BY <1>5 DEF TakesNothing, Takes, sessionVars
<1>6. CASE JoinFails \/ JoinWorks \/ TicksNetwork
  BY <1>6 DEF JoinFails, JoinWorks, TicksNetwork
<1>7. CASE StopsBle \/ EndsTurn \/ HttpConnectFails
  BY <1>7 DEF StopsBle, EndsTurn, HttpConnectFails, sessionVars
<1>8. ASSUME NEW clear \in BOOLEAN, NEW restart \in BOOLEAN, DisconnectCommand(clear, restart)
      PROVE  WrittenInv'
  BY <1>8 DEF DisconnectCommand
<1>9. ASSUME NEW c \in Credentials, HttpConnectWorks(c) PROVE WrittenInv'
  BY <1>9 DEF HttpConnectWorks
<1>10. CASE UNCHANGED vars
  BY <1>10 DEF vars, sessionVars
<1> QED
  BY <1>1, <1>2, <1>3, <1>4, <1>5, <1>6, <1>7, <1>8, <1>9, <1>10
     DEF Next, MainTask, Requests

\* A step of the device is one the contract allows, or erases the credentials
\* before a restart.
LEMMA StationOrReset ==
  ASSUME WrittenInv, [Next]_vars
  PROVE  [StationNext \/ FactoryReset]_stationVars
<1>1. ASSUME NEW joined \in BOOLEAN, Boot(joined) PROVE StationNext
  BY <1>1 DEF Boot, StationNext
<1>2. CASE PowerFails
  <2>1. CASE PowerLoss
    BY <2>1 DEF StationNext
  <2>2. CASE stage = "join" /\ PowerLossWhileSaving(taken.cred)
    <3>1. taken.cred \in Credentials
      BY <2>2 DEF WrittenInv, Submissions
    <3> QED
      BY <2>2, <3>1 DEF StationNext
  <2>3. CASE \E c \in Credentials : PowerLossWhileSaving(c)
    BY <2>3 DEF StationNext
  <2>4. CASE PowerLossWhileClearing
    BY <2>4 DEF StationNext
  <2> QED
    BY <1>2, <2>1, <2>2, <2>3, <2>4 DEF PowerFails
<1>3. CASE PhoneConnects \/ PhoneLeaves \/ TakesNothing \/ Takes \/ NoCommand \/ StopsBle
           \/ EndsTurn \/ UNCHANGED vars
  BY <1>3 DEF PhoneConnects, PhoneLeaves, TakesNothing, Takes, NoCommand, StopsBle, EndsTurn,
              vars
<1>4. ASSUME NEW s \in Submissions, PhoneWrites(s) PROVE UNCHANGED stationVars
  BY <1>4 DEF PhoneWrites
<1>5. CASE JoinFails \/ HttpConnectFails
  BY <1>5 DEF JoinFails, HttpConnectFails, StationNext
<1>6. CASE JoinWorks
  <2>1. taken.cred \in Credentials
    BY <1>6 DEF JoinWorks, WrittenInv, Submissions
  <2> QED
    BY <1>6, <2>1 DEF JoinWorks, StationNext
<1>7. CASE TicksNetwork
  BY <1>7 DEF TicksNetwork, StationNext
<1>8. ASSUME NEW clear \in BOOLEAN, NEW restart \in BOOLEAN, DisconnectCommand(clear, restart)
      PROVE  StationNext
  BY <1>8 DEF DisconnectCommand, StationNext
<1>9. ASSUME NEW c \in Credentials, HttpConnectWorks(c) PROVE StationNext
  BY <1>9 DEF HttpConnectWorks, StationNext
<1>10. CASE LinkChanges
  BY <1>10 DEF LinkChanges, StationNext
<1> QED
  BY <1>1, <1>2, <1>3, <1>4, <1>5, <1>6, <1>7, <1>8, <1>9, <1>10
     DEF Next, MainTask, Requests

\* Sessions, requests over HTTP and commands use the station only in the ways
\* NetworkManager implements, and join only with credentials that the phone or
\* the request gave whole; the one exception is factory_reset, which writes to
\* NVS without the manager and restarts.
THEOREM SessionsUseStation ==
  Spec => StationInit /\ [][StationNext \/ FactoryReset]_stationVars
<1>1. Init => StationInit /\ WrittenInv
  BY DEF Init, WrittenInv
<1>2. WrittenInv /\ [Next]_vars => [StationNext \/ FactoryReset]_stationVars
  BY StationOrReset
<1> QED
  BY <1>1, <1>2, WrittenStep, PTL DEF Spec

\* A step of the station keeps its types.
LEMMA StationTypeStep ==
  ASSUME StationTypeOK, [StationNext \/ FactoryReset]_stationVars
  PROVE  StationTypeOK'
<1> USE DEF StationTypeOK
<1>0. /\ NoCredentials \in StoredCredentials
      /\ \A c \in Credentials : c \in StoredCredentials
      /\ LoadedCredentials \in StoredCredentials
  BY DEF NoCredentials, Credentials, StoredCredentials, LoadedCredentials
<1>1. ASSUME NEW joined \in BOOLEAN, StationBoot(joined) PROVE StationTypeOK'
  BY <1>0, <1>1 DEF StationBoot
<1>2. CASE PowerLoss \/ FactoryReset
  BY <1>0, <1>2 DEF PowerLoss, FactoryReset, RamLost
<1>3. CASE PowerLossWhileClearing
  <2>1. nvs' \in StoredCredentials
    BY <1>3 DEF PowerLossWhileClearing, StoredCredentials
  <2> QED
    BY <1>0, <1>3, <2>1 DEF PowerLossWhileClearing, RamLost
<1>4. ASSUME NEW c \in Credentials, PowerLossWhileSaving(c) PROVE StationTypeOK'
  <2>1. nvs' \in StoredCredentials
    BY <1>4 DEF PowerLossWhileSaving, StoredCredentials, Credentials
  <2> QED
    BY <1>0, <1>4, <2>1 DEF PowerLossWhileSaving, RamLost
<1>5. CASE JoinSucceeds \/ LinkLost \/ ProvisionFails
  BY <1>5 DEF JoinSucceeds, LinkLost, ProvisionFails
<1>6. CASE StationTick
  BY <1>6 DEF StationTick, TickConnected, TickTimedOut, TickSetupMode, TickBeginStation,
              TickWaits, stationVars
<1>7. ASSUME NEW c \in Credentials, NEW linkNow \in {"down", "up"}, ProvisionJoins(c, linkNow)
      PROVE  StationTypeOK'
  BY <1>0, <1>7 DEF ProvisionJoins, ApplyCredentials
<1>8. ASSUME NEW clear \in BOOLEAN, Disconnect(clear) PROVE StationTypeOK'
  BY <1>0, <1>8 DEF Disconnect
<1>9. CASE UNCHANGED stationVars
  BY <1>9 DEF stationVars
<1> QED
  BY <1>1, <1>2, <1>3, <1>4, <1>5, <1>6, <1>7, <1>8, <1>9 DEF StationNext

\* The station's types in a device that is being provisioned: a name or a
\* passphrase in RAM or NVS is one that somebody gave, or none.
THEOREM StationTypes == Spec => []StationTypeOK
<1>1. Init => StationTypeOK
  <2> SUFFICES ASSUME Init PROVE StationTypeOK
    OBVIOUS
  <2>1. /\ NoCredentials \in StoredCredentials
        /\ \A c \in Credentials : c \in StoredCredentials
    BY DEF NoCredentials, Credentials, StoredCredentials
  <2>2. nvs \in StoredCredentials
    BY <2>1 DEF Init, StationInit
  <2> QED
    BY <2>1, <2>2 DEF Init, StationInit, StationTypeOK
<1>2. StationTypeOK /\ [StationNext \/ FactoryReset]_stationVars => StationTypeOK'
  BY StationTypeStep
<1> QED
  BY <1>1, <1>2, SessionsUseStation, PTL DEF Spec

===============================================================================
