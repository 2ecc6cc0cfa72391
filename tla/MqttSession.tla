----------------------------- MODULE MqttSession -----------------------------
(***************************************************************************)
(* core::MqttClient and the broker's end of its session.  The client's     *)
(* view (connected_, the PubSubClient transport) and the broker's (the     *)
(* session with its will, the subscription, the retained presence message) *)
(* change apart: either end may lose the session without the other knowing *)
(* yet.  tick() is cut between ensure_connected() and loop(), where the    *)
(* transport can go.  Messages are lost only with the transport, in order. *)
(***************************************************************************)
EXTENDS Naturals

VARIABLES
    wifi,        \* WiFi.status() is WL_CONNECTED
    transport,   \* mqtt_.connected(): the client holds an open session
    connected,   \* connected_
    waiting,     \* nowMs < nextRetryAtMs_, and which deadline that is
    polling,     \* tick() is between ensure_connected() and loop()
    session,     \* the broker holds a session of this client id
    will,        \* that session carries the retained "offline" will
    subscribed,  \* that session is subscribed to the command topic
    presence     \* the retained message on the presence topic

clientVars == <<transport, connected, waiting, polling>>
brokerVars == <<session, will, subscribed, presence>>
mqttVars == <<wifi, clientVars, brokerVars>>

\* "due" stands for a deadline some turn finds passed, "skips" for one in the
\* last turn before millis() wraps, which every turn of the clock may step over.
Deadlines == {"due", "skips"}

\* MqttClient::connected()
Connected == connected /\ transport

TypeOK ==
    /\ {wifi, transport, connected, polling} \subseteq BOOLEAN
    /\ waiting \in {"no"} \cup Deadlines
    /\ {session, will, subscribed} \subseteq BOOLEAN
    /\ presence \in {"none", "online", "offline"}
    /\ will => session
    /\ subscribed => session

MqttInit ==
    /\ wifi = FALSE
    /\ transport = FALSE
    /\ connected = FALSE
    /\ waiting = "no"
    /\ polling = FALSE
    /\ session = FALSE
    /\ will = FALSE
    /\ subscribed = FALSE
    /\ presence = "none"

(***************************************************************************)
(* The network and the broker.                                             *)
(***************************************************************************)
WifiChanges ==
    /\ wifi' = ~wifi
    /\ UNCHANGED <<clientVars, brokerVars>>

\* The device restarts; the broker notices nothing.
ClientRestarts ==
    /\ transport' = FALSE
    /\ connected' = FALSE
    /\ waiting' = "no"
    /\ polling' = FALSE
    /\ wifi' \in BOOLEAN
    /\ UNCHANGED brokerVars

TransportDies ==
    /\ transport
    /\ transport' = FALSE
    /\ UNCHANGED <<wifi, connected, waiting, polling, brokerVars>>

\* The broker ends a session without hearing DISCONNECT and publishes its will.
SessionEnds ==
    /\ session' = FALSE
    /\ will' = FALSE
    /\ subscribed' = FALSE
    /\ presence' = IF will THEN "offline" ELSE presence

BrokerGivesUp ==
    /\ session
    /\ SessionEnds
    /\ UNCHANGED <<wifi, clientVars>>

\* Slip: the socket options are not set.
KeepaliveIsOff == FALSE

\* The socket options set after a connect: a transport without a session at
\* the other end is found out by TCP keepalive.
KeepaliveExpires ==
    /\ ~session
    /\ TransportDies

\* Slip: the deadline is compared only while connected_ is set.
ComesDueConnected ==
    /\ waiting # "no"
    /\ connected
    /\ waiting' = "no"
    /\ UNCHANGED <<wifi, transport, connected, polling, brokerVars>>

\* The retry delay runs out.
RetryComesDue ==
    /\ waiting # "no"
    /\ waiting' = "no"
    /\ UNCHANGED <<wifi, transport, connected, polling, brokerVars>>

\* millis() wraps below nextRetryAtMs_, which success leaves at the time of
\* the connect: the client waits although nothing failed.
ClockWraps ==
    /\ waiting = "no"
    /\ waiting' \in Deadlines
    /\ UNCHANGED <<wifi, transport, connected, polling, brokerVars>>

(***************************************************************************)
(* ensure_connected()                                                      *)
(***************************************************************************)
EnsureWifiDown ==
    /\ ~polling
    /\ ~wifi
    /\ connected' = FALSE
    /\ UNCHANGED <<wifi, transport, waiting, polling, brokerVars>>

EnsureSession ==
    /\ ~polling
    /\ wifi
    /\ transport
    /\ connected' = TRUE
    /\ polling' = TRUE
    /\ UNCHANGED <<wifi, transport, waiting, brokerVars>>

EnsureNotDue ==
    /\ ~polling
    /\ wifi
    /\ ~transport
    /\ waiting # "no"
    /\ connected' = FALSE
    /\ UNCHANGED <<wifi, transport, waiting, polling, brokerVars>>

ConnectDue == ~polling /\ wifi /\ ~transport /\ waiting = "no"

\* Slip: connect() passes no will.
SessionStartsWithoutWill(heard) ==
    /\ session' = TRUE
    /\ will' = FALSE
    /\ subscribed' = heard

\* The broker starts a session, ending one it still holds for the client id.
SessionStarts(heard) ==
    /\ session' = TRUE
    /\ will' = TRUE
    /\ subscribed' = heard

\* The broker refuses, cannot be reached, or accepts and is not heard.
ConnectFails(accepted) ==
    /\ ConnectDue
    /\ connected' = FALSE
    /\ waiting' \in Deadlines
    /\ IF accepted
       THEN /\ SessionStarts(FALSE)
            /\ presence' = IF will THEN "offline" ELSE presence
       ELSE UNCHANGED brokerVars
    /\ UNCHANGED <<wifi, transport, polling>>

\* subscribe() and the "online" publish are tried once: when the broker does
\* not take them the failure is logged and the session goes on without.
Connects(heard, announced) ==
    /\ ConnectDue
    /\ transport' = TRUE
    /\ connected' = TRUE
    /\ waiting' = "no"
    /\ polling' = TRUE
    /\ SessionStarts(heard)
    /\ presence' = CASE announced -> "online"
                     [] ~announced /\ will -> "offline"
                     [] OTHER -> presence
    /\ UNCHANGED wifi

EnsureConnected ==
    \/ EnsureWifiDown
    \/ EnsureSession
    \/ EnsureNotDue
    \/ \E accepted \in BOOLEAN : ConnectFails(accepted)
    \/ \E heard, announced \in BOOLEAN : Connects(heard, announced)

(***************************************************************************)
(* mqtt_.loop(), skipped unless ensure_connected() left connected_ set.    *)
(***************************************************************************)
LoopFindsLoss ==
    /\ polling
    /\ ~transport
    /\ connected' = FALSE
    /\ polling' = FALSE
    /\ UNCHANGED <<wifi, transport, waiting, brokerVars>>

\* A message may have been dispatched to the command callback.
LoopGoesOn ==
    /\ polling
    /\ transport
    /\ polling' = FALSE
    /\ UNCHANGED <<wifi, transport, connected, waiting, brokerVars>>

Loop == LoopFindsLoss \/ LoopGoesOn

\* disconnect(true).  publish_with_trace() skips the "offline" message unless
\* connected_ is set, while DISCONNECT goes out on any open transport; of what
\* goes out, the first `delivered` packets reach the broker.
Disconnect(delivered) ==
    LET publishes == Connected
        reached == IF transport /\ wifi /\ session THEN delivered ELSE 0
        farewell == publishes /\ reached >= 1
        bye == reached >= IF publishes THEN 2 ELSE 1
    IN
    /\ transport' = FALSE
    /\ connected' = FALSE
    /\ presence' = IF farewell THEN "offline" ELSE presence
    /\ session' = (session /\ ~bye)
    /\ will' = (will /\ ~bye)
    /\ subscribed' = (subscribed /\ ~bye)
    /\ polling' = FALSE
    /\ UNCHANGED waiting

\* A BLE session or a /connect request between two ticks.
SwitchDisconnects(delivered) ==
    /\ ~polling
    /\ Disconnect(delivered)
    /\ UNCHANGED wifi

\* A command of the broker, dispatched by loop(): disconnect_wifi takes Wi-Fi
\* down too, factory_reset restarts.
MessageArrives == polling /\ transport /\ session /\ subscribed

CommandDisconnects(delivered) ==
    /\ MessageArrives
    /\ Disconnect(delivered)
    /\ wifi' \in {wifi, FALSE}

Disconnects ==
    \E delivered \in 0..2 : SwitchDisconnects(delivered) \/ CommandDisconnects(delivered)

MqttNext ==
    \/ WifiChanges
    \/ ClientRestarts
    \/ TransportDies
    \/ BrokerGivesUp
    \/ RetryComesDue
    \/ ClockWraps
    \/ EnsureConnected
    \/ Loop
    \/ Disconnects

MqttSpec == MqttInit /\ [][MqttNext]_mqttVars

\* tick() runs every turn; a delay runs out, after a wrap of the clock at the
\* latest, unless its deadline is one the turns may step over; keepalive finds
\* dead transports; the broker, asked again and again, accepts once and is heard.
MqttFairSpec ==
    /\ MqttSpec
    /\ WF_mqttVars(EnsureConnected)
    /\ WF_mqttVars(Loop)
    /\ WF_mqttVars(waiting = "due" /\ RetryComesDue)
    /\ WF_mqttVars(KeepaliveExpires)
    /\ SF_mqttVars(\E heard, announced \in BOOLEAN : Connects(heard, announced))

(***************************************************************************)
(* Properties.                                                             *)
(***************************************************************************)
\* The broker forgets the device and still shows it "online" only in one
\* case: disconnect() ran while connected_ was cleared by a Wi-Fi outage the
\* transport survived, so that "offline" was skipped and DISCONNECT, which
\* cancels the will, was not.  Every other end of a session is announced.
OnlineOutlivesSessionOnlyBySkip ==
    [][session /\ ~session' /\ presence' = "online" => transport /\ ~connected]_mqttVars

\* Once Wi-Fi stays and a session that both ends hold is not broken again and
\* again, both ends agree on one for good.  Nothing else keeps the device away
\* for ever, however often it happens: refused connects and lost answers with
\* their delays, sessions the broker holds alone and gives up, half-open
\* transports, disconnects and restarts before a session is there, and wraps of
\* the clock, except that a retry may be put off to a deadline that every turn
\* of the clock steps over (nowMs < nextRetryAtMs_ is a plain comparison).
Agreed == transport /\ session
BothEndsAgreeAgain ==
    <>[]wifi /\ <>[][Agreed => Agreed']_mqttVars
        => <>[](Connected /\ session) \/ <>[](waiting = "skips")

=============================================================================
