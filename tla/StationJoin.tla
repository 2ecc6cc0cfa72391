------------------------------ MODULE StationJoin ------------------------------
(***************************************************************************)
(* wifi_manager's joins: the blocking one, which DeviceController::tick()  *)
(* makes for the phone and tries a few times, and the one begin_station()  *)
(* leaves to the driver.  The driver's event task runs beside the main     *)
(* task and writes WiFi.status() and gLastDisconnectReason; it is ahead of *)
(* the main task whenever that sleeps, so a delay() ends only after every  *)
(* event posted before has been handled.                                   *)
(*                                                                         *)
(* Access points are left out: whether a join works, and what a scan finds *)
(* out about the target's kind, are free choices.                          *)
(***************************************************************************)
EXTENDS Naturals, Sequences

CONSTANTS
    Users,          \* enterprise user names
    Passwords,      \* passphrases and enterprise passwords
    Empty,          \* an absent or empty string
    MaxAttempts,    \* kProvisioningConnectAttempts
    MaxEvents       \* bound: events of the driver that are not handled yet

ASSUME JoinAssumption ==
    /\ Empty \notin Users \cup Passwords
    /\ MaxAttempts \in Nat \ {0, 1}
    /\ MaxEvents \in Nat

VARIABLES
    radio,          \* the driver: "off", "idle", "joining" or "up"
    events,         \* what it has posted to the event task
    status,         \* WiFi.status()
    lastReason,     \* gLastDisconnectReason
    handler,        \* gWifiEventHandlerRegistered
    enterprise,     \* the driver's WPA2-Enterprise fields
    at,             \* where the main task is: "starting", "resolving", "polling" or
                    \* "failed" in a blocking join, "async" in the other, or "idle"
    creds,          \* what it joins with
    attempt,
    finalStatus,
    bestStatus,
    bestReason,     \* bestDisconnectReason
    told,           \* the result of the last session, as the phone is told it
    causes,         \* history: why joins of this session failed
    refused         \* history: a final status of this session was "CONNECT_FAILED"

driverVars == <<radio, events, status, lastReason>>
sessionVars == <<creds, attempt, finalStatus, bestStatus, bestReason, told, refused>>
joinVars == <<driverVars, handler, enterprise, at, sessionVars, causes>>

Submissions == [user : Users \cup {Empty}, pass : Passwords \cup {Empty}]

\* Reasons by the branch of ble_provision_failure_reason() they take.
Failures == {"no_ap", "auth", "lost", "other"}
Reasons == Failures \cup {"unspecified"}
Statuses == {"IDLE", "DISCONNECTED", "NO_SSID", "CONNECT_FAILED", "CONNECTION_LOST", "CONNECTED"}

NoEnterprise == [on |-> FALSE, user |-> Empty, pass |-> Empty]

JoinInit ==
    /\ radio = "off"
    /\ events = <<>>
    /\ status = "IDLE"
    /\ lastReason = "unspecified"
    /\ handler = FALSE
    /\ enterprise = NoEnterprise
    /\ at = "idle"
    /\ creds = [user |-> Empty, pass |-> Empty]
    /\ attempt = 1
    /\ finalStatus = "IDLE"
    /\ bestStatus = "IDLE"
    /\ bestReason = "unspecified"
    /\ told = "nothing"
    /\ causes = {}
    /\ refused = FALSE

(***************************************************************************)
(* The driver and its event task.                                          *)
(***************************************************************************)
Posts(event) ==
    /\ Len(events) < MaxEvents
    /\ events' = Append(events, event)

\* A failure counts for the session if the join that failed is one of its.
InSession == at \in {"polling", "failed"}

DriverJoins ==
    /\ radio = "joining"
    /\ radio' = "up"
    /\ Posts("connected")
    /\ UNCHANGED <<status, lastReason, handler, enterprise, at, sessionVars, causes>>

DriverFails(reason) ==
    /\ radio \in {"joining", "up"}
    /\ radio' = "idle"
    /\ Posts(reason)
    /\ causes' = IF InSession THEN causes \cup {reason} ELSE causes
    /\ UNCHANGED <<status, lastReason, handler, enterprise, at, sessionVars>>

\* The statuses the core derives from the reason of a disconnect.
StatusesOf(event) ==
    CASE event = "connected" -> {"CONNECTED"}
      [] event = "no_ap" -> {"NO_SSID"}
      [] event = "auth" -> {"CONNECT_FAILED", "CONNECTION_LOST", "DISCONNECTED"}
      [] event = "lost" -> {"CONNECTION_LOST", "DISCONNECTED"}
      [] OTHER -> {"DISCONNECTED"}

\* on_wifi_event()
HandlesEvent ==
    /\ events # <<>>
    /\ events' = Tail(events)
    /\ status' \in StatusesOf(Head(events))
    /\ lastReason' = CASE ~handler -> lastReason
                       [] handler /\ Head(events) = "connected" -> "unspecified"
                       [] OTHER -> Head(events)
    /\ UNCHANGED <<radio, handler, enterprise, at, sessionVars, causes>>

EventsHandled == events = <<>>

(***************************************************************************)
(* reset_station_state() up to its delay().  The driver may report that it *)
(* leaves a network, or the join it was trying, as a disconnect too.       *)
(***************************************************************************)
\* Slip: clear_enterprise_credentials() forgets the password.
ResetsStationKeepingPassword ==
    /\ radio' = "off"
    /\ enterprise' = [NoEnterprise EXCEPT !.pass = enterprise.pass]
    /\ \/ UNCHANGED events
       \/ radio \in {"joining", "up"} /\ Posts("other")

ResetsStation ==
    /\ radio' = "off"
    /\ enterprise' = NoEnterprise
    /\ \/ UNCHANGED events
       \/ radio \in {"joining", "up"} /\ Posts("other")

\* resolve_station_auth_mode(): without a user name the join is personal;
\* with one, the scan decides, and a network out of sight is enterprise.
Modes(c) == IF c.user = Empty THEN {"personal"} ELSE {"personal", "enterprise"}

\* The fields are set, and the driver starts to join.
StartsJoin(c, mode) ==
    /\ EventsHandled
    /\ enterprise' = IF mode = "enterprise"
                     THEN [on |-> TRUE,
                           user |-> c.user,
                           pass |-> IF c.pass = Empty THEN enterprise.pass ELSE c.pass]
                     ELSE [enterprise EXCEPT !.on = FALSE]
    /\ radio' = "joining"
    /\ status' = "DISCONNECTED"

(***************************************************************************)
(* What the phone is told.                                                 *)
(***************************************************************************)
ByStatus(s) ==
    CASE s = "NO_SSID" -> "no_ssid"
      [] s = "CONNECT_FAILED" -> "auth_error"
      [] s = "CONNECTION_LOST" -> "connection_lost"
      [] s = "DISCONNECTED" -> "disconnected"
      [] OTHER -> "connect_failed"

\* ble_provision_failure_reason()
FailureReason(s, reason) ==
    CASE reason = "no_ap" -> "no_ssid"
      [] reason = "auth" -> "auth_error"
      [] reason = "lost" -> "connection_lost"
      [] OTHER -> ByStatus(s)

\* failure_priority()
Priority(s, reason) ==
    IF s = "CONNECT_FAILED" \/ reason = "auth" THEN 3
    ELSE IF s = "CONNECTION_LOST" \/ reason = "lost" THEN 2
    ELSE IF s = "NO_SSID" \/ reason = "no_ap" THEN 1
    ELSE 0

\* Slip: the last attempt counts, however little it says.
LastIsBest(s, reason) == TRUE

IsBest(s, reason) == Priority(s, reason) >= Priority(bestStatus, bestReason)

(***************************************************************************)
(* The blocking join: connect_station_for_provisioning(), cut at the calls *)
(* of connect_station_once() that sleep.                                   *)
(***************************************************************************)
SessionBegins(c) ==
    /\ at = "idle"
    /\ at' = "starting"
    /\ creds' = c
    /\ attempt' = 1
    /\ bestStatus' = "IDLE"
    /\ bestReason' = "unspecified"
    /\ causes' = {}
    /\ refused' = FALSE
    /\ told' = "nothing"
    /\ UNCHANGED <<driverVars, handler, enterprise, finalStatus>>

\* Slip: the reason of an earlier disconnect is kept.
AttemptStartsStale ==
    /\ at = "starting"
    /\ at' = "resolving"
    /\ handler' = TRUE
    /\ finalStatus' = "IDLE"
    /\ ResetsStation
    /\ UNCHANGED <<status, lastReason, creds, attempt, bestStatus, bestReason, told, refused, causes>>

AttemptStarts ==
    /\ at = "starting"
    /\ at' = "resolving"
    /\ handler' = TRUE
    /\ lastReason' = "unspecified"
    /\ finalStatus' = "IDLE"
    /\ ResetsStation
    /\ UNCHANGED <<status, creds, attempt, bestStatus, bestReason, told, refused, causes>>

AttemptJoins ==
    /\ at = "resolving"
    /\ at' = "polling"
    /\ \E mode \in Modes(creds) : StartsJoin(creds, mode)
    /\ UNCHANGED <<events, lastReason, handler, sessionVars, causes>>

AttemptSucceeds ==
    /\ at = "polling"
    /\ status = "CONNECTED"
    /\ at' = "idle"
    /\ told' = "joined"
    /\ UNCHANGED <<driverVars, handler, enterprise, creds, attempt, finalStatus, bestStatus,
                   bestReason, refused, causes>>

\* Every poll has failed: the status is read, then the station reset.
AttemptTimesOut ==
    /\ at = "polling"
    /\ status # "CONNECTED"
    /\ at' = "failed"
    /\ finalStatus' = status
    /\ refused' = (refused \/ status = "CONNECT_FAILED")
    /\ ResetsStation
    /\ UNCHANGED <<status, lastReason, handler, creds, attempt, bestStatus, bestReason, told, causes>>

\* After the delay() in that reset the reason is read.
AttemptFails ==
    /\ at = "failed"
    /\ EventsHandled
    /\ bestStatus' = IF IsBest(finalStatus, lastReason) THEN finalStatus ELSE bestStatus
    /\ bestReason' = IF IsBest(finalStatus, lastReason) THEN lastReason ELSE bestReason
    /\ IF attempt < MaxAttempts
       THEN /\ at' = "starting"
            /\ attempt' = attempt + 1
            /\ UNCHANGED told
       ELSE /\ at' = "idle"
            /\ told' = FailureReason(IF bestStatus' = "IDLE" THEN finalStatus ELSE bestStatus',
                                     lastReason)
            /\ UNCHANGED attempt
    /\ UNCHANGED <<driverVars, handler, enterprise, creds, finalStatus, refused, causes>>

(***************************************************************************)
(* begin_station(): the driver goes on by itself.                          *)
(***************************************************************************)
RetryResets(c) ==
    /\ at = "idle"
    /\ at' = "async"
    /\ creds' = c
    /\ ResetsStation
    /\ UNCHANGED <<status, lastReason, handler, attempt, finalStatus, bestStatus, bestReason,
                   told, refused, causes>>

RetryJoins ==
    /\ at = "async"
    /\ at' = "idle"
    /\ \E mode \in Modes(creds) : StartsJoin(creds, mode)
    /\ UNCHANGED <<events, lastReason, handler, sessionVars, causes>>

EventTask == HandlesEvent
Driver == DriverJoins \/ \E reason \in Failures : DriverFails(reason)
JoinGoesOn == AttemptStarts \/ AttemptJoins \/ AttemptSucceeds \/ AttemptTimesOut
              \/ AttemptFails \/ RetryJoins
JoinBegins == \E c \in Submissions : SessionBegins(c) \/ RetryResets(c)

JoinNext == EventTask \/ Driver \/ JoinGoesOn \/ JoinBegins

JoinSpec == JoinInit /\ [][JoinNext]_joinVars

(***************************************************************************)
(* Properties.                                                             *)
(***************************************************************************)
\* A join never presents the enterprise identity of an earlier submission:
\* what the driver holds is what this one came with, although an empty
\* password is not set and the fields outlive WiFi.begin().
JoinUsesOwnIdentity ==
    [][radio # "joining" /\ radio' = "joining" /\ enterprise'.on =>
        enterprise'.user = creds.user /\ enterprise'.pass = creds.pass]_joinVars

\* What the phone is told happened to a join of its own session, whatever
\* became of the link before, and whenever the event task ran.
ToldReasonHappened ==
    /\ told = "auth_error" => "auth" \in causes
    /\ told = "no_ssid" => "no_ap" \in causes
    /\ told = "connection_lost" => causes \cap {"lost", "auth"} # {}

\* When the access point refused the passphrase in one attempt, the other
\* attempts do not hide it from the phone, unless the last one gave a reason
\* of its own, or a later refusal showed only in its reason: that reason is
\* remembered (bestReason) and not told.
RefusalIsTold ==
    [][at = "failed" /\ at' = "idle" /\ refused =>
        told' = "auth_error" \/ lastReason \in {"no_ap", "lost"} \/ bestReason' = "auth"]_joinVars

=============================================================================
