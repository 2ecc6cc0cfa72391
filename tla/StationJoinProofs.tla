--------------------------- MODULE StationJoinProofs ---------------------------
(***************************************************************************)
(* Proofs about StationJoin, for any users and passphrases, any number of  *)
(* attempts from two on, and any number of unhandled events.               *)
(***************************************************************************)
EXTENDS StationJoin, TLAPS

(***************************************************************************)
(* The identity.                                                           *)
(***************************************************************************)
\* Between the reset and WiFi.begin() the driver holds no identity.
IdentityInv ==
    /\ at \in {"resolving", "async"} => enterprise = NoEnterprise

\* No step between the reset and the join sets a field.
LEMMA IdentityStep == IdentityInv /\ [JoinNext]_joinVars => IdentityInv'
<1> SUFFICES ASSUME IdentityInv, [JoinNext]_joinVars PROVE IdentityInv'
  OBVIOUS
<1> USE DEF IdentityInv
<1>1. CASE HandlesEvent \/ DriverJoins \/ \E reason \in Failures : DriverFails(reason)
  BY <1>1 DEF HandlesEvent, DriverJoins, DriverFails
<1>2. CASE AttemptStarts \/ \E c \in Submissions : RetryResets(c)
  BY <1>2 DEF AttemptStarts, RetryResets, ResetsStation
<1>3. CASE AttemptJoins \/ AttemptSucceeds \/ AttemptTimesOut \/ AttemptFails \/ RetryJoins
  <2>1. at' \notin {"resolving", "async"}
    <3>1. CASE AttemptJoins \/ AttemptSucceeds \/ AttemptTimesOut \/ RetryJoins
      BY <3>1 DEF AttemptJoins, AttemptSucceeds, AttemptTimesOut, RetryJoins
    <3>2. CASE AttemptFails
      BY <3>2 DEF AttemptFails
    <3> QED
      BY <1>3, <3>1, <3>2
  <2> QED
    BY <2>1
<1>4. CASE \E c \in Submissions : SessionBegins(c)
  BY <1>4 DEF SessionBegins
<1>5. CASE UNCHANGED joinVars
  BY <1>5 DEF joinVars
<1> QED
  BY <1>1, <1>2, <1>3, <1>4, <1>5 DEF JoinNext, EventTask, Driver, JoinGoesOn, JoinBegins

\* What StartsJoin() sets on an empty driver is what was submitted.
LEMMA JoinPresentsSubmission ==
    ASSUME IdentityInv, at \in {"resolving", "async"},
           NEW mode, StartsJoin(creds, mode), enterprise'.on
    PROVE  enterprise'.user = creds.user /\ enterprise'.pass = creds.pass
<1>1. enterprise = NoEnterprise
  BY DEF IdentityInv
<1>2. CASE mode = "enterprise"
  BY <1>1, <1>2 DEF StartsJoin, NoEnterprise
<1>3. CASE mode # "enterprise"
  <2>1. enterprise' = [enterprise EXCEPT !.on = FALSE]
    BY <1>3 DEF StartsJoin
  <2>2. enterprise'.on = FALSE
    BY <1>1, <2>1 DEF NoEnterprise
  <2> QED
    BY <2>2
<1> QED
  BY <1>2, <1>3

\* connect_station_once() and begin_station(): the reset before a join clears
\* what set_enterprise_credentials() would otherwise leave in place.
THEOREM JoinsAreOwn == JoinSpec => JoinUsesOwnIdentity
<1> DEFINE Own == radio # "joining" /\ radio' = "joining" /\ enterprise'.on =>
                      enterprise'.user = creds.user /\ enterprise'.pass = creds.pass
<1>1. JoinInit => IdentityInv
  BY DEF JoinInit, IdentityInv
<1>2. IdentityInv /\ [JoinNext]_joinVars => IdentityInv'
  BY IdentityStep
<1>3. IdentityInv /\ [JoinNext]_joinVars => [Own]_joinVars
  <2> SUFFICES ASSUME IdentityInv, JoinNext, radio # "joining", radio' = "joining", enterprise'.on
               PROVE  enterprise'.user = creds.user /\ enterprise'.pass = creds.pass
    BY DEF Own
  <2>1. AttemptJoins \/ RetryJoins
    BY DEF JoinNext, EventTask, Driver, JoinGoesOn, JoinBegins, HandlesEvent, DriverJoins,
           DriverFails, AttemptStarts, AttemptSucceeds, AttemptTimesOut, AttemptFails,
           SessionBegins, RetryResets, ResetsStation, driverVars
  <2>2. at \in {"resolving", "async"} /\ \E mode \in Modes(creds) : StartsJoin(creds, mode)
    BY <2>1 DEF AttemptJoins, RetryJoins
  <2> QED
    BY <2>2, JoinPresentsSubmission
<1> QED
  BY <1>1, <1>2, <1>3, PTL DEF JoinSpec, JoinUsesOwnIdentity

(***************************************************************************)
(* The reason.  A reason, or a status that stands for one, is caused when  *)
(* a join of this session failed with it.                                  *)
(***************************************************************************)
CausedReason(reason) == reason \in {"no_ap", "auth", "lost"} => reason \in causes

CausedStatus(s) ==
    /\ s = "CONNECT_FAILED" => "auth" \in causes
    /\ s = "NO_SSID" => "no_ap" \in causes
    /\ s = "CONNECTION_LOST" => causes \cap {"lost", "auth"} # {}

CausedEvents == \A i \in DOMAIN events : CausedReason(events[i])

\* From the second attempt on nothing is left of what came before the session.
CauseInv ==
    /\ events \in Seq(Failures \cup {"connected"})
    /\ attempt \in Nat
    /\ at \in {"polling", "failed"} => CausedEvents /\ CausedStatus(status)
    /\ at = "failed" => radio = "off" /\ CausedStatus(finalStatus)
    /\ at \in {"polling", "failed"} /\ attempt > 1 => CausedReason(lastReason)
    /\ at \in {"starting", "resolving"} /\ attempt > 1 => radio = "off" /\ events = <<>>
    /\ at = "resolving" => radio = "off" /\ (attempt > 1 => CausedReason(lastReason))
    /\ at \in {"starting", "resolving", "polling", "failed"} => CausedStatus(bestStatus)
    /\ ToldReasonHappened

\* What was caused stays so while the session's causes only grow.
LEMMA CausesGrow ==
    ASSUME causes \subseteq causes'
    PROVE  /\ \A reason : CausedReason(reason) => CausedReason(reason)'
           /\ \A s : CausedStatus(s) => CausedStatus(s)'
BY DEF CausedReason, CausedStatus


\* The statuses derived from a caused event are caused.
LEMMA StatusOfCaused ==
    ASSUME NEW event \in Failures \cup {"connected"}, CausedReason(event),
           NEW s \in StatusesOf(event)
    PROVE  CausedStatus(s)
<1>1. CASE event = "connected"
  BY <1>1 DEF StatusesOf, CausedStatus
<1>2. CASE event = "no_ap"
  <2>1. s = "NO_SSID" /\ "no_ap" \in causes
    BY <1>2 DEF StatusesOf, CausedReason
  <2> QED
    BY <2>1 DEF CausedStatus
<1>3. CASE event = "auth"
  <2>1. s \in {"CONNECT_FAILED", "CONNECTION_LOST", "DISCONNECTED"} /\ "auth" \in causes
    BY <1>3 DEF StatusesOf, CausedReason
  <2> QED
    BY <2>1 DEF CausedStatus
<1>4. CASE event = "lost"
  <2>1. s \in {"CONNECTION_LOST", "DISCONNECTED"} /\ "lost" \in causes
    BY <1>4 DEF StatusesOf, CausedReason
  <2> QED
    BY <2>1 DEF CausedStatus
<1>5. CASE event = "other"
  <2>1. s = "DISCONNECTED"
    BY <1>5 DEF StatusesOf
  <2> QED
    BY <2>1 DEF CausedStatus
<1> QED
  BY <1>1, <1>2, <1>3, <1>4, <1>5 DEF Failures

\* What is told of a caused status and a caused reason happened.
LEMMA FailureOfCaused ==
    ASSUME NEW s, NEW reason, CausedStatus(s), CausedReason(reason),
           told' = FailureReason(s, reason), causes' = causes
    PROVE  ToldReasonHappened'
<1>1. CASE reason = "no_ap"
  <2>1. told' = "no_ssid" /\ "no_ap" \in causes
    BY <1>1 DEF FailureReason, CausedReason
  <2> QED
    BY <2>1 DEF ToldReasonHappened
<1>2. CASE reason = "auth"
  <2>1. told' = "auth_error" /\ "auth" \in causes
    BY <1>2 DEF FailureReason, CausedReason
  <2> QED
    BY <2>1 DEF ToldReasonHappened
<1>3. CASE reason = "lost"
  <2>1. told' = "connection_lost" /\ "lost" \in causes
    BY <1>3 DEF FailureReason, CausedReason
  <2> QED
    BY <2>1 DEF ToldReasonHappened
<1>4. CASE reason \notin {"no_ap", "auth", "lost"}
  <2>1. told' = ByStatus(s)
    BY <1>4 DEF FailureReason
  <2>2. CASE s = "NO_SSID"
    <3>1. told' = "no_ssid" /\ "no_ap" \in causes
      BY <2>1, <2>2 DEF ByStatus, CausedStatus
    <3> QED
      BY <3>1 DEF ToldReasonHappened
  <2>3. CASE s = "CONNECT_FAILED"
    <3>1. told' = "auth_error" /\ "auth" \in causes
      BY <2>1, <2>3 DEF ByStatus, CausedStatus
    <3> QED
      BY <3>1 DEF ToldReasonHappened
  <2>4. CASE s = "CONNECTION_LOST"
    <3>1. told' = "connection_lost" /\ causes \cap {"lost", "auth"} # {}
      BY <2>1, <2>4 DEF ByStatus, CausedStatus
    <3> QED
      BY <3>1 DEF ToldReasonHappened
  <2>5. CASE s \notin {"NO_SSID", "CONNECT_FAILED", "CONNECTION_LOST"}
    <3>1. told' \in {"disconnected", "connect_failed"}
      <4>1. CASE s = "DISCONNECTED"
        BY <2>1, <4>1 DEF ByStatus
      <4>2. CASE s # "DISCONNECTED"
        BY <2>1, <2>5, <4>2 DEF ByStatus
      <4> QED
        BY <4>1, <4>2
    <3> QED
      BY <3>1 DEF ToldReasonHappened
  <2> QED
    BY <2>2, <2>3, <2>4, <2>5
<1> QED
  BY <1>1, <1>2, <1>3, <1>4

\* The first event is taken; the rest stay.
LEMMA TakesEvent ==
    ASSUME events \in Seq(Failures \cup {"connected"}), events # <<>>, events' = Tail(events)
    PROVE  /\ Head(events) \in Failures \cup {"connected"}
           /\ events' \in Seq(Failures \cup {"connected"})
           /\ CausedEvents /\ causes' = causes => CausedEvents' /\ CausedReason(Head(events))
<1>1. Head(events) = events[1] /\ 1 \in DOMAIN events
  OBVIOUS
<1>2. \A i \in DOMAIN events' : i + 1 \in DOMAIN events /\ events'[i] = events[i + 1]
  OBVIOUS
<1>3. ASSUME CausedEvents, causes' = causes
      PROVE  CausedEvents' /\ CausedReason(Head(events))
  <2>1. CausedReason(Head(events))
    BY <1>1, <1>3 DEF CausedEvents
  <2>2. ASSUME NEW i \in DOMAIN events'
        PROVE  CausedReason(events[i])'
    <3>1. CausedReason(events[i + 1])
      BY <1>2, <1>3, <2>2 DEF CausedEvents
    <3> QED
      BY <1>2, <1>3, <2>2, <3>1 DEF CausedReason
  <2> QED
    BY <2>1, <2>2 DEF CausedEvents
<1> QED
  BY <1>1, <1>3

\* An event is posted behind the others.
LEMMA PostsEvent ==
    ASSUME events \in Seq(Failures \cup {"connected"}), NEW event \in Failures \cup {"connected"},
           Posts(event)
    PROVE  /\ events' \in Seq(Failures \cup {"connected"})
           /\ CausedEvents /\ causes \subseteq causes' /\ CausedReason(event)' => CausedEvents'
<1>1. events' = Append(events, event)
  BY DEF Posts
<1>2. \A i \in DOMAIN events' : events'[i] = event \/ (i \in DOMAIN events /\ events'[i] = events[i])
  BY <1>1
<1>3. ASSUME CausedEvents, causes \subseteq causes', CausedReason(event)'
      PROVE  CausedEvents'
  <2>1. ASSUME NEW i \in DOMAIN events'
        PROVE  CausedReason(events[i])'
    BY <1>2, <1>3, <2>1 DEF CausedEvents, CausedReason
  <2> QED
    BY <2>1 DEF CausedEvents
<1> QED
  BY <1>1, <1>3

\* The driver and its event task: what they report of the session, they caused.
LEMMA DriverKeepsCauses ==
    ASSUME CauseInv, EventTask \/ Driver
    PROVE  CauseInv'
<1> USE DEF CauseInv
<1>1. CASE HandlesEvent
  <2> DEFINE event == Head(events)
  <2>1. /\ events # <<>> /\ events' = Tail(events)
        /\ status' \in StatusesOf(event)
        /\ lastReason' \in {lastReason, "unspecified", event}
        /\ UNCHANGED <<radio, at, attempt, finalStatus, bestStatus, told, causes>>
    BY <1>1 DEF HandlesEvent, sessionVars
  <2>2. /\ event \in Failures \cup {"connected"}
        /\ events' \in Seq(Failures \cup {"connected"})
        /\ CausedEvents => CausedEvents' /\ CausedReason(event)
    BY <2>1, TakesEvent
  <2>3. CausedEvents => CausedStatus(status')
    BY <2>1, <2>2, StatusOfCaused
  <2>4. CausedReason("unspecified")
    BY DEF CausedReason
  <2> HIDE DEF event
  <2>5. CausedEvents /\ CausedReason(lastReason) => CausedReason(lastReason')
    BY <2>1, <2>2, <2>4
  <2>6. \A x : CausedReason(x)' <=> CausedReason(x)
    BY <2>1 DEF CausedReason
  <2>7. \A x : CausedStatus(x)' <=> CausedStatus(x)
    BY <2>1 DEF CausedStatus
  <2>8. ToldReasonHappened'
    BY <2>1 DEF ToldReasonHappened
  <2>9. at \in {"starting", "resolving"} => ~(attempt > 1)
    BY <2>1
  <2> QED
    BY <2>1, <2>2, <2>3, <2>5, <2>6, <2>7, <2>8, <2>9 DEF CausedReason, CausedStatus
<1>2. CASE DriverJoins
  <2>1. /\ radio = "joining" /\ Posts("connected")
        /\ UNCHANGED <<status, lastReason, at, attempt, finalStatus, bestStatus, told, causes>>
    BY <1>2 DEF DriverJoins, sessionVars
  <2>2. CausedReason("connected")'
    BY DEF CausedReason
  <2>3. events' \in Seq(Failures \cup {"connected"}) /\ (CausedEvents => CausedEvents')
    BY <2>1, <2>2, PostsEvent
  <2>4. ToldReasonHappened'
    BY <2>1 DEF ToldReasonHappened
  <2> QED
    BY <2>1, <2>3, <2>4 DEF CausedReason, CausedStatus
<1>3. ASSUME NEW reason \in Failures, DriverFails(reason)
      PROVE  CauseInv'
  <2>1. /\ radio \in {"joining", "up"} /\ Posts(reason)
        /\ causes' = IF InSession THEN causes \cup {reason} ELSE causes
        /\ UNCHANGED <<status, lastReason, at, attempt, finalStatus, bestStatus, told>>
    BY <1>3 DEF DriverFails, sessionVars
  <2>2. causes \subseteq causes' /\ (InSession => CausedReason(reason)')
    BY <2>1 DEF CausedReason
  <2>3. /\ events' \in Seq(Failures \cup {"connected"})
        /\ CausedEvents /\ InSession => CausedEvents'
    BY <2>1, <2>2, PostsEvent
  <2>4. ToldReasonHappened'
    BY <2>1, <2>2 DEF ToldReasonHappened
  <2>5. /\ \A x : CausedReason(x) => CausedReason(x)'
        /\ \A x : CausedStatus(x) => CausedStatus(x)'
    BY <2>2, CausesGrow
  <2>6. at \in {"polling", "failed"} <=> InSession
    BY DEF InSession
  <2>7. /\ CausedStatus(status) => CausedStatus(status)'
        /\ CausedStatus(bestStatus) => CausedStatus(bestStatus)'
        /\ CausedReason(lastReason) => CausedReason(lastReason)'
    BY <2>1, <2>2 DEF CausedStatus, CausedReason
  <2> QED
    BY <2>1, <2>3, <2>4, <2>6, <2>7
<1> QED
  BY <1>1, <1>2, <1>3 DEF EventTask, Driver

\* A reset leaves the radio off and posts a disconnect that tells nothing.
LEMMA ResetKeepsCauses ==
    ASSUME events \in Seq(Failures \cup {"connected"}), ResetsStation, causes' = causes
    PROVE  /\ radio' = "off"
           /\ events' \in Seq(Failures \cup {"connected"})
           /\ CausedEvents => CausedEvents'
           /\ radio = "off" => events' = events
<1>1. CASE UNCHANGED events
  BY <1>1 DEF ResetsStation, CausedEvents, CausedReason
<1>2. CASE radio \in {"joining", "up"} /\ Posts("other")
  <2>1. CausedReason("other")'
    BY DEF CausedReason
  <2>2. "other" \in Failures \cup {"connected"}
    BY DEF Failures
  <2>3. /\ events' \in Seq(Failures \cup {"connected"})
        /\ CausedEvents => CausedEvents'
    BY <1>2, <2>1, <2>2, PostsEvent
  <2> QED
    BY <1>2, <2>3 DEF ResetsStation
<1> QED
  BY <1>1, <1>2 DEF ResetsStation

\* Each step of a join hands on what the next one relies on.
LEMMA JoinKeepsCauses ==
    ASSUME CauseInv, JoinGoesOn \/ JoinBegins
    PROVE  CauseInv'
<1> USE JoinAssumption DEF CauseInv
<1>1. CASE AttemptStarts
  <2>1. /\ at = "starting" /\ at' = "resolving" /\ lastReason' = "unspecified" /\ ResetsStation
        /\ UNCHANGED <<status, attempt, bestStatus, told, causes>>
    BY <1>1 DEF AttemptStarts
  <2>2. /\ radio' = "off" /\ events' \in Seq(Failures \cup {"connected"})
        /\ radio = "off" => events' = events
    BY <2>1, ResetKeepsCauses
  <2>3. CausedReason(lastReason)' /\ (CausedStatus(bestStatus) => CausedStatus(bestStatus)')
    BY <2>1 DEF CausedReason, CausedStatus
  <2>4. ToldReasonHappened'
    BY <2>1 DEF ToldReasonHappened
  <2> QED
    BY <2>1, <2>2, <2>3, <2>4
<1>2. CASE AttemptJoins
  <2>1. /\ at = "resolving" /\ at' = "polling" /\ events = <<>> /\ status' = "DISCONNECTED"
        /\ UNCHANGED <<events, lastReason, attempt, bestStatus, told, causes>>
    BY <1>2 DEF AttemptJoins, StartsJoin, EventsHandled, sessionVars
  <2>2. CausedEvents' /\ CausedStatus(status)'
    BY <2>1 DEF CausedEvents, CausedStatus
  <2>3. /\ CausedStatus(bestStatus) => CausedStatus(bestStatus)'
        /\ CausedReason(lastReason) => CausedReason(lastReason)'
    BY <2>1 DEF CausedReason, CausedStatus
  <2>4. ToldReasonHappened'
    BY <2>1 DEF ToldReasonHappened
  <2> QED
    BY <2>1, <2>2, <2>3, <2>4
<1>3. CASE AttemptSucceeds
  <2>1. at' = "idle" /\ told' = "joined" /\ UNCHANGED <<events, attempt>>
    BY <1>3 DEF AttemptSucceeds, driverVars
  <2>2. ToldReasonHappened'
    BY <2>1 DEF ToldReasonHappened
  <2> QED
    BY <2>1, <2>2
<1>4. CASE AttemptTimesOut
  <2>1. /\ at = "polling" /\ at' = "failed" /\ finalStatus' = status /\ ResetsStation
        /\ UNCHANGED <<status, lastReason, attempt, bestStatus, told, causes>>
    BY <1>4 DEF AttemptTimesOut
  <2>2. /\ radio' = "off" /\ events' \in Seq(Failures \cup {"connected"}) /\ CausedEvents'
    BY <2>1, ResetKeepsCauses
  <2>3. /\ CausedStatus(status) => CausedStatus(status)' /\ CausedStatus(finalStatus)'
        /\ CausedStatus(bestStatus) => CausedStatus(bestStatus)'
        /\ CausedReason(lastReason) => CausedReason(lastReason)'
    BY <2>1 DEF CausedReason, CausedStatus
  <2>4. ToldReasonHappened'
    BY <2>1 DEF ToldReasonHappened
  <2> QED
    BY <2>1, <2>2, <2>3, <2>4
<1>5. CASE AttemptFails
  <2>1. /\ at = "failed" /\ events = <<>> /\ bestStatus' \in {finalStatus, bestStatus}
        /\ UNCHANGED <<radio, events, status, lastReason, finalStatus, causes>>
    <3>1. bestStatus' \in {finalStatus, bestStatus}
      <4>1. CASE IsBest(finalStatus, lastReason)
        BY <1>5, <4>1 DEF AttemptFails
      <4>2. CASE ~IsBest(finalStatus, lastReason)
        BY <1>5, <4>2 DEF AttemptFails
      <4> QED
        BY <4>1, <4>2
    <3> QED
      BY <1>5, <3>1 DEF AttemptFails, EventsHandled, driverVars
  <2>2. CausedStatus(bestStatus')
    BY <2>1
  <2>3. CausedStatus(bestStatus)'
    BY <2>1, <2>2 DEF CausedStatus
  <2>4. CASE attempt < MaxAttempts
    <3>1. at' = "starting" /\ attempt' = attempt + 1 /\ told' = told
      BY <1>5, <2>4 DEF AttemptFails
    <3>2. ToldReasonHappened'
      BY <2>1, <3>1 DEF ToldReasonHappened
    <3>3. attempt' \in Nat
      BY <3>1
    <3> QED
      BY <2>1, <2>3, <3>1, <3>2, <3>3
  <2>5. CASE ~(attempt < MaxAttempts)
    <3> DEFINE s == IF bestStatus' = "IDLE" THEN finalStatus ELSE bestStatus'
    <3>1. at' = "idle" /\ attempt' = attempt /\ told' = FailureReason(s, lastReason)
      BY <1>5, <2>5 DEF AttemptFails
    <3>2. attempt > 1
      BY <2>5
    <3>3. CausedStatus(s) /\ CausedReason(lastReason)
      BY <2>1, <2>2, <3>2
    <3> HIDE DEF s
    <3>4. ToldReasonHappened'
      BY <2>1, <3>1, <3>3, FailureOfCaused
    <3> QED
      BY <2>1, <3>1, <3>4
  <2> QED
    BY <2>4, <2>5
<1>6. CASE RetryJoins
  <2>1. at' = "idle" /\ UNCHANGED <<events, attempt, told, causes>>
    BY <1>6 DEF RetryJoins, sessionVars
  <2>2. ToldReasonHappened'
    BY <2>1 DEF ToldReasonHappened
  <2> QED
    BY <2>1, <2>2
<1>7. ASSUME NEW c \in Submissions, SessionBegins(c)
      PROVE  CauseInv'
  <2>1. /\ at' = "starting" /\ attempt' = 1 /\ bestStatus' = "IDLE" /\ told' = "nothing"
        /\ events' = events
    BY <1>7 DEF SessionBegins, driverVars
  <2>2. CausedStatus(bestStatus)' /\ ToldReasonHappened'
    BY <2>1 DEF CausedStatus, ToldReasonHappened
  <2> QED
    BY <2>1, <2>2
<1>8. ASSUME NEW c \in Submissions, RetryResets(c)
      PROVE  CauseInv'
  <2>1. /\ at' = "async" /\ ResetsStation
        /\ UNCHANGED <<attempt, told, causes>>
    BY <1>8 DEF RetryResets
  <2>2. events' \in Seq(Failures \cup {"connected"})
    BY <2>1, ResetKeepsCauses
  <2>3. ToldReasonHappened'
    BY <2>1 DEF ToldReasonHappened
  <2> QED
    BY <2>1, <2>2, <2>3
<1> QED
  BY <1>1, <1>2, <1>3, <1>4, <1>5, <1>6, <1>7, <1>8 DEF JoinGoesOn, JoinBegins

\* ble_provision_failure_reason(): what the phone is told is no leftover of an
\* earlier link, whatever the order in which the event task ran.
THEOREM ToldIsTrue == JoinSpec => []ToldReasonHappened
<1>1. JoinInit => CauseInv
  <2> SUFFICES ASSUME JoinInit PROVE CauseInv
    OBVIOUS
  <2>1. ToldReasonHappened
    BY DEF JoinInit, ToldReasonHappened
  <2>2. events \in Seq(Failures \cup {"connected"}) /\ attempt \in Nat /\ at = "idle"
    BY DEF JoinInit
  <2> QED
    BY <2>1, <2>2 DEF CauseInv
<1>2. CauseInv /\ [JoinNext]_joinVars => CauseInv'
  <2>1. CauseInv /\ JoinNext => CauseInv'
    BY DriverKeepsCauses, JoinKeepsCauses DEF JoinNext
  <2>2. CauseInv /\ UNCHANGED joinVars => CauseInv'
    <3> SUFFICES ASSUME CauseInv, UNCHANGED joinVars PROVE CauseInv'
      OBVIOUS
    <3> QED
      BY DEF joinVars, driverVars, sessionVars, CauseInv, CausedEvents, CausedReason, CausedStatus,
             ToldReasonHappened
  <2> QED
    BY <2>1, <2>2
<1>3. CauseInv => ToldReasonHappened
  BY DEF CauseInv
<1> QED
  BY <1>1, <1>2, <1>3, PTL DEF JoinSpec

(***************************************************************************)
(* The refusal.                                                            *)
(***************************************************************************)
\* A refusal that this session has seen is the best result so far, or the one
\* that is compared next; nothing counts for more.
RefusalInv ==
    refused => \/ Priority(bestStatus, bestReason) = 3
               \/ at = "failed" /\ finalStatus = "CONNECT_FAILED"

\* failure_priority(): refusals have the highest priority, and only they.
LEMMA RefusalIsHighest ==
    ASSUME NEW s, NEW reason
    PROVE  /\ Priority(s, reason) \in 0..3
           /\ Priority(s, reason) = 3 <=> s = "CONNECT_FAILED" \/ reason = "auth"
BY DEF Priority

\* After the last comparison of an attempt the best result is a refusal if
\* there was one in the session.
LEMMA RefusalIsBest ==
    ASSUME RefusalInv, refused, AttemptFails
    PROVE  Priority(bestStatus', bestReason') = 3
<1>1. CASE IsBest(finalStatus, lastReason)
  <2>1. bestStatus' = finalStatus /\ bestReason' = lastReason
    BY <1>1 DEF AttemptFails
  <2>2. Priority(finalStatus, lastReason) = 3
    <3>1. CASE Priority(bestStatus, bestReason) = 3
      <4>1. Priority(finalStatus, lastReason) >= 3
        BY <1>1, <3>1 DEF IsBest
      <4> QED
        BY <4>1, RefusalIsHighest
    <3>2. CASE finalStatus = "CONNECT_FAILED"
      BY <3>2, RefusalIsHighest
    <3> QED
      BY <3>1, <3>2 DEF RefusalInv
  <2> QED
    BY <2>1, <2>2
<1>2. CASE ~IsBest(finalStatus, lastReason)
  <2>1. bestStatus' = bestStatus /\ bestReason' = bestReason
    BY <1>2 DEF AttemptFails
  <2>2. finalStatus # "CONNECT_FAILED"
    <3>1. ASSUME finalStatus = "CONNECT_FAILED"
          PROVE  FALSE
      <4>1. Priority(finalStatus, lastReason) = 3 /\ Priority(bestStatus, bestReason) \in 0..3
        BY <3>1, RefusalIsHighest
      <4> QED
        BY <1>2, <4>1 DEF IsBest
    <3> QED
      BY <3>1
  <2> QED
    BY <2>1, <2>2 DEF RefusalInv
<1> QED
  BY <1>1, <1>2

\* No step forgets a refusal before the session ends.
LEMMA RefusalStep == RefusalInv /\ [JoinNext]_joinVars => RefusalInv'
<1> SUFFICES ASSUME RefusalInv, [JoinNext]_joinVars PROVE RefusalInv'
  OBVIOUS
<1> USE DEF RefusalInv
<1>1. CASE UNCHANGED <<at, finalStatus, bestStatus, bestReason, refused>>
  BY <1>1
<1>2. CASE EventTask \/ Driver \/ UNCHANGED joinVars
  BY <1>1, <1>2 DEF EventTask, HandlesEvent, Driver, DriverJoins, DriverFails, sessionVars, joinVars
<1>3. CASE AttemptStarts \/ AttemptJoins \/ AttemptSucceeds \/ RetryJoins
  <2>1. at # "failed" /\ UNCHANGED <<bestStatus, bestReason, refused>>
    BY <1>3 DEF AttemptStarts, AttemptJoins, AttemptSucceeds, RetryJoins, sessionVars
  <2> QED
    BY <2>1
<1>4. CASE AttemptTimesOut
  <2>1. /\ at = "polling" /\ at' = "failed" /\ finalStatus' = status
        /\ refused' = (refused \/ status = "CONNECT_FAILED")
        /\ UNCHANGED <<bestStatus, bestReason>>
    BY <1>4 DEF AttemptTimesOut
  <2> QED
    BY <2>1
<1>5. CASE AttemptFails
  <2>1. refused' = refused
    BY <1>5 DEF AttemptFails
  <2> QED
    BY <1>5, <2>1, RefusalIsBest
<1>6. CASE \E c \in Submissions : SessionBegins(c)
  BY <1>6 DEF SessionBegins
<1>7. CASE \E c \in Submissions : RetryResets(c)
  <2>1. at # "failed" /\ UNCHANGED <<bestStatus, bestReason, refused>>
    BY <1>7 DEF RetryResets
  <2> QED
    BY <2>1
<1> QED
  BY <1>2, <1>3, <1>4, <1>5, <1>6, <1>7 DEF JoinNext, JoinGoesOn, JoinBegins

\* connect_station_for_provisioning(): the phone is told of a refused passphrase,
\* in whichever attempt it was, but for the two cases the property names.
THEOREM RefusalReachesPhone == JoinSpec => RefusalIsTold
<1>1. JoinInit => RefusalInv
  BY DEF JoinInit, RefusalInv
<1>2. RefusalInv /\ [JoinNext]_joinVars =>
          (at = "failed" /\ at' = "idle" /\ refused =>
              told' = "auth_error" \/ lastReason \in {"no_ap", "lost"} \/ bestReason' = "auth")
  <2> SUFFICES ASSUME RefusalInv, [JoinNext]_joinVars, at = "failed", at' = "idle", refused,
                      lastReason \notin {"no_ap", "lost"}, bestReason' # "auth"
               PROVE  told' = "auth_error"
    OBVIOUS
  <2>1. AttemptFails
    BY DEF JoinNext, EventTask, HandlesEvent, Driver, DriverJoins, DriverFails, joinVars, JoinBegins,
           SessionBegins, RetryResets, JoinGoesOn, AttemptStarts, AttemptJoins, AttemptSucceeds,
           AttemptTimesOut, RetryJoins
  <2>2. bestStatus' = "CONNECT_FAILED"
    BY <2>1, RefusalIsBest, RefusalIsHighest
  <2>3. told' = FailureReason("CONNECT_FAILED", lastReason)
    BY <2>1, <2>2 DEF AttemptFails
  <2>4. CASE lastReason = "auth"
    BY <2>3, <2>4 DEF FailureReason
  <2>5. CASE lastReason # "auth"
    <3>1. told' = ByStatus("CONNECT_FAILED")
      BY <2>3, <2>5 DEF FailureReason
    <3> QED
      BY <3>1 DEF ByStatus
  <2> QED
    BY <2>4, <2>5
<1> QED
  BY <1>1, <1>2, RefusalStep, PTL DEF JoinSpec, RefusalIsTold

=============================================================================
