--------------------------- MODULE NetworkManager ---------------------------
(***************************************************************************)
(* core::NetworkManager with its clock: the connect timeout, the retry     *)
(* deadline, and the 32-bit millisecond counter both are compared with.    *)
(* A turn of loop() takes some units of time, never less than its delay    *)
(* and more when its calls block, so not every value of the clock is read. *)
(* tick() works with the reading loop() took before the turn began, while  *)
(* set_credentials() reads the clock again: a blocking join in between     *)
(* makes the two differ.                                                   *)
(***************************************************************************)
EXTENDS Backoff

CONSTANTS
    Networks,
    NoNet,
    ClockModulus,        \* 2^32: millis() wraps to 0
    RetryCountModulus,   \* 2^8: retryCount_ wraps to 0
    ConnectTimeout,      \* kConnectTimeoutMs
    MaxTurn,             \* bound: the longest turn that joins nothing
    MaxBlocking          \* bound: how long a blocking join holds up loop()

ASSUME NetworkAssumption ==
    /\ NoNet \notin Networks
    /\ ClockModulus \in Nat
    /\ RetryMax < ClockModulus
    /\ MaxTurn \in Nat \ {0}
    /\ MaxTurn < ClockModulus
    /\ MaxBlocking \in Nat
    /\ MaxBlocking < ClockModulus
    /\ RetryCountModulus \in Nat \ {0}
    /\ ConnectTimeout \in Nat \ {0}

VARIABLES
    link, state, autoReconnect, saved, nvs,   \* as in Station
    now,               \* millis()
    tickAt,            \* the reading loop() took for this turn's tick(), 0 after it
    inTurn,            \* loop() has taken the reading, tick() has not run
    nextRetryAt,       \* nextRetryAtMs_
    connectingStart,   \* connectingStartMs_; 0 is "no join is timed"
    retryCount,        \* retryCount_
    wrapped            \* the clock wrapped since nextRetryAt was assigned

clockVars == <<now, tickAt, inTurn>>
retryVars == <<nextRetryAt, connectingStart, retryCount, wrapped>>
vars == <<link, state, autoReconnect, saved, nvs, clockVars, retryVars>>

attempt == connectingStart # 0

Manager == INSTANCE Station

HasSaved == Manager!HasSaved
WillRetry == Manager!WillRetry

Clock == 0..(ClockModulus - 1)

TypeOK ==
    /\ Manager!StationTypeOK
    /\ now \in Clock
    /\ tickAt \in Clock
    /\ inTurn \in BOOLEAN
    /\ nextRetryAt \in Clock
    /\ connectingStart \in Clock
    /\ retryCount \in 0..(RetryCountModulus - 1)
    /\ wrapped \in BOOLEAN

(***************************************************************************)
(* uint32_t and uint8_t arithmetic.                                        *)
(***************************************************************************)
After(t, d) == IF t + d >= ClockModulus THEN t + d - ClockModulus ELSE t + d
Since(t, s) == IF t >= s THEN t - s ELSE t + ClockModulus - s

\* Time passes: d units, at most one wrap.
ClockAdvances(d) ==
    /\ now' = After(now, d)
    /\ wrapped' = (wrapped \/ now' < now)

Init ==
    /\ connectingStart = 0
    /\ Manager!StationInit
    /\ now = 0
    /\ tickAt = 0
    /\ inTurn = FALSE
    /\ nextRetryAt = 0
    /\ retryCount = 0
    /\ wrapped = FALSE

(***************************************************************************)
(* Power.  millis() restarts at zero.                                      *)
(***************************************************************************)
ClockRestarts(t, retryAt) ==
    /\ now' = t
    /\ tickAt' = 0
    /\ inTurn' = FALSE
    /\ nextRetryAt' = retryAt
    /\ connectingStart' = 0
    /\ retryCount' = 0
    /\ wrapped' = FALSE

Off(nvsNow) ==
    /\ state # "Off"
    /\ link' = "down"
    /\ state' = "Off"
    /\ autoReconnect' = TRUE
    /\ saved' = Manager!NoCredentials
    /\ nvs' = nvsNow
    /\ ClockRestarts(0, 0)

PowerLoss == Off(nvs)
PowerLossWhileClearing == Off([nvs EXCEPT !.ssid = NoNet])
PowerLossWhileSaving(c) == Manager!Joinable(c) /\ Off([nvs EXCEPT !.ssid = c.ssid])

\* Slip: a record without a network name is loaded as it is.
LoadedUnchecked == nvs

LoadedCredentials == IF nvs.ssid = NoNet THEN Manager!NoCredentials ELSE nvs

\* begin() blocks for d while it joins.
Begin(joined, d) ==
    /\ state = "Off"
    /\ joined => Manager!Joinable(LoadedCredentials)
    /\ saved' = LoadedCredentials
    /\ autoReconnect' = TRUE
    /\ link' = IF joined THEN "up" ELSE "down"
    /\ state' = IF joined THEN "Connected" ELSE "Disconnected"
    /\ UNCHANGED nvs
    /\ ClockRestarts(d, IF joined THEN d ELSE 0)

(***************************************************************************)
(* The driver.                                                             *)
(***************************************************************************)
JoinSucceeds ==
    /\ link = "joining"
    /\ Manager!Joinable(saved)
    /\ link' = "up"
    /\ UNCHANGED <<state, autoReconnect, saved, nvs, clockVars, retryVars>>

LinkLost ==
    /\ link = "up"
    /\ link' = "down"
    /\ UNCHANGED <<state, autoReconnect, saved, nvs, clockVars, retryVars>>

(***************************************************************************)
(* loop(): delay, read the clock, run tick() with the reading.  The delay  *)
(* is one unit; the rest of a turn may have taken longer.                  *)
(***************************************************************************)
StartTurn ==
    /\ state # "Off"
    /\ ~inTurn
    /\ inTurn' = TRUE
    /\ \E d \in 1..MaxTurn : ClockAdvances(d)
    /\ tickAt' = now'
    /\ UNCHANGED <<link, state, autoReconnect, saved, nvs, nextRetryAt,
                   connectingStart, retryCount>>

\* Every path of tick() ends the network's share of the turn, and with it the
\* reading's life.
Ticking ==
    /\ inTurn
    /\ inTurn' = FALSE
    /\ tickAt' = 0
    /\ UNCHANGED <<now, autoReconnect, saved, nvs>>

TickConnected ==
    /\ Ticking
    /\ link = "up"
    /\ retryCount' = 0
    /\ connectingStart' = 0
    /\ state' = "Connected"
    /\ UNCHANGED <<link, nextRetryAt, wrapped>>

\* Slip: the timeout is compared as a deadline.
JoinTimedOutByDeadline == tickAt >= connectingStart + ConnectTimeout

JoinTimedOut == Since(tickAt, connectingStart) >= ConnectTimeout

TickStillJoining ==
    /\ Ticking
    /\ link # "up"
    /\ attempt
    /\ ~JoinTimedOut
    /\ UNCHANGED <<link, state, retryVars>>

\* Slip: a join that timed out is left to the driver.
TickTimedOutKeepsJoining ==
    /\ Ticking
    /\ link # "up"
    /\ attempt
    /\ JoinTimedOut
    /\ connectingStart' = 0
    /\ state' = "Disconnected"
    /\ retryCount' = IF retryCount + 1 = RetryCountModulus THEN 0 ELSE retryCount + 1
    /\ \E wait \in BackoffDelays(retryCount') : nextRetryAt' = After(tickAt, wait)
    /\ wrapped' = (now < tickAt)
    /\ UNCHANGED link

\* Slip: the deadline is kept in 64 bits, the clock in 32.
TickTimedOutWidens ==
    /\ Ticking
    /\ link # "up"
    /\ attempt
    /\ JoinTimedOut
    /\ connectingStart' = 0
    /\ link' = "down"
    /\ state' = "Disconnected"
    /\ retryCount' = IF retryCount + 1 = RetryCountModulus THEN 0 ELSE retryCount + 1
    /\ \E wait \in BackoffDelays(retryCount') : nextRetryAt' = tickAt + wait
    /\ wrapped' = (now < tickAt)

\* The reading may be older than a wrap that happened during the turn.
TickTimedOut ==
    /\ Ticking
    /\ link # "up"
    /\ attempt
    /\ JoinTimedOut
    /\ connectingStart' = 0
    /\ link' = "down"
    /\ state' = "Disconnected"
    /\ retryCount' = IF retryCount + 1 = RetryCountModulus THEN 0 ELSE retryCount + 1
    /\ \E wait \in BackoffDelays(retryCount') : nextRetryAt' = After(tickAt, wait)
    /\ wrapped' = (now < tickAt)

TickSetupMode ==
    /\ Ticking
    /\ link # "up"
    /\ ~attempt
    /\ ~WillRetry
    /\ state' = "Disconnected"
    /\ UNCHANGED <<link, retryVars>>

\* The code compares the two readings as plain numbers, not modulo the clock.
RetryDue == tickAt >= nextRetryAt

TickNotDue ==
    /\ Ticking
    /\ link # "up"
    /\ ~attempt
    /\ WillRetry
    /\ ~RetryDue
    /\ UNCHANGED <<link, state, retryVars>>

TickBeginStation ==
    /\ Ticking
    /\ link # "up"
    /\ ~attempt
    /\ WillRetry
    /\ RetryDue
    /\ state' = "Connecting"
    /\ link' = "joining"
    /\ connectingStart' = tickAt
    /\ UNCHANGED <<nextRetryAt, retryCount, wrapped>>

Tick ==
    \/ TickConnected
    \/ TickStillJoining
    \/ TickTimedOut
    \/ TickSetupMode
    \/ TickNotDue
    \/ TickBeginStation

(***************************************************************************)
(* Calls from the controller, before or after this turn's tick().          *)
(***************************************************************************)
\* connect_station_for_provisioning gives up: only the driver was touched.
ProvisionFails(d) ==
    /\ state # "Off"
    /\ link' = "down"
    /\ ClockAdvances(d)
    /\ UNCHANGED <<state, autoReconnect, saved, nvs, tickAt, inTurn,
                   nextRetryAt, connectingStart, retryCount>>

\* It joins, and set_credentials follows.
SetCredentials(c, linkNow, d) ==
    /\ state # "Off"
    /\ Manager!Joinable(c)
    /\ saved' = c
    /\ nvs' = c
    /\ autoReconnect' = TRUE
    /\ link' = linkNow
    /\ state' = IF linkNow = "up" THEN "Connected" ELSE "Disconnected"
    /\ now' = After(now, d)
    /\ nextRetryAt' = now'
    /\ wrapped' = FALSE
    /\ connectingStart' = 0
    /\ retryCount' = 0
    /\ UNCHANGED <<tickAt, inTurn>>

\* Slip: the time of the join survives.
DisconnectKeepsTiming(clear) ==
    /\ state # "Off"
    /\ autoReconnect' = FALSE
    /\ saved' = IF clear THEN Manager!NoCredentials ELSE saved
    /\ nvs' = IF clear THEN Manager!NoCredentials ELSE nvs
    /\ link' = "down"
    /\ state' = "Disconnected"
    /\ retryCount' = 0
    /\ nextRetryAt' = 0
    /\ wrapped' = FALSE
    /\ UNCHANGED <<connectingStart, clockVars>>

\* Slip: the credentials are cleared in RAM and stay in NVS.
DisconnectForgetsNvs(clear) ==
    /\ state # "Off"
    /\ autoReconnect' = FALSE
    /\ saved' = IF clear THEN Manager!NoCredentials ELSE saved
    /\ link' = "down"
    /\ state' = "Disconnected"
    /\ connectingStart' = 0
    /\ retryCount' = 0
    /\ nextRetryAt' = 0
    /\ wrapped' = FALSE
    /\ UNCHANGED <<nvs, clockVars>>

Disconnect(clear) ==
    /\ state # "Off"
    /\ autoReconnect' = FALSE
    /\ saved' = IF clear THEN Manager!NoCredentials ELSE saved
    /\ nvs' = IF clear THEN Manager!NoCredentials ELSE nvs
    /\ link' = "down"
    /\ state' = "Disconnected"
    /\ connectingStart' = 0
    /\ retryCount' = 0
    /\ nextRetryAt' = 0
    /\ wrapped' = FALSE
    /\ UNCHANGED clockVars

Provision ==
    \E d \in 0..MaxBlocking :
        \/ ProvisionFails(d)
        \/ \E c \in Manager!Credentials, linkNow \in {"down", "up"} :
              SetCredentials(c, linkNow, d)

Power ==
    \/ \E joined \in BOOLEAN, d \in 0..MaxBlocking : Begin(joined, d)
    \/ PowerLoss
    \/ PowerLossWhileClearing
    \/ \E c \in Manager!Credentials : PowerLossWhileSaving(c)

Next ==
    \/ Power
    \/ JoinSucceeds
    \/ LinkLost
    \/ StartTurn
    \/ Tick
    \/ Provision
    \/ \E clear \in BOOLEAN : Disconnect(clear)

Spec == Init /\ [][Next]_vars

\* loop() runs forever; an access point the driver asks again and again
\* accepts one of the requests.
FairSpec ==
    /\ Spec
    /\ WF_vars(StartTurn)
    /\ WF_vars(Tick)
    /\ SF_vars(JoinSucceeds)

(***************************************************************************)
(* Properties.                                                             *)
(***************************************************************************)
\* The driver joins, and a join is timed, only for a manager that has
\* credentials, may use them and reports kConnecting: no path through
\* set_credentials, disconnect or a failed blocking join leaves a join behind
\* that setup mode does not know of.
JoiningIsOwned ==
    (link = "joining" \/ attempt) => WillRetry /\ state = "Connecting"

\* What the manager uses is what NVS holds: no operation on the credentials,
\* once it is done, leaves RAM and NVS apart.
NvsMatchesRam ==
    state # "Off" => saved = LoadedCredentials

\* While the clock has not wrapped under it, no retry deadline lies further
\* ahead than the longest delay bounded_backoff can return.
RetryDeadlineBounded ==
    ~wrapped => nextRetryAt <= now + RetryMax

\* A connected manager has no retry deadline ahead of it, although success
\* does not reset nextRetryAtMs_: a drop is answered by a join on the next
\* turn and never waits out an old delay, unless the clock wrapped.
ConnectedMeansRetryDue ==
    state = "Connected" /\ ~wrapped => nextRetryAt <= now

\* The manager with its clock does nothing its untimed contract rules out.
RefinesStation == Manager!StationSpec

\* A join does not stay pending: it succeeds, times out or is replaced.
AttemptsEnd == (link = "joining") ~> (link # "joining")

\* While it has working credentials and may use them, the manager gives up in
\* one way only: however often joins time out, the link is lost or the clock
\* wraps, the station is joined again, unless one retry deadline lies so close
\* to the wrap that no turn reads the clock between the two, in any cycle.
KeepsWorkingCredentials ==
    state # "Off" /\ autoReconnect /\ Manager!Joinable(saved)
MayBeSteppedOver(deadline) ==
    deadline \in (ClockModulus - MaxTurn + 1)..(ClockModulus - 1)
NeverGivesUp ==
    <>[]KeepsWorkingCredentials /\ <>[][~Provision]_vars =>
        \/ []<>(link = "up")
        \/ <>[](link = "down" /\ MayBeSteppedOver(nextRetryAt))

=============================================================================
