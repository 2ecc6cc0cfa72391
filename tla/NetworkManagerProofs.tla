------------------------- MODULE NetworkManagerProofs -------------------------
(***************************************************************************)
(* NetworkManager for every set of networks, every clock, every timeout:   *)
(* its type invariant, its safety invariants, and that it implements       *)
(* Station.                                                                *)
(***************************************************************************)
EXTENDS NetworkManager, TLAPS

(***************************************************************************)
(* The back-off, which the MQTT client shares: whatever the attempt count, *)
(* the delay of bounded_backoff lies between the base delay and the cap.   *)
(***************************************************************************)
\* Every power the table holds is a positive number, so doubling never makes a
\* delay shorter than the base.
LEMMA DoubledAtLeastBase ==
    ASSUME NEW n \in 0..MaxDoublings
    PROVE  Doubled(n) \in Nat /\ RetryBase <= Doubled(n)
<1>1. PowersOfTwo[n + 1] \in Nat /\ PowersOfTwo[n + 1] >= 1
  <2>1. n \in {0, 1, 2, 3, 4, 5, 6, 7, 8}
    BY DEF MaxDoublings
  <2>2. QED BY <2>1, SMT DEF PowersOfTwo
<1>2. RetryBase * PowersOfTwo[n + 1] \in Nat
  BY <1>1, BackoffAssumption, SMT
<1>3. RetryBase <= RetryBase * PowersOfTwo[n + 1]
  <2>1. \A b \in Nat, p \in Nat : p >= 1 => b <= b * p
    BY Z3
  <2>2. QED BY <2>1, <1>1, BackoffAssumption
<1>4. QED BY <1>2, <1>3, BackoffAssumption DEF Doubled

\* The jitter never pushes a delay over the cap, and never under the base
\* (bounded_backoff, network_manager.cpp and mqtt_client.cpp).
LEMMA JitterStaysInRange ==
    ASSUME NEW wait \in Nat, RetryBase <= wait, NEW jitter \in 0..RetryJitter
    PROVE  WithJitter(wait, jitter) \in RetryBase..RetryMax
BY BackoffAssumption, SMT DEF WithJitter

\* However many attempts have failed, the next one waits at least the base
\* delay and at most the cap: the managers neither hammer the access point or
\* the broker nor wait longer than kRetryMaxMs.
THEOREM BackoffBounded ==
    ASSUME NEW failures \in Nat
    PROVE  BackoffDelays(failures) \subseteq RetryBase..RetryMax
<1>1. Capped(failures) \in 0..MaxDoublings
  BY SMT DEF Capped, MaxDoublings
<1> SUFFICES ASSUME NEW jitter \in 0..RetryJitter
             PROVE  BoundedBackoff(failures, jitter) \in RetryBase..RetryMax
  BY DEF BackoffDelays
<1>2. QED BY <1>1, DoubledAtLeastBase, JitterStaysInRange DEF BoundedBackoff

(***************************************************************************)
(* Clock arithmetic.                                                       *)
(***************************************************************************)
\* Adding less than a full turn of the counter gives a reading again, and one
\* no later than the plain sum.
LEMMA AfterIsReading ==
    ASSUME NEW t \in Clock, NEW d \in Nat, d < ClockModulus
    PROVE  After(t, d) \in Clock /\ After(t, d) <= t + d
BY NetworkAssumption, SMT DEF After, Clock

\* The delays the manager draws from are readings of the clock, and none
\* exceeds the cap.
LEMMA DelaysAreShort ==
    ASSUME NEW n \in 0..(RetryCountModulus - 1), NEW wait \in BackoffDelays(n)
    PROVE  wait \in Nat /\ wait <= RetryMax /\ wait < ClockModulus
<1>1. n \in Nat
  BY NetworkAssumption, SMT
<1>2. wait \in RetryBase..RetryMax
  BY <1>1, BackoffBounded
<1>3. QED BY <1>2, BackoffAssumption, NetworkAssumption, SMT

(***************************************************************************)
(* Types.                                                                  *)
(***************************************************************************)
\* No operation of the manager leaves a variable outside its type: the
\* deadlines stay readings of the 32-bit clock and the attempt counter a byte.
LEMMA TypeStep == TypeOK /\ [Next]_vars => TypeOK'
<1> SUFFICES ASSUME TypeOK, [Next]_vars PROVE TypeOK'
  OBVIOUS
<1> USE NetworkAssumption DEF TypeOK, Manager!StationTypeOK, attempt
<1>0. NoNet \notin Networks /\ 0 \in Clock /\ 0 \in 0..(RetryCountModulus - 1)
  BY SMT DEF Clock
<1>1. ASSUME NEW d \in 0..MaxBlocking PROVE After(now, d) \in Clock
  BY AfterIsReading, SMT DEF Clock
<1>2. CASE Power
  <2>1. Manager!NoCredentials \in Manager!StoredCredentials
    BY DEF Manager!NoCredentials, Manager!StoredCredentials
  <2>2. LoadedCredentials \in Manager!StoredCredentials
    BY <2>1 DEF LoadedCredentials
  <2>3. ASSUME NEW joined \in BOOLEAN, NEW d \in 0..MaxBlocking, Begin(joined, d)
        PROVE  TypeOK'
    <3>1. d \in Clock
      BY SMT DEF Clock
    <3>2. QED BY <2>3, <2>2, <3>1, <1>0 DEF Begin, ClockRestarts
  <2>4. ASSUME NEW n \in Networks \cup {NoNet}
        PROVE  [nvs EXCEPT !.ssid = n] \in Manager!StoredCredentials
    BY DEF Manager!StoredCredentials
  <2>5. ASSUME NEW n \in Manager!StoredCredentials, Off(n) PROVE TypeOK'
    BY <2>5, <2>1, <1>0 DEF Off, ClockRestarts
  <2>6. CASE PowerLoss
    BY <2>6, <2>5 DEF PowerLoss
  <2>7. CASE PowerLossWhileClearing
    BY <2>7, <2>5, <2>4 DEF PowerLossWhileClearing
  <2>8. CASE \E c \in Manager!Credentials : PowerLossWhileSaving(c)
    BY <2>8, <2>5, <2>4 DEF PowerLossWhileSaving, Manager!Credentials
  <2>9. QED BY <1>2, <2>3, <2>6, <2>7, <2>8 DEF Power
<1>3. CASE JoinSucceeds
  BY <1>3 DEF JoinSucceeds, clockVars, retryVars
<1>4. CASE LinkLost
  BY <1>4 DEF LinkLost, clockVars, retryVars
<1>5. CASE StartTurn
  <2>1. PICK d \in 1..MaxTurn : ClockAdvances(d)
    BY <1>5 DEF StartTurn
  <2>2. After(now, d) \in Clock
    BY AfterIsReading, SMT DEF Clock
  <2>3. QED BY <1>5, <2>1, <2>2 DEF StartTurn, ClockAdvances
<1>6. CASE Tick
  <2>1. CASE TickConnected
    BY <2>1, <1>0 DEF TickConnected, Ticking
  <2>2. CASE TickStillJoining
    BY <2>2, <1>0 DEF TickStillJoining, Ticking, retryVars
  <2>3. CASE TickTimedOut
    <3>1. retryCount' \in 0..(RetryCountModulus - 1)
      BY <2>3, SMT DEF TickTimedOut
    <3>2. nextRetryAt' \in Clock
      <4>1. PICK wait \in BackoffDelays(retryCount') : nextRetryAt' = After(tickAt, wait)
        BY <2>3 DEF TickTimedOut
      <4>2. wait \in Nat /\ wait < ClockModulus
        BY <3>1, DelaysAreShort
      <4>3. QED BY <4>1, <4>2, AfterIsReading
    <3>3. wrapped' \in BOOLEAN
      <4>1. (now < tickAt) \in BOOLEAN
        OBVIOUS
      <4>2. wrapped' = (now < tickAt)
        BY <2>3 DEF TickTimedOut
      <4>3. QED BY <4>1, <4>2, Zenon
    <3>4. connectingStart' = 0 /\ link' = "down" /\ state' = "Disconnected"
      BY <2>3 DEF TickTimedOut
    <3>5. UNCHANGED <<now, autoReconnect, saved, nvs>> /\ inTurn' = FALSE /\ tickAt' = 0
      BY <2>3 DEF TickTimedOut, Ticking
    <3>6. QED BY <3>1, <3>2, <3>3, <3>4, <3>5, <1>0
  <2>4. CASE TickSetupMode
    BY <2>4, <1>0 DEF TickSetupMode, Ticking, retryVars
  <2>5. CASE TickNotDue
    BY <2>5, <1>0 DEF TickNotDue, Ticking, retryVars
  <2>6. CASE TickBeginStation
    BY <2>6, <1>0 DEF TickBeginStation, Ticking
  <2>7. QED BY <1>6, <2>1, <2>2, <2>3, <2>4, <2>5, <2>6 DEF Tick
<1>7. CASE Provision
  <2>1. PICK d \in 0..MaxBlocking :
           \/ ProvisionFails(d)
           \/ \E c \in Manager!Credentials, linkNow \in {"down", "up"} :
                 SetCredentials(c, linkNow, d)
    BY <1>7 DEF Provision
  <2>2. CASE ProvisionFails(d)
    BY <2>2, <1>1 DEF ProvisionFails, ClockAdvances
  <2>3. ASSUME NEW c \in Manager!Credentials, NEW linkNow \in {"down", "up"},
               SetCredentials(c, linkNow, d)
        PROVE  TypeOK'
    <3>1. c \in Manager!StoredCredentials
      BY DEF Manager!Credentials, Manager!StoredCredentials
    <3>2. QED BY <2>3, <3>1, <1>0, <1>1 DEF SetCredentials
  <2>4. QED BY <2>1, <2>2, <2>3
<1>8. CASE \E clear \in BOOLEAN : Disconnect(clear)
  <2>1. Manager!NoCredentials \in Manager!StoredCredentials
    BY DEF Manager!NoCredentials, Manager!StoredCredentials
  <2>2. QED BY <1>8, <2>1, <1>0 DEF Disconnect, clockVars
<1>9. CASE UNCHANGED vars
  BY <1>9 DEF vars, clockVars, retryVars
<1>10. QED BY <1>2, <1>3, <1>4, <1>5, <1>6, <1>7, <1>8, <1>9 DEF Next

\* A board without power is well typed.
LEMMA TypeInit == Init => TypeOK
<1> SUFFICES ASSUME Init PROVE TypeOK
  OBVIOUS
<1>1. 0 \in Clock /\ 0 \in 0..(RetryCountModulus - 1)
  BY NetworkAssumption, BackoffAssumption, SMT DEF Clock
<1>2. saved \in Manager!StoredCredentials /\ nvs \in Manager!StoredCredentials
  BY DEF Init, Manager!StationInit, Manager!NoCredentials, Manager!Credentials,
         Manager!StoredCredentials
<1>3. Manager!StationTypeOK
  BY <1>2 DEF Init, Manager!StationInit, Manager!StationTypeOK, attempt
<1>4. QED BY <1>1, <1>3 DEF Init, TypeOK

\* The type invariant of NetworkManager, for every clock width, timeout,
\* back-off parameter and set of networks.
THEOREM TypeCorrect == Spec => []TypeOK
BY TypeInit, TypeStep, PTL DEF Spec

(***************************************************************************)
(* Joins.                                                                  *)
(***************************************************************************)
\* JoiningIsOwned is inductive as it stands: the only step that starts a join
\* has credentials it may use, and the steps that take the credentials or the
\* permission away also end the join.
LEMMA JoiningStep == JoiningIsOwned /\ [Next]_vars => JoiningIsOwned'
<1> SUFFICES ASSUME JoiningIsOwned, [Next]_vars PROVE JoiningIsOwned'
  OBVIOUS
<1> USE DEF JoiningIsOwned, attempt, WillRetry, Manager!WillRetry, Manager!HasSaved
<1>1. CASE Power
  <2>1. ASSUME NEW n, Off(n) PROVE JoiningIsOwned'
    BY <2>1 DEF Off, ClockRestarts
  <2>2. ASSUME NEW joined, NEW d, Begin(joined, d) PROVE JoiningIsOwned'
    BY <2>2 DEF Begin, ClockRestarts
  <2>3. QED
    BY <1>1, <2>1, <2>2
    DEF Power, PowerLoss, PowerLossWhileClearing, PowerLossWhileSaving
<1>2. CASE JoinSucceeds
  BY <1>2 DEF JoinSucceeds, retryVars
<1>3. CASE LinkLost
  BY <1>3 DEF LinkLost, retryVars
<1>4. CASE StartTurn
  BY <1>4 DEF StartTurn
<1>5. CASE Tick
  BY <1>5
  DEF Tick, Ticking, TickConnected, TickStillJoining, TickTimedOut, TickSetupMode,
      TickNotDue, TickBeginStation, retryVars
<1>6. CASE Provision
  BY <1>6 DEF Provision, ProvisionFails, SetCredentials
<1>7. CASE \E clear \in BOOLEAN : Disconnect(clear)
  BY <1>7 DEF Disconnect
<1>8. CASE UNCHANGED vars
  BY <1>8 DEF vars, retryVars
<1>9. QED BY <1>1, <1>2, <1>3, <1>4, <1>5, <1>6, <1>7, <1>8 DEF Next

\* However joins, time-outs, disconnect commands, provisioning attempts and
\* power cuts interleave, a join in progress belongs to a manager that may use
\* its credentials and reports kConnecting.
THEOREM JoiningOwned == Spec => []JoiningIsOwned
<1>1. Init => JoiningIsOwned
  BY DEF Init, Manager!StationInit, JoiningIsOwned, attempt
<1>2. QED BY <1>1, JoiningStep, PTL DEF Spec

(***************************************************************************)
(* RAM and NVS.                                                            *)
(***************************************************************************)
\* loop() only takes a reading of the clock, and so only ticks, with power on.
TurnHasPower == inTurn => state # "Off"

\* A turn is only ever under way on a board that has power.
LEMMA PowerStep == TurnHasPower /\ [Next]_vars => TurnHasPower'
<1> USE DEF TurnHasPower
<1>1. TurnHasPower /\ Power => TurnHasPower'
  BY DEF Power, PowerLoss, PowerLossWhileClearing, PowerLossWhileSaving, Off, Begin,
         ClockRestarts
<1>2. TurnHasPower /\ Tick => TurnHasPower'
  BY DEF Tick, Ticking, TickConnected, TickStillJoining, TickTimedOut, TickSetupMode,
         TickNotDue, TickBeginStation
<1>3. TurnHasPower /\ Provision => TurnHasPower'
  BY DEF Provision, ProvisionFails, SetCredentials
<1>4. QED
  BY <1>1, <1>2, <1>3
  DEF Next, JoinSucceeds, LinkLost, StartTurn, Disconnect, clockVars, vars

\* Every step that changes one record changes the other alike, and the steps
\* that leave NVS torn leave no RAM record behind.
LEMMA NvsStep == NvsMatchesRam /\ TurnHasPower /\ [Next]_vars => NvsMatchesRam'
<1> SUFFICES ASSUME NvsMatchesRam, TurnHasPower, [Next]_vars PROVE NvsMatchesRam'
  OBVIOUS
<1> USE DEF NvsMatchesRam, LoadedCredentials
<1>1. CASE Power
  <2>1. ASSUME NEW n, Off(n) PROVE NvsMatchesRam'
    BY <2>1 DEF Off
  <2>2. ASSUME NEW joined, NEW d, Begin(joined, d) PROVE NvsMatchesRam'
    BY <2>2 DEF Begin
  <2>3. QED
    BY <1>1, <2>1, <2>2
    DEF Power, PowerLoss, PowerLossWhileClearing, PowerLossWhileSaving
<1>2. CASE JoinSucceeds
  BY <1>2 DEF JoinSucceeds
<1>3. CASE LinkLost
  BY <1>3 DEF LinkLost
<1>4. CASE StartTurn
  BY <1>4 DEF StartTurn
<1>5. CASE Tick
  <2>1. state # "Off" => saved = LoadedCredentials
    OBVIOUS
  <2>2. UNCHANGED <<saved, nvs>>
    BY <1>5
    DEF Tick, Ticking, TickConnected, TickStillJoining, TickTimedOut,
        TickSetupMode, TickNotDue, TickBeginStation
  <2>3. state # "Off"
    BY <1>5
    DEF TurnHasPower, Tick, Ticking, TickConnected, TickStillJoining, TickTimedOut,
        TickSetupMode, TickNotDue, TickBeginStation
  <2>4. QED BY <2>1, <2>2, <2>3
<1>6. CASE Provision
  <2>1. ASSUME NEW d, ProvisionFails(d) PROVE NvsMatchesRam'
    BY <2>1 DEF ProvisionFails
  <2>2. ASSUME NEW c \in Manager!Credentials, NEW linkNow \in {"down", "up"}, NEW d,
               SetCredentials(c, linkNow, d)
        PROVE  NvsMatchesRam'
    BY <2>2, NetworkAssumption DEF SetCredentials, Manager!Credentials
  <2>3. QED BY <1>6, <2>1, <2>2 DEF Provision
<1>7. CASE \E clear \in BOOLEAN : Disconnect(clear)
  BY <1>7 DEF Disconnect, Manager!NoCredentials
<1>8. CASE UNCHANGED vars
  BY <1>8 DEF vars
<1>9. QED BY <1>1, <1>2, <1>3, <1>4, <1>5, <1>6, <1>7, <1>8 DEF Next

\* Provisioning, disconnecting and starting again leave RAM and NVS alike, also
\* after power failed in the middle of a save or a clear: a torn record is then
\* loaded as it stands, or counts as none.
THEOREM NvsFollowsRam == Spec => []NvsMatchesRam
<1>1. Init => NvsMatchesRam /\ TurnHasPower
  BY DEF Init, Manager!StationInit, NvsMatchesRam, TurnHasPower
<1>2. QED BY <1>1, NvsStep, PowerStep, PTL DEF Spec

(***************************************************************************)
(* Retry deadlines.                                                        *)
(***************************************************************************)
\* Time that passes without a wrap only moves the clock forward.
LEMMA ClockForward ==
    ASSUME TypeOK, NEW d \in Nat, d < ClockModulus, ClockAdvances(d), ~wrapped'
    PROVE  now \in Nat /\ now' \in Nat /\ now <= now' /\ ~wrapped
<1>1. now \in Clock /\ now' \in Clock
  BY AfterIsReading DEF TypeOK, ClockAdvances
<1>2. ~(now' < now) /\ ~wrapped
  BY DEF ClockAdvances
<1>3. QED BY <1>1, <1>2, NetworkAssumption, SMT DEF Clock

\* A time-out sets a deadline at most the cap ahead of the reading it worked
\* with, and the clock has not wrapped since that reading.
LEMMA TimeOutDeadline ==
    ASSUME TypeOK, TickTimedOut, ~wrapped'
    PROVE  nextRetryAt' <= now' + RetryMax
<1>1. PICK wait \in BackoffDelays(retryCount') : nextRetryAt' = After(tickAt, wait)
  BY DEF TickTimedOut
<1>2. retryCount' \in 0..(RetryCountModulus - 1)
  BY NetworkAssumption, SMT DEF TypeOK, TickTimedOut
<1>3. wait \in Nat /\ wait <= RetryMax /\ wait < ClockModulus
  BY <1>2, DelaysAreShort
<1>4. tickAt \in Clock /\ now \in Clock /\ ~(now < tickAt) /\ now' = now
  BY DEF TypeOK, TickTimedOut, Ticking
<1>5. nextRetryAt' \in Clock /\ nextRetryAt' <= tickAt + wait
  BY <1>1, <1>3, <1>4, AfterIsReading
<1>6. QED BY <1>3, <1>4, <1>5, BackoffAssumption, NetworkAssumption, SMT DEF Clock

\* Every step keeps the deadline within one delay of the clock.
LEMMA DeadlineStep ==
    TypeOK /\ RetryDeadlineBounded /\ [Next]_vars => RetryDeadlineBounded'
<1> SUFFICES ASSUME TypeOK, RetryDeadlineBounded, [Next]_vars
             PROVE  RetryDeadlineBounded'
  OBVIOUS
<1> USE DEF RetryDeadlineBounded
<1>0. /\ now \in Nat /\ nextRetryAt \in Nat
      /\ RetryMax \in Nat /\ MaxBlocking \in Nat /\ ClockModulus \in Nat
      /\ MaxBlocking < ClockModulus /\ 1 < ClockModulus
  BY NetworkAssumption, BackoffAssumption, SMT DEF TypeOK, Clock
<1>1. ASSUME NEW d \in Nat, d < ClockModulus, ClockAdvances(d), UNCHANGED nextRetryAt
      PROVE  RetryDeadlineBounded'
  BY <1>0, <1>1, ClockForward, SMT
<1>2. ASSUME NEW t \in 0..MaxBlocking, NEW retryAt \in {0, t}, ClockRestarts(t, retryAt)
      PROVE  RetryDeadlineBounded'
  BY <1>0, <1>2, SMT DEF ClockRestarts
<1>3. ASSUME UNCHANGED <<now, nextRetryAt, wrapped>> PROVE RetryDeadlineBounded'
  BY <1>3
<1>4. CASE Power
  <2>1. 0 \in 0..MaxBlocking
    BY <1>0, SMT
  <2>2. QED
    BY <1>4, <1>2, <2>1
    DEF Power, Begin, PowerLoss, PowerLossWhileClearing, PowerLossWhileSaving, Off
<1>5. CASE JoinSucceeds \/ LinkLost \/ UNCHANGED vars
  BY <1>5, <1>3 DEF JoinSucceeds, LinkLost, vars, clockVars, retryVars
<1>6. CASE StartTurn
  <2>1. PICK d \in 1..MaxTurn : ClockAdvances(d)
    BY <1>6 DEF StartTurn
  <2>2. d \in Nat /\ d < ClockModulus
    BY NetworkAssumption, SMT
  <2>3. QED BY <1>6, <2>1, <2>2, <1>1 DEF StartTurn
<1>7. CASE Tick
  <2>1. CASE TickTimedOut
    BY <2>1, TimeOutDeadline
  <2>2. CASE ~TickTimedOut
    BY <1>7, <2>2, <1>3
    DEF Tick, Ticking, TickConnected, TickStillJoining, TickSetupMode, TickNotDue,
        TickBeginStation, retryVars
  <2>3. QED BY <2>1, <2>2
<1>8. CASE Provision
  <2>1. ASSUME NEW d \in 0..MaxBlocking, ProvisionFails(d) PROVE RetryDeadlineBounded'
    <3>1. d \in Nat /\ d < ClockModulus
      BY <1>0, SMT
    <3>2. QED BY <2>1, <3>1, <1>1 DEF ProvisionFails
  <2>2. ASSUME NEW d \in 0..MaxBlocking, NEW c, NEW linkNow, SetCredentials(c, linkNow, d)
        PROVE  RetryDeadlineBounded'
    <3>1. now' \in Clock
      <4>1. d \in Nat /\ d < ClockModulus
        BY <1>0, SMT
      <4>2. QED BY <2>2, <4>1, AfterIsReading DEF SetCredentials, TypeOK
    <3>2. now' \in Nat
      BY <3>1, SMT DEF Clock
    <3>3. QED BY <2>2, <3>2, <1>0, SMT DEF SetCredentials
  <2>3. QED BY <1>8, <2>1, <2>2 DEF Provision
<1>9. CASE \E clear \in BOOLEAN : Disconnect(clear)
  BY <1>9, <1>0, SMT DEF Disconnect, clockVars
<1>10. QED BY <1>4, <1>5, <1>6, <1>7, <1>8, <1>9 DEF Next

\* As long as the clock has not wrapped under it, a retry deadline is never
\* further away than kRetryMaxMs, blocking joins and stale readings included.
THEOREM DeadlineBounded == Spec => []RetryDeadlineBounded
<1>1. Init => RetryDeadlineBounded
  BY BackoffAssumption, SMT DEF Init, RetryDeadlineBounded
<1>2. QED BY <1>1, DeadlineStep, TypeInit, TypeStep, PTL DEF Spec

\* The strengthening that makes ConnectedMeansRetryDue inductive.  A deadline
\* is behind the clock not only while connected but from the moment a join
\* begins, and the join begins because the deadline is behind the reading of
\* this turn.  Neither the clock nor the reading alone is enough: a blocking
\* join that wraps the clock leaves the reading ahead of it.
DueOnceJoining ==
    (link \in {"joining", "up"} \/ state = "Connected") /\ ~wrapped => nextRetryAt <= now
ReadingIsPast ==
    inTurn /\ ~wrapped => tickAt <= now \/ nextRetryAt <= now
DueInv == DueOnceJoining /\ ReadingIsPast

\* Every step keeps the deadline behind a manager that is connected or joining.
LEMMA DueStep == TypeOK /\ DueInv /\ [Next]_vars => DueInv'
<1> SUFFICES ASSUME TypeOK, DueInv, [Next]_vars PROVE DueInv'
  OBVIOUS
<1> USE DEF DueInv, DueOnceJoining, ReadingIsPast
<1>0. /\ now \in Nat /\ nextRetryAt \in Nat /\ tickAt \in Nat
      /\ RetryMax \in Nat /\ MaxBlocking \in Nat /\ ClockModulus \in Nat
      /\ MaxBlocking < ClockModulus /\ 1 < ClockModulus
  BY NetworkAssumption, BackoffAssumption, SMT DEF TypeOK, Clock
<1>1. ASSUME NEW t \in 0..MaxBlocking, NEW retryAt \in {0, t}, ClockRestarts(t, retryAt)
      PROVE  DueInv'
  BY <1>0, <1>1, SMT DEF ClockRestarts
<1>2. CASE Power
  <2>1. 0 \in 0..MaxBlocking
    BY <1>0, SMT
  <2>2. QED
    BY <1>2, <1>1, <2>1
    DEF Power, Begin, PowerLoss, PowerLossWhileClearing, PowerLossWhileSaving, Off
<1>3. CASE JoinSucceeds
  BY <1>3 DEF JoinSucceeds, clockVars, retryVars
<1>4. CASE LinkLost
  BY <1>4 DEF LinkLost, clockVars, retryVars
<1>5. CASE UNCHANGED vars
  BY <1>5 DEF vars, clockVars, retryVars
<1>6. CASE StartTurn
  <2>1. PICK d \in 1..MaxTurn : ClockAdvances(d)
    BY <1>6 DEF StartTurn
  <2>2. d \in Nat /\ d < ClockModulus
    BY NetworkAssumption, SMT
  <2>3. tickAt' = now' /\ now' \in Nat
    <3>1. now' \in Clock
      BY <2>1, <2>2, AfterIsReading DEF ClockAdvances, TypeOK
    <3>2. now' \in Nat
      BY <3>1, SMT DEF Clock
    <3>3. QED BY <1>6, <3>2 DEF StartTurn
  <2>4. ~wrapped' => now <= now' /\ ~wrapped
    BY <2>1, <2>2, ClockForward
  <2>5. UNCHANGED <<link, state, nextRetryAt>>
    BY <1>6 DEF StartTurn
  <2>6. QED BY <2>3, <2>4, <2>5, <1>0, SMT
<1>7. CASE Tick
  <2>1. ~inTurn' /\ now' = now
    BY <1>7
    DEF Tick, Ticking, TickConnected, TickStillJoining, TickTimedOut, TickSetupMode,
        TickNotDue, TickBeginStation
  <2>2. CASE TickTimedOut
    BY <2>1, <2>2 DEF TickTimedOut
  <2>3. CASE TickBeginStation
    <3>1. tickAt >= nextRetryAt /\ inTurn /\ UNCHANGED <<nextRetryAt, wrapped>>
      BY <2>3 DEF TickBeginStation, Ticking, RetryDue
    <3>2. QED BY <2>1, <3>1, <1>0, SMT
  <2>4. CASE ~TickTimedOut /\ ~TickBeginStation
    <3>1. /\ UNCHANGED <<link, nextRetryAt, wrapped>>
          /\ state' = "Connected" => link = "up" \/ state = "Connected"
      BY <1>7, <2>4
      DEF Tick, TickConnected, TickStillJoining, TickSetupMode, TickNotDue, retryVars
    <3>2. QED BY <2>1, <3>1
  <2>5. QED BY <2>2, <2>3, <2>4
<1>8. CASE Provision
  <2>1. ASSUME NEW d \in 0..MaxBlocking PROVE d \in Nat /\ d < ClockModulus
    BY <1>0, SMT
  <2>2. ASSUME NEW d \in 0..MaxBlocking, ProvisionFails(d) PROVE DueInv'
    <3>1. ~wrapped' => now <= now' /\ ~wrapped
      BY <2>1, <2>2, ClockForward DEF ProvisionFails
    <3>2. now' \in Nat
      BY <2>1, <2>2, AfterIsReading, SMT DEF ProvisionFails, ClockAdvances, TypeOK, Clock
    <3>3. /\ UNCHANGED <<state, nextRetryAt, tickAt, inTurn>>
          /\ link' = "down"
      BY <2>2 DEF ProvisionFails
    <3>4. QED BY <3>1, <3>2, <3>3, <1>0, SMT
  <2>3. ASSUME NEW d \in 0..MaxBlocking, NEW c, NEW linkNow, SetCredentials(c, linkNow, d)
        PROVE  DueInv'
    <3>1. now' \in Nat
      BY <2>1, <2>3, AfterIsReading, SMT DEF SetCredentials, TypeOK, Clock
    <3>2. nextRetryAt' = now'
      BY <2>3 DEF SetCredentials
    <3>3. QED BY <3>1, <3>2, SMT
  <2>4. QED BY <1>8, <2>2, <2>3 DEF Provision
<1>9. CASE \E clear \in BOOLEAN : Disconnect(clear)
  <2>1. nextRetryAt' = 0 /\ now' = now
    BY <1>9 DEF Disconnect, clockVars
  <2>2. QED BY <2>1, <1>0, SMT
<1>10. QED BY <1>2, <1>3, <1>4, <1>5, <1>6, <1>7, <1>8, <1>9 DEF Next

\* A connected manager answers a drop with a join on the next turn: no delay
\* of an earlier failure is still running, although success leaves
\* nextRetryAtMs_ as the last time-out set it.
THEOREM ConnectedRetriesAtOnce == Spec => []ConnectedMeansRetryDue
<1>1. Init => DueInv
  BY SMT DEF Init, DueInv, DueOnceJoining, ReadingIsPast
<1>2. DueInv => ConnectedMeansRetryDue
  BY DEF DueInv, DueOnceJoining, ConnectedMeansRetryDue
<1>3. QED BY <1>1, <1>2, DueStep, TypeInit, TypeStep, PTL DEF Spec

(***************************************************************************)
(* The untimed contract.                                                   *)
(***************************************************************************)
LEMMA ContractStep ==
    TypeOK /\ TurnHasPower /\ [Next]_vars => [Manager!StationNext]_(Manager!stationVars)
<1> SUFFICES ASSUME TypeOK, TurnHasPower, [Next]_vars
             PROVE  [Manager!StationNext]_(Manager!stationVars)
  OBVIOUS
<1> USE DEF attempt, Manager!stationVars
<1>1. CASE Power
  <2>1. ASSUME NEW joined \in BOOLEAN, NEW d, Begin(joined, d)
        PROVE  Manager!StationBoot(joined)
    BY <2>1 DEF Begin, ClockRestarts, LoadedCredentials, Manager!StationBoot,
                Manager!LoadedCredentials
  <2>2. CASE PowerLoss
    BY <2>2 DEF PowerLoss, Off, ClockRestarts, Manager!PowerLoss, Manager!RamLost,
                Manager!StationNext
  <2>3. CASE PowerLossWhileClearing
    BY <2>3 DEF PowerLossWhileClearing, Off, ClockRestarts,
                Manager!PowerLossWhileClearing, Manager!RamLost, Manager!StationNext
  <2>4. ASSUME NEW c \in Manager!Credentials, PowerLossWhileSaving(c)
        PROVE  Manager!PowerLossWhileSaving(c)
    BY <2>4 DEF PowerLossWhileSaving, Off, ClockRestarts,
                Manager!PowerLossWhileSaving, Manager!RamLost
  <2>5. QED BY <1>1, <2>1, <2>2, <2>3, <2>4 DEF Power, Manager!StationNext
<1>2. CASE JoinSucceeds
  BY <1>2 DEF JoinSucceeds, retryVars, Manager!JoinSucceeds, Manager!StationNext
<1>3. CASE LinkLost
  BY <1>3 DEF LinkLost, retryVars, Manager!LinkLost, Manager!StationNext
<1>4. CASE StartTurn
  BY <1>4 DEF StartTurn
<1>5. CASE Tick
  <2>0. state # "Off"
    BY <1>5
    DEF TurnHasPower, Tick, Ticking, TickConnected, TickStillJoining, TickTimedOut,
        TickSetupMode, TickNotDue, TickBeginStation
  <2> USE <2>0 DEF Ticking, WillRetry
  <2>1. CASE TickConnected
    BY <2>1 DEF TickConnected, Manager!TickConnected, Manager!StationTick,
                Manager!StationNext
  <2>2. CASE TickStillJoining
    BY <2>2 DEF TickStillJoining, retryVars
  <2>3. CASE TickTimedOut
    BY <2>3 DEF TickTimedOut, Manager!TickTimedOut, Manager!StationTick,
                Manager!StationNext
  <2>4. CASE TickSetupMode
    BY <2>4 DEF TickSetupMode, retryVars, Manager!TickSetupMode, Manager!StationTick,
                Manager!StationNext
  <2>5. CASE TickNotDue
    BY <2>5 DEF TickNotDue, retryVars
  <2>6. CASE TickBeginStation
    BY <2>6 DEF TickBeginStation, Manager!TickBeginStation, Manager!StationTick,
                Manager!StationNext
  <2>7. QED BY <1>5, <2>1, <2>2, <2>3, <2>4, <2>5, <2>6 DEF Tick
<1>6. CASE Provision
  <2>1. ASSUME NEW d, ProvisionFails(d) PROVE Manager!ProvisionFails
    BY <2>1 DEF ProvisionFails, Manager!ProvisionFails
  <2>2. ASSUME NEW c, NEW linkNow, NEW d, SetCredentials(c, linkNow, d)
        PROVE  Manager!ProvisionJoins(c, linkNow)
    BY <2>2 DEF SetCredentials, Manager!ProvisionJoins, Manager!ApplyCredentials
  <2>3. QED BY <1>6, <2>1, <2>2 DEF Provision, Manager!StationNext
<1>7. CASE \E clear \in BOOLEAN : Disconnect(clear)
  BY <1>7 DEF Disconnect, Manager!Disconnect, Manager!StationNext
<1>8. CASE UNCHANGED vars
  BY <1>8 DEF vars, retryVars
<1>9. QED BY <1>1, <1>2, <1>3, <1>4, <1>5, <1>6, <1>7, <1>8 DEF Next

\* The manager with its clock, its deadlines and its wrapping counters does
\* nothing its untimed contract rules out, which is what lets the rest of the
\* device be modelled against the contract alone.
THEOREM ImplementsStation == Spec => RefinesStation
<1>1. Init => Manager!StationInit
  BY DEF Init
<1>2. Init => TurnHasPower
  BY DEF Init, TurnHasPower
<1>3. QED
  BY <1>1, <1>2, TypeInit, TypeStep, PowerStep, ContractStep, PTL
  DEF Spec, RefinesStation, Manager!StationSpec

=============================================================================
