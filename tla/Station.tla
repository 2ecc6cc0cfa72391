------------------------------- MODULE Station -------------------------------
(***************************************************************************)
(* What NetworkManager promises about the Wi-Fi station, without its       *)
(* clock: whether a retry is due and whether a join has timed out are free *)
(* choices.  NetworkManager.tla has the clock and implements this module;  *)
(* Provisioning.tla composes this module with the rest of the device.      *)
(*                                                                         *)
(* A credential pairs the network a name belongs to with the network a     *)
(* passphrase belongs to, so that a wrong passphrase and a half-written    *)
(* record can be told from a working one.                                  *)
(***************************************************************************)
CONSTANTS
    Networks,   \* the access points in reach
    NoNet       \* an absent or empty string

ASSUME NetworksAssumption == NoNet \notin Networks

VARIABLES
    link,           \* the driver's WiFi.status(): "down", "joining" or "up"
    state,          \* state_, or "Off" while the board has no power
    autoReconnect,  \* autoReconnectEnabled_
    saved,          \* savedSsid_ and savedPassword_
    nvs,            \* the same two strings in the "wifi" NVS namespace
    attempt         \* an asynchronous join is timed (connectingStartMs_ # 0)

stationVars == <<link, state, autoReconnect, saved, nvs, attempt>>

Credentials == [ssid : Networks, pass : Networks]
StoredCredentials == [ssid : Networks \cup {NoNet}, pass : Networks \cup {NoNet}]
NoCredentials == [ssid |-> NoNet, pass |-> NoNet]

\* The access point accepts the passphrase.
Joinable(c) == c.ssid \in Networks /\ c.pass = c.ssid

HasSaved == saved.ssid # NoNet
WillRetry == autoReconnect /\ HasSaved

StationTypeOK ==
    /\ link \in {"down", "joining", "up"}
    /\ state \in {"Off", "Disconnected", "Connecting", "Connected"}
    /\ autoReconnect \in BOOLEAN
    /\ saved \in StoredCredentials
    /\ nvs \in StoredCredentials
    /\ attempt \in BOOLEAN

(***************************************************************************)
(* Power.  The board starts, and after a crash restarts, from NVS alone.   *)
(***************************************************************************)
RamLost ==
    /\ link' = "down"
    /\ state' = "Off"
    /\ autoReconnect' = TRUE
    /\ saved' = NoCredentials
    /\ attempt' = FALSE

StationInit ==
    /\ link = "down"
    /\ state = "Off"
    /\ autoReconnect = TRUE
    /\ saved = NoCredentials
    /\ attempt = FALSE
    /\ nvs \in {NoCredentials} \cup {c \in Credentials : Joinable(c)}

\* load_credentials: a record without a network name counts as no record.
LoadedCredentials == IF nvs.ssid = NoNet THEN NoCredentials ELSE nvs

\* begin(): one blocking join with whatever NVS holds.
StationBoot(joined) ==
    /\ state = "Off"
    /\ joined => Joinable(LoadedCredentials)
    /\ saved' = LoadedCredentials
    /\ autoReconnect' = TRUE
    /\ attempt' = FALSE
    /\ link' = IF joined THEN "up" ELSE "down"
    /\ state' = IF joined THEN "Connected" ELSE "Disconnected"
    /\ UNCHANGED nvs

PowerLoss ==
    /\ state # "Off"
    /\ RamLost
    /\ UNCHANGED nvs

\* save_credentials writes the name, then the passphrase: power is lost
\* between the two.
PowerLossWhileSaving(c) ==
    /\ state # "Off"
    /\ Joinable(c)
    /\ RamLost
    /\ nvs' = [nvs EXCEPT !.ssid = c.ssid]

\* clear_credentials removes the name, then the passphrase.
PowerLossWhileClearing ==
    /\ state # "Off"
    /\ RamLost
    /\ nvs' = [nvs EXCEPT !.ssid = NoNet]

(***************************************************************************)
(* The driver.                                                             *)
(***************************************************************************)
JoinSucceeds ==
    /\ link = "joining"
    /\ Joinable(saved)
    /\ link' = "up"
    /\ UNCHANGED <<state, autoReconnect, saved, nvs, attempt>>

LinkLost ==
    /\ link = "up"
    /\ link' = "down"
    /\ UNCHANGED <<state, autoReconnect, saved, nvs, attempt>>

(***************************************************************************)
(* tick(), one action per path through it.                                 *)
(***************************************************************************)
TickConnected ==
    /\ state # "Off"
    /\ link = "up"
    /\ attempt' = FALSE
    /\ state' = "Connected"
    /\ UNCHANGED <<link, autoReconnect, saved, nvs>>

TickTimedOut ==
    /\ state # "Off"
    /\ link # "up"
    /\ attempt
    /\ attempt' = FALSE
    /\ link' = "down"
    /\ state' = "Disconnected"
    /\ UNCHANGED <<autoReconnect, saved, nvs>>

TickSetupMode ==
    /\ state # "Off"
    /\ link # "up"
    /\ ~attempt
    /\ ~WillRetry
    /\ state' = "Disconnected"
    /\ UNCHANGED <<link, autoReconnect, saved, nvs, attempt>>

\* connectingStartMs_ takes the tick's clock reading, and the reading 0 means
\* that no join is timed: after a wrap of the clock the join may be untimed.
TickBeginStation ==
    /\ state # "Off"
    /\ link # "up"
    /\ ~attempt
    /\ WillRetry
    /\ state' = "Connecting"
    /\ link' = "joining"
    /\ attempt' \in BOOLEAN
    /\ UNCHANGED <<autoReconnect, saved, nvs>>

\* The join has not timed out yet, or the retry is not due.
TickWaits ==
    /\ state # "Off"
    /\ link # "up"
    /\ attempt \/ WillRetry
    /\ UNCHANGED stationVars

StationTick ==
    \/ TickConnected
    \/ TickTimedOut
    \/ TickSetupMode
    \/ TickBeginStation
    \/ TickWaits

(***************************************************************************)
(* Calls from the controller.                                              *)
(***************************************************************************)
ApplyCredentials(c, linkNow) ==
    /\ saved' = c
    /\ nvs' = c
    /\ autoReconnect' = TRUE
    /\ attempt' = FALSE
    /\ link' = linkNow
    /\ state' = IF linkNow = "up" THEN "Connected" ELSE "Disconnected"

\* connect_station_for_provisioning joins with c; only when it succeeds does
\* the caller hand c to set_credentials, by which time the link may have
\* dropped again.  A failed join leaves the station reset.
ProvisionFails ==
    /\ state # "Off"
    /\ link' = "down"
    /\ UNCHANGED <<state, autoReconnect, saved, nvs, attempt>>

ProvisionJoins(c, linkNow) ==
    /\ state # "Off"
    /\ Joinable(c)
    /\ ApplyCredentials(c, linkNow)

\* disconnect(clearCredentials, restartProvisioning)
Disconnect(clear) ==
    /\ state # "Off"
    /\ autoReconnect' = FALSE
    /\ attempt' = FALSE
    /\ saved' = IF clear THEN NoCredentials ELSE saved
    /\ nvs' = IF clear THEN NoCredentials ELSE nvs
    /\ link' = "down"
    /\ state' = "Disconnected"

StationNext ==
    \/ \E joined \in BOOLEAN : StationBoot(joined)
    \/ PowerLoss
    \/ PowerLossWhileClearing
    \/ \E c \in Credentials : PowerLossWhileSaving(c)
    \/ JoinSucceeds
    \/ LinkLost
    \/ StationTick
    \/ ProvisionFails
    \/ \E c \in Credentials, linkNow \in {"down", "up"} : ProvisionJoins(c, linkNow)
    \/ \E clear \in BOOLEAN : Disconnect(clear)

StationSpec == StationInit /\ [][StationNext]_stationVars

=============================================================================
