----------------------------- MODULE TransitCache -----------------------------
(***************************************************************************)
(* The rows DeviceController remembers: the labels it keeps in RAM and in  *)
(* NVS, so that a restart shows them before the broker sends new ones,     *)
(* through the commands that change them or take them away, failed writes  *)
(* and power failures.  Arrival times and badges are not remembered.       *)
(***************************************************************************)
EXTENDS Naturals, Sequences

CONSTANTS
    Labels,     \* the labels the server sends; "" is none
    None,       \* no rows
    Foreign     \* a blob of another size or schema version

RowIds == 1..2   \* kMaxVisibleTransitRows

\* "--" stands for the label of a row that has none.
Rows == [label : (Labels \ {""}) \cup {"", "--"}, scroll : BOOLEAN]
Assignments == [n : RowIds, rows : [RowIds -> Rows]]

ASSUME CacheAssumption == {None, Foreign} \cap Assignments = {} /\ None # Foreign

VARIABLES
    on,         \* the board has power and has started
    at,         \* the command the main task is in, "loop" in none
    erases,     \* the calls of clear_cached_transit_assignment() left in it
    link,       \* joins by itself, waits for the phone, or neither
    paired,     \* credentials are saved in NVS
    nvs,        \* the blob under "data" in "trcache"
    ram,        \* cachedTransitAssignment_; None: not hasCachedTransitAssignment_
    rows,       \* what renderModel_ has of an assignment; None: not hasData
    assigned,   \* history: the rows that were last given and not taken away
    behind      \* history: the last write to NVS failed or was cut off

vars == <<on, at, erases, link, paired, nvs, ram, rows, assigned, behind>>

Init ==
    /\ on = FALSE
    /\ at = "loop"
    /\ erases = 0
    /\ link = "off"
    /\ paired = FALSE
    /\ nvs \in {None, Foreign}
    /\ ram = None
    /\ rows = None
    /\ assigned = None
    /\ behind = FALSE

(***************************************************************************)
(* The cache.  `written` and `erased` are what Preferences reports; NVS    *)
(* replaces a blob in one step or not at all.                              *)
(***************************************************************************)
ClearedRow == [label |-> "", scroll |-> FALSE]

\* Slip: a row without a label keeps it empty.
BareDestination(label) == label

Destination(label) == IF label = "" THEN "--" ELSE label

\* The assignment a payload of one row or two is remembered as.
Cached(payload) ==
    [n |-> Len(payload),
     rows |-> [i \in RowIds |->
        IF i <= Len(payload)
        THEN [label |-> Destination(payload[i].label), scroll |-> payload[i].scroll]
        ELSE ClearedRow]]

\* load_cached_transit_assignment()
Loads(blob) ==
    IF blob \in Assignments THEN IF blob.rows[1].label # "" THEN blob ELSE None ELSE None

\* Slip: the result of the write is not looked at.
PersistsUnchecked(a, written) ==
    /\ nvs' = IF written THEN a ELSE nvs
    /\ ram' = a
    /\ behind' = ~written

Persists(a, written) ==
    /\ nvs' = IF written THEN a ELSE nvs
    /\ ram' = IF written THEN a ELSE ram
    /\ behind' = ~written

ClearsCache(erased) ==
    /\ nvs' = IF erased THEN None ELSE nvs
    /\ ram' = None
    /\ behind' = ~erased

(***************************************************************************)
(* Commands.  The broker is reached only over a network joined by itself.  *)
(***************************************************************************)
Commanded == on /\ at = "loop" /\ link = "ok"

\* handle_command() with data
ReceivesRows(payload, written) ==
    /\ Commanded
    /\ IF ram = Cached(payload)
       THEN /\ behind' = FALSE
            /\ UNCHANGED <<nvs, ram>>
       ELSE Persists(Cached(payload), written)
    /\ rows' = Cached(payload)
    /\ assigned' = Cached(payload)
    /\ UNCHANGED <<on, at, erases, link, paired>>

ReceivesBlank(erased) ==
    /\ Commanded
    /\ ClearsCache(erased)
    /\ rows' = None
    /\ assigned' = None
    /\ UNCHANGED <<on, at, erases, link, paired>>

\* Slip: the rows are forgotten only if provisioning restarts.
ErasesIfRestarting(clear, restart) == IF restart THEN 1 ELSE 0

ErasesFor(clear, restart) == (IF restart THEN 1 ELSE 0) + (IF clear THEN 1 ELSE 0)

\* handle_disconnect_wifi_command(): up to the return of the manager
ReceivesDisconnect(clear, restart) ==
    /\ Commanded
    /\ at' = "disconnecting"
    /\ erases' = ErasesFor(clear, restart)
    /\ link' = IF restart THEN "setup" ELSE "off"
    /\ paired' = (paired /\ ~clear)
    /\ assigned' = IF clear \/ restart THEN None ELSE assigned
    /\ UNCHANGED <<on, nvs, ram, rows, behind>>

DisconnectErases(erased) ==
    /\ on
    /\ at = "disconnecting"
    /\ erases > 0
    /\ erases' = erases - 1
    /\ ClearsCache(erased)
    /\ UNCHANGED <<on, at, link, paired, rows, assigned>>

\* Slip: the rows stay on the screen.
DisconnectEndsKeepingRows ==
    /\ on
    /\ at = "disconnecting"
    /\ erases = 0
    /\ at' = "loop"
    /\ UNCHANGED <<on, erases, link, paired, nvs, ram, rows, assigned, behind>>

DisconnectEnds ==
    /\ on
    /\ at = "disconnecting"
    /\ erases = 0
    /\ at' = "loop"
    /\ rows' = None
    /\ UNCHANGED <<on, erases, link, paired, nvs, ram, assigned, behind>>

ReceivesFactoryReset(erased) ==
    /\ Commanded
    /\ at' = "resetting"
    /\ link' = "off"
    /\ ClearsCache(erased)
    /\ assigned' = None
    /\ UNCHANGED <<on, erases, paired, rows>>

(***************************************************************************)
(* Power, and the phone.                                                   *)
(***************************************************************************)
TurnsOff ==
    /\ on
    /\ on' = FALSE
    /\ at' = "loop"
    /\ erases' = 0
    /\ link' = "off"
    /\ ram' = None
    /\ rows' = None
    /\ behind' = (behind \/ erases > 0)
    /\ UNCHANGED <<nvs, assigned>>

PowerFails == TurnsOff /\ UNCHANGED paired

ResetEnds == at = "resetting" /\ TurnsOff /\ paired' = FALSE

\* begin() with apply_cached_transit_assignment()
Begins ==
    /\ ~on
    /\ on' = TRUE
    /\ link' = IF paired THEN "ok" ELSE "setup"
    /\ ram' = Loads(nvs)
    /\ rows' = Loads(nvs)
    /\ UNCHANGED <<at, erases, paired, nvs, assigned, behind>>

PhonePairs ==
    /\ on
    /\ at = "loop"
    /\ link = "setup"
    /\ link' = "ok"
    /\ paired' = TRUE
    /\ UNCHANGED <<on, at, erases, nvs, ram, rows, assigned, behind>>

PayloadRows == [label : Labels, scroll : BOOLEAN]
Payloads == {<<row>> : row \in PayloadRows}
            \cup {<<first, second>> : first \in PayloadRows, second \in PayloadRows}

Next ==
    \/ \E payload \in Payloads, written \in BOOLEAN : ReceivesRows(payload, written)
    \/ \E erased \in BOOLEAN :
        \/ ReceivesBlank(erased)
        \/ DisconnectErases(erased)
        \/ ReceivesFactoryReset(erased)
    \/ \E clear, restart \in BOOLEAN : ReceivesDisconnect(clear, restart)
    \/ DisconnectEnds
    \/ PowerFails
    \/ ResetEnds
    \/ Begins
    \/ PhonePairs

Spec == Init /\ [][Next]_vars

(***************************************************************************)
(* Properties.                                                             *)
(***************************************************************************)
\* The types; a remembered row is always one that a restart accepts.
IsRemembered(a) == a \in Assignments /\ a.rows[1].label # ""

TypeOK ==
    /\ on \in BOOLEAN
    /\ paired \in BOOLEAN
    /\ behind \in BOOLEAN
    /\ at \in {"loop", "disconnecting", "resetting"}
    /\ erases \in 0..2
    /\ link \in {"ok", "setup", "off"}
    /\ nvs \in {None, Foreign} \/ IsRemembered(nvs)
    /\ \A a \in {ram, rows, assigned} : a = None \/ IsRemembered(a)

\* The copy in RAM, which decides whether rows need writing, never claims
\* more than NVS holds, whichever writes failed before.
RamIsStored == ram # None => ram = nvs

\* A restart shows the rows last given, and none after they were taken away,
\* unless the last write to NVS failed or power failed before it: skipping
\* the write of rows that are already stored loses nothing.
RestartShowsAssigned == erases = 0 /\ ~behind => Loads(nvs) = assigned

\* The rows are kept like the value of a durable register: whatever fails, a
\* restart shows the rows asked for last or those it would have shown before,
\* and rows whose write was skipped are stored already.
Register == INSTANCE DurableRegister WITH
    Values <- Assignments \cup {None},
    asked <- assigned,
    kept <- Loads(nvs),
    sure <- ~behind /\ erases = 0

RowsAreDurable == Register!Spec

\* A device without credentials shows no rows of an earlier owner, except
\* when erasing them failed or was cut off after the credentials had gone.
UnpairedShowsNothing == on /\ at = "loop" /\ ~paired /\ rows # None => behind

=============================================================================
