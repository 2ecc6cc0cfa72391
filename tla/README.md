# A verification of the Commute Live device controller

TLA+ models of the ESP32 firmware under `src/src/`, the TLC runs that check them on small instances, and proofs of
their most important invariants for every instance. File names below are relative to `src/src/`; `DC` stands for
`core/device_controller.cpp`, `NM` for `core/network_manager.cpp`, `MQ` for `core/mqtt_client.cpp`, `WM` for
`network/wifi_manager.cpp`, `BLE` for `ble/ble_provisioner.cpp` and `LE` for `core/layout_engine.cpp`. The
repository has no tests of its own; what the code promises is taken from its comments and from the code that relies
on it.

## 1. The system

The device joins a Wi-Fi network, is given that network and a pairing token by a phone over Bluetooth, keeps a
session with an MQTT broker, and shows the transit rows the broker sends on an LED panel. Almost everything runs on
the Arduino main task: `loop()` (`main.cpp`) waits, reads `millis()` once and calls `DeviceController::tick()`. Two
other tasks touch its state: the NimBLE host task (a write of the phone) and the Wi-Fi driver's event task.

| Part | State it keeps | Operations | Interacts with |
| --- | --- | --- | --- |
| Network manager (`NM`, `WM`) | `state_`, saved credentials in RAM and NVS, retry deadline, start of the join, retry count | `begin`, `tick`, `set_credentials`, `disconnect`, the blocking joins | driver; state callback into the controller |
| Retry back-off | none | `bounded_backoff` (in `NM` and again in `MQ`) | both managers |
| BLE provisioner (`BLE`) | `pendingCreds_`, `credPending_`, advertising | `handle_write` (NimBLE task), `take_credentials`, `begin`, `stop`, notifications | phone; controller, without a lock |
| Provisioning session (`DC`) | `bleProvisioningInFlight_`, pairing token and server, drain deadline | first part of `tick`, `handle_network_state`, `call_provision_api` | BLE, network manager, server |
| MQTT client (`MQ`) | `connected_`, the PubSubClient transport, retry deadline | `tick` (ensure, loop), `disconnect`, publishes | broker; dispatches commands into the controller |
| Connectivity view and logs (`DC`) | UI state, freshness, grace, last sample of the session, log flags | rest of `tick`, commands, `/connect` | all of the above |
| Rendering (`DC`) | render model, pending render, scroll state | `handle_command`, `update_ui_state`, `sync_stale_eta_animation`, `tick_scroll`, `render_frame` | layout, panel |
| Layout (`LE`, `display/layout_engine.cpp`) | none | frames and geometry of rows, draw list | rendering |
| Transit cache (`DC`) | the last rows in RAM and NVS | load, apply, persist, clear | commands, `begin`, credentials |
| Joins (`WM`) | `gLastDisconnectReason`, the driver's enterprise fields | `connect_station_for_provisioning`, `begin_station`, `on_wifi_event` (event task) | driver, controller |
| Wi-Fi scan (`WM`, `DC`) | `bleScanPending_`, the driver's result | `handle_write` (NimBLE task), `tick`, `scan_and_emit` | phone |
| Firmware update (`DC`) | none between calls | `perform_ota_update` | a command; blocks the main task |
| Payload parsing (`parsing/`) | none | text to rows | commands |
| Configuration store, calibration, panel driver (`core/`) | the display's settings in NVS, in `runtimeConfig_` and in the engine | `load`, `save`, `maybe_run`, `begin`, `set_brightness` | `main.cpp`, `begin`, commands |
| Line colours, LED preview | a table; a host tool | | |

### What is hard about it, and what makes each part correct

* **Network manager.** Times are 32-bit and compared once as a difference (`NM:166`) and once as plain numbers
  (`NM:198`); a blocking join of up to many seconds lies between the reading `tick` works with and the reading
  `set_credentials` takes; power may fail between two NVS keys. Correct means: it keeps asking for its network, at
  bounded intervals, and what it uses is what a restart would load.
* **BLE hand-over.** Five fields and a flag shared by two tasks without a lock. Correct means: a take returns one
  whole submission, and none is forgotten, except where the two provably run into each other.
* **Provisioning session.** A session ends in a state callback that may come much later, or never; tokens, drains,
  commands and credential switches of other sessions get in between. Correct means: "connected" is said only for an
  accepted token, sessions end, and no path strands the device out of reach.
* **MQTT client.** The two ends of a session learn of its end at different times; the will, the retained presence and
  the subscription hang on the broker's end. Correct means: both ends agree again, and presence does not lie.
* **Controller.** One sample of `connected()` per turn drives freshness, grace and logs, while sessions come and go
  between the calls of the same turn. Correct means: rows are not called live after a recorded loss, and no owed log
  is forgotten.
* **Transit cache.** Rows are written only when they differ from a copy in RAM, writes may fail, and unpairing removes
  credentials and rows in several steps. Correct means: a restart shows the rows last given and nobody else's.
* **Joins.** The driver's event task writes the reason of a disconnect while the main task joins, gives up, resets the
  station and reads it. Correct means: the phone is told something that happened to its own join, and a join presents
  its own identity.
* **Jobs on the main task.** Scans and firmware updates block the task that should keep the session alive, while
  requests arrive and the network and the server go on. Correct means: nothing asked for is lost, every job ends, and
  the session recovers.
* **Commands.** The parser finds keys by searching the text and objects by counting brackets. Correct means: a payload
  is read as what it says, and the rows read are the rows kept.
* **Panel settings.** Seventeen keys are written one by one, the calibration aid and the controller load them along
  different paths, and a command may come before the panel is started. Correct means: the panel runs with the tuning
  saved last and the brightness commanded last.
* **Rendering.** Three kinds of render compete for one pending slot, and scrolling, the stale animation and payloads
  change what is to be drawn in between. Correct means: the panel ends up showing the render model.

The complete list of hazards, each at its line and with the properties about it, is in `PROJECT.json`.

## 2. Modules

    Backoff <--- EXTENDS --- NetworkManager --- refines ---> Station <--- EXTENDS --- Provisioning

    MqttSession <--- EXTENDS, and refines --- Connectivity          RowGeometry <--- EXTENDS --- Display
         ^
         +----- EXTENDS --- MainTask --- EXTENDS --> WifiScan, OtaUpdate

    DurableRegister <--- refines --- TransitCache <--- EXTENDS --- Commands --- EXTENDS --> PayloadParser

    OneSlot <--- refines, until a copy is run into --- BleMailbox          StationJoin          PanelSetup

The proofs are in modules of their own: `NetworkManagerProofs` (with those about `Backoff`), `ProvisioningProofs`,
`BleMailboxProofs`, `StationJoinProofs`, `SessionProofs` (about `MqttSession`, alone and as part of `Connectivity` and
of `MainTask`, and about the scan and the update that `MainTask` composes), `CommandsProofs` (with those about
`TransitCache`), `PanelSetupProofs` and `DisplayProofs` (with those about `RowGeometry`).

`MC*` modules give the modules their instances. Operators whose comment begins with "Slip:" are deliberately wrong
versions of the operator below them, one for each property: the property fails when the slip takes the operator's
place, which shows that it depends on what the code does. They are used nowhere else.

### Backoff
`bounded_backoff()` (`NM:17-32`, again `MQ:29-44`): a table of powers of two instead of the shifting loop, the cap
after doubling and again after the jitter. `BackoffDelays(n)` is the set of delays after `n` failures; the random
jitter is the nondeterminism.

### Station and NetworkManager
`Station` is the contract of the network manager without its clock: whether a join has timed out or a retry is due is
a free choice. `NetworkManager` has the clock and every path of `tick()` as an action: `TickConnected`,
`TickStillJoining`, `TickTimedOut`, `TickSetupMode`, `TickNotDue`, `TickBeginStation`; `SetCredentials` and
`ProvisionFails` are the outcomes of `connect_station_for_provisioning` with the hand-over that follows, `Disconnect`
the command. `Begin` is the blocking join of `begin()`.

* `now` is `millis()`, `tickAt` the reading `loop()` took for this turn. A blocking join advances `now` and leaves
  `tickAt` behind, which is how stale readings come in.
* `connectingStart = 0` means that no join is timed, as in the code; a join begun when the reading is 0 is untimed.
* A credential is a pair of the network its name belongs to and the network its password belongs to. A torn NVS record
  (`PowerLossWhileSaving`, `PowerLossWhileClearing`) is then a pair that joins nothing.
* `wrapped` is a history variable: the clock wrapped since the deadline was assigned. The properties about deadlines
  speak of the time before a wrap; what a wrap does to liveness is covered by `NeverGivesUp`, which excepts the deadlines
  of the last turn before a wrap (`MayBeSteppedOver`): no turn need read the clock between such a deadline and the wrap.

### Provisioning
`DeviceController::tick()` from the take of a submission to the stop of BLE, cut at `stage` = take, join, net, mqtt,
stop, http. It composes `Station`: every action of the main task that runs the manager contains the corresponding
`Station` action, and `HandleNetworkState` runs inside it exactly when `transition_to()` changes the state
(`NM:295-308`), with `call_provision_api()` accepted, refused or its answer lost (`Registers`). The hand-over from
the phone is atomic here, which `BleMailbox` justifies except for the overlaps it names.

### BleMailbox
`handle_write`, `take_credentials` and the clearing in `begin()`, field by field. A field holds the number of the
submission it came from, so a torn copy is a sequence with two numbers. `OneSlot` is what such a mailbox promises: one
submission at a time, put whole and taken at most once.

### MqttSession
Both ends: `connected`, `transport` and `waiting` are the client's, `session`, `will`, `subscribed` and `presence` the
broker's. `waiting` stands for `nowMs < nextRetryAtMs_`: the time is left out, except for whether the deadline is one that
turns may step over. `tick()` is cut between `ensure_connected()` and `loop()`. A CONNECT may be accepted and its answer lost
(`Connects(heard, announced)`); of the packets `disconnect()` sends, a prefix reaches the broker.

### StationJoin
`connect_station_for_provisioning()` with its attempts, cut at the calls of `connect_station_once()` that sleep (the
reset, the scan, the polls, the delay after the last reset), `begin_station()`, and `on_wifi_event()` on the event task.
The driver posts events; the event task is ahead of the main task whenever that sleeps, so a delay ends only when the
events posted before it were handled. `enterprise` are the driver's WPA2-Enterprise fields, which outlive
`WiFi.begin()` and of which an empty password is not set; `causes` and `refused` are history.

### WifiScan, OtaUpdate and MainTask
`WifiScan` is a request of the phone from `handle_write()` on the NimBLE task to the chunks of `scan_and_emit()`; a
chunk's text is the list of its networks and commas, with the bytes counted against the buffer. `OtaUpdate` is
`perform_ota_update()` with its decoder of chunked bodies: what a read returns, what comes too late, where the server
closes. A decoder that fell out of step reads image data as sizes (`"lost"`), and what it then writes is
nondeterministic. `MainTask` puts both beside `MqttSession`: `tick()` scans before it comes to the client, a command
callback runs a whole update, and meanwhile the broker, the network, the phone and the server go on.

### PanelSetup
The display's settings from `setup()` to a command: the calibration aid (`maybe_run()`, compiled in or not),
`ConfigStore`, `DeviceController::begin()` and `DisplayEngine`. Three settings stand for the fifteen: `br` for those
the aid cannot change, `chain` for those that cycle or are set by a key, `off` for the offsets. `allowed` is history:
for each setting what was saved last, or the two values between which a torn save may leave it.

### Connectivity
One turn of `tick()`, cut at the calls that take time, over `MqttSession`: screen state, freshness, grace, the sampled
edge, the log block with its drain queue, `/connect`, commands and factory reset, start and crash. The network manager
appears only through `state()` and `will_retry_connection()`. `RefinesMqttSession` checks that the composition
uses the client only in ways `MqttSession` allows.

### RowGeometry and Display
`RowGeometry` is the horizontal part of `compute_transit_row_geometry()` and of the row layout under it: columns of
label and arrival time, the centred single row, what an update blanks and what a scrolled label can reach.
`Display` is the life of the rows: payloads, blank and disconnect commands, `classify_render_mode()`, the one pending
render, `update_ui_state()` with the animation of stale times, `tick_scroll()` and `render_frame()`.

* `screen` is what the panel has been told to show: for each row its layout, arrival part, colour, displacement, the
  columns lit by arrival times (`marks`) and the longest arrival time since the last full render.
* The sessions are an environment that acts only in the phases whose actions read them. The main task's report of the
  network manager is allowed whenever it agrees with the link, more often than the manager makes it.
* Pauses and the minimum gap between frames are free choices, so every interleaving of pauses is included.
* The third row is left out because no command fills it; so is double buffering, which `main.cpp` does not switch on.

### TransitCache
The rows remembered over a restart: `load_`, `persist_` and `clear_cached_transit_assignment()` and the commands that
call them, with credentials as far as the commands remove them. `handle_disconnect_wifi_command()` and
`factory_reset` are cut between their writes to NVS, so power may fail there; the results of `Preferences`, which
this code does look at, are free choices.

* An assignment is what is stored: for each row its label and whether it scrolls; an empty label is stored as "--",
  without which `load` would refuse the rows. The other stored fields have one value and sanitising leaves them alone.
* `nvs` may also hold a blob of another size or schema version (`Foreign`).
* `assigned` (the rows last given and not taken away) and `behind` (the last write failed or was cut off) are history.
* `link` tells whether commands can come: by itself after a start with credentials, after the phone has paired the
  device, or not before the next start.
* `DurableRegister` is what such a memory promises: a restart reads the value asked for last or the one it would have
  read before, never a mixture. `RowsAreDurable` maps the register to `assigned` and to what `load` makes of `nvs`.

### PayloadParser and Commands
`PayloadParser` has `parse_generic_v2_payload()` and the extraction under it as operators on texts: sequences of
quotes, brackets, colons, commas and words, so that a string may contain what the code searches for. `RowsMeant` is the
reference: what the lines of the payload say, as far as rows have room for it (two rows, eight arrival times).
`HarmlessLine` names the lines the code promises to read: the brackets of their strings pair up, in the badge the braces
alone as well, and none is the name of a key that is searched for behind it. `Commands` reads a payload, one of the
constant `Messages`, and hands the rows to `TransitCache`, one command at a time; power fails in between.

## 3. What the runs check

| Run | Properties | What they mean |
| --- | --- | --- |
| `network` | `JoiningIsOwned` | a join in progress belongs to a manager that has credentials, may retry and reports kConnecting |
| | `NvsMatchesRam` | no operation of a powered manager leaves what it uses and what NVS holds apart |
| | `RetryDeadlineBounded`, `ConnectedMeansRetryDue` | a deadline is at most one cap ahead; a drop is answered at once |
| | `RefinesStation` | the clocked manager implements the contract |
| | `AttemptsEnd`, `NeverGivesUp` | joins end; with working credentials the link is up again and again, unless every turn of the clock steps over the deadline of a retry |
| `provisioning` | `ConnectedMeansRegistered`, `TokenHasSession` | "connected" only for the accepted token of the session answered; no token is left for a later one |
| | `UnansweredOnlyIfStartedUp`, `SessionsEnd` | sessions get their final status, except the ones of the finding below |
| | `OnlyCommandStrands` | only `disconnect_wifi` without restart takes the device out of reach |
| | `SilentMeansWorkingRecord` | a device that retries on its own without advertising has a record that can join, also after a torn save: one with a useless record can be provisioned again |
| `ble_mailbox` | `TornOnlyByOverlap`, `LostOnlyByOverlap` | the only torn takes and forgotten submissions are those where the copy ran into a take or `begin()` |
| `join` | `ToldReasonHappened` | the reason the phone is told is one a join of its own session had |
| | `RefusalIsTold` | a refused passphrase is not hidden by the other attempts, with the exceptions named |
| | `JoinUsesOwnIdentity` | no join presents the enterprise user or password of an earlier one |
| `main_task` | `OnlineOutlivesSessionOnlyBySkip` | the one way presence stays "online" without a session: `disconnect()` on an open transport with `connected_` cleared |
| | `BothEndsAgreeAgain` | with Wi-Fi up and an agreed session left alone, both ends hold one, after any number of failed retries, disagreements and blocking jobs, with the exception of a deadline that is stepped over |
| | `NamedAreReported`, `ScanAnswered` | every named network is sent once and in order; a request made during a scan is answered too |
| | `WholeBodyInstalls`, `UpdateEnds` | an undisturbed body is decoded to the image; every update ends |
| `connectivity` | `RecordedLossNeedsNewRows` | after a recorded loss rows are not live before new rows came |
| | `OwedLogsAreDraining`, `CrashReportedBeforeBoot` | no owed log is forgotten; the crash report comes first |
| | `RefinesMqttSession` | the controller keeps to the client's protocol |
| | `ScreenAdmitsLoss` | a device away from its broker stops calling its rows live |
| `commands` | `ReadAsMeant` | lines that are harmless are read as what they say, whatever the payload's other lines hold |
| | `RowsAreDurable` | the cache is a durable register: a restart shows the rows asked for last or the ones before |
| | `UnpairedShowsNothing` | a device without credentials shows no rows of an earlier owner, with the exceptions named |
| `display` | `ScreenShowsModel` | with nothing owed, the panel shows the render model |
| | `NoRowLeftMidScroll` | a displaced label belongs to a row that is still scrolling |
| | `ScrollBelongsToRow` | measurements are of the label now in the row |
| | `RowsInStep` | rows that scroll together start, turn and end together, each at its own end |
| | `GhostOnlyWhenShorter` | below an arrival time of up to six characters, columns of an old one stay only after a longer one |
| | `ScrollClearOfEta` | a scrolled label does not reach an arrival time of at most three characters |
| `panel` | `TuningSurvives` | the panel runs with the tuning saved last, through torn saves and calibrations of other settings |
| | `PanelFollows` | a panel that works has the settings loaded and the brightness commanded last, even before its start |

Three runs refute what a comment of the repository says:

* `provisioning_result` (`StatusNotifiedWhenKnown`): a device that is already connected and is provisioned again never
  tells the phone the result, because `transition_to()` returns when the state does not change. The session stays in
  flight and its token unregistered until some later change of state.
* `display_live_rows` (`LiveRowsShowPayload`): the stale animation overwrites the stored arrival times, and a loss that
  leaves `hasFreshPayload_` set (a link back before the manager noticed, a session lost before the first or between
  two samples, or closed by `/connect` after the sample) lets the rows be called live again, green, with dots for times.
* `wifi_scan_chunk` (`ChunkIsJson`): a chunk whose first network is hidden starts its list with a comma
  (`WM:596`), although the header promises a JSON object; the phone cannot read the other networks of that chunk.

### Bounds
* `network`: the clock wraps after 10 units, the retry count after 4, a join times out after 3 units, a blocking join
  takes at most 2, delays are 1 to 4 with jitter 1. A turn takes one unit or two (`MaxTurn`), so that a reading of the
  clock can be skipped; `main.cpp` reads milliseconds in steps of 50 or more. Deadlines thus cross the wrap in both directions, a delay fits
  inside a cycle of the clock but not twice, and the count wraps within a behaviour. One network is enough: its
  credentials, torn records and no credentials are all there.
* `provisioning`: two networks, two tokens, two submissions: a second session can meet the remains of the first.
* `ble_mailbox`: three submissions, so that one take can run into two writes.
* `join`: one user and one passphrase beside the empty ones, which is enough to tell a session's own from a stale one
  or none; the three attempts of the code; two events on the way, so that a reset can add one to another.
* `main_task`: up to four networks, so that a second chunk is not full; two requests, so that one falls into the scan
  of the other; an image of two blocks, in one chunk or two, read at once or by parts.
* `wifi_scan_chunk`: one chunk; the run stops when its request is answered, so deadlock is not checked.
* `connectivity`: no bound but the sizes of small enumerations.
* `commands`: one label beside the empty one (all others are stored alike); payloads of one line with every text of
  brackets, key names and escapes in label or badge, and arrays of arrival times with brackets and keys in them;
  and nine of them; of two lines with every pair of five labels; of none and of three. Any number of commands, failures and restarts.
* `panel`: one brightness beside the default, chain modes 0 to 2, offsets of one step.
* `display`: the panel of 128 by 32 pixels; two pairs of scrolling rows whose arrival times have two, three and four
  characters, so that labels overflow by different amounts, and a single row with later arrivals; two frames of the
  animation.

### Fairness
Always weak fairness of the main task: `loop()` runs for ever. Beyond that:
* `network`: strong fairness of the driver's join: an access point that is asked again and again accepts once.
* `provisioning`: the same, and strong fairness of the two ticks that in `NetworkManager` follow from the clock.
* `main_task`: delays run out (weak), after a wrap of the clock at the latest, unless the deadline is one that turns may
  step over (`waiting` is "skips" then, and `BothEndsAgreeAgain` excepts a client that waits there for ever), as
  `NeverGivesUp` shows for the same comparison of the other manager; keep-alive finds a dead transport (weak); a broker asked again and again accepts once
  and is heard (strong). The client's turns come when no job blocks them, so those are strong too. A scan of the driver
  ends (weak). The transfer goes on, and the server of the image closes at last (weak): the code has a timeout for a
  read and none for an open connection that stays silent, on which an empty size line is read again for ever.
* `connectivity`: `begin()` polls at most two seconds, so its loop ends (strong, since polling disables
  it); grace ends; a restart comes back, and power that failed returns (a board without power shows nothing).
No property assumes that the phone, the server or a command does anything.

## 4. What is proved

All for every value of the constants that satisfies the `ASSUME`s of the modules (`BackoffAssumption`,
`NetworkAssumption`, `NetworksAssumption`, `MailboxAssumption`, `CacheAssumption`, `LabelsAssumption`,
`MessagesAssumption`, `JoinAssumption`, `ScanAssumption`, `OtaAssumption`, `DisplayAssumption`, two of the name `PanelAssumption`): positive clock and counter moduli with the delays,
the timeout, the turns and the blocking times shorter than a cycle of the clock, two attempts of a join or more, an image and a
buffer that are not empty, a panel with columns and rows, rows whose labels and badges have a number of letters.

* `NetworkManagerProofs`: every delay lies between base and cap; types; `JoiningIsOwned`, which is inductive as it
  stands; `NvsMatchesRam`, which needs `TurnHasPower` (only a powered board is in a turn); `RetryDeadlineBounded`,
  from the types and the back-off bound; `ConnectedMeansRetryDue`, by the strengthening `DueInv`: a manager that is
  joined **or joining** has no deadline ahead, and the reading of the current turn is not ahead of the clock
  (`ReadingIsPast`); the join that leads to kConnected was begun when the deadline was due. Finally
  `ImplementsStation`, step by step.
* `BleMailboxProofs`: both properties from `MailboxInv`, which says for each position of the two copies what the
  fields already passed hold, unless a collision is recorded. `HandOverIsAtomic` is the refinement of `OneSlot` up to the
  first collision: raising the flag puts the submission, the first step of a take takes it, and every other step maps
  to a stutter. It also needs that one submission is copied at a time (`CountInv`). No run checks it, since its two
  halves are what the run's properties say of each submission.
* `SessionProofs`, of `MqttSession`: types and `OnlineOutlivesSessionOnlyBySkip`, from `SessionHasWill`: every session was
  begun with its will, so that only DISCONNECT can withdraw it.
* `SessionProofs`, of `Connectivity`: every step of the controller is one of `MqttSession` or leaves the session alone, so
  `RefinesMqttSession` holds and `OnlineOutlivesSessionOnlyBySkip` with it. `RecordedLossNeedsNewRows` from `RowsInv`: as
  long as rows are owed nothing calls the old ones fresh, and the screen update that follows the sample agrees.
  `CrashReportedBeforeBoot` and `OwedLogsAreDraining` from `LogsInv`: owed logs are being drained in every part of the
  turn, except that between the sample and the log block a session sampled as lost owes its loss to the next session.
* `SessionProofs`, of `MainTask`: a step is one of `MqttSession`, of `OtaUpdate` and of `WifiScan`, or leaves them alone,
  so `TaskWithdrawsOnline` follows from the session's theorem; `TaskInstallsWholeBody` from an invariant of the decoder:
  an undisturbed transfer has written what it read, in step with the server. `TaskReportsNamed`, for every number of
  networks, from `ScanInv`: what was reported are the named networks among the first three times `chunk`. It rests on
  what the recursive functions of `WifiScan` compute: `ChunkNamesAll` (the text of at most three networks never comes
  near the limit of the buffer, so it names each that has a name) and `WithoutConcat`.
* `ProvisioningProofs`: `StationInv` says that a link that is up or joining belongs to a manager that is joined or
  joining, that such a manager has a network to return to, and that a powered station uses what NVS holds.
  `SilentMeansWorkingRecord` from `WorkingInv`: a link that is up, a manager that reports
  kConnected and a drain armed to stop BLE belong to a record that can join, so BLE falls silent for such a record only. The same `StationInv` is what `TokenHasSession`
  rests on: a command arrives only under such a manager, so the callback of `disconnect()` runs and drops the token.
  `TokenInv` adds that after the join the token kept is that of the submission answered, from which
  `ConnectedMeansRegistered` follows. `AnswerInv` gives `UnansweredOnlyIfStartedUp`, `DrainInv` (BLE is about to stop
  only on a device that returns to its network) `OnlyCommandStrands`. `SessionsUseStation` says that sessions,
  commands and requests use the station only in ways `NetworkManager` implements; the exception is `factory_reset`,
  which erases NVS past the manager and restarts. From it follow the station's types.
* `CommandsProofs`, of `TransitCache`: the types, `RamIsStored`, `RestartShowsAssigned` and `UnpairedShowsNothing`,
  from `CacheInv`. Neither of the last two is inductive alone: `GivenInv` adds that rows are only ever given to a
  device with credentials and that a command under way has already taken them away, `ShownInv` that the screen has the
  rows given. `CacheIsDurable` is the refinement of `DurableRegister`: a step that changes neither rows asked for nor
  blob maps to a stutter or a change of certainty, the others to the register's step, because skipping a write needs
  `RamIsStored`.
* `CommandsProofs`, of `Commands`: every step is one of `TransitCache` or leaves it alone, since what the parser returns
  are one row or two, whatever the text; so the command path inherits the durable register.
* `CommandsProofs`, of `PayloadParser`: `LinesReadAsMeant` (`ReadAsMeant`), for payloads of any number of lines, strings of
  any length and brackets nested as deep as one likes. The invariant is simple (a message being read is one of
  `Messages`, and what was read is what the parser makes of its text); the work is in the parser, in this order:
  * *Brackets.* What `Depth` counts over a concatenation is the sum over its parts, and only the part where a bracket
    stands decides where a count first returns to zero.
  * *Texts.* The server's text of a line has every field at a known place (its lengths are sums over the fields before),
    and a harmless line is an item: inside it no count of brackets falls below where it began. Hence `LineAt` cuts
    out exactly the first and the second line, whatever comes after them.
  * *Keys.* The first atom of a text that equals a key between two quotes is that of the field, which is where each clause
    of `HarmlessLine` is needed; the strings before it are gone through one by one.
  * *Fields.* A string field ends at its own quote, the badge at its own brace, and the scan of `find_matching_bracket()`,
    which knows quotes, at the bracket that ends the arrival times; the loop of `StringArray` then reads one string
    per turn, up to its capacity.
* `StationJoinProofs`: `JoinsAreOwn`, from "a station that is being reset has no enterprise fields"; `ToldIsTrue`, from
  an invariant on each place a reason or status can come from: while a session joins, events, `lastReason`, the final
  and the best status speak of the causes of this session only. It needs two attempts or more: with one, an event of the
  link before the session could still be on its way when the result is read. `RefusalReachesPhone` (`RefusalIsTold`) from
  `RefusalInv`: once a join was refused, the best failure so far has the priority of a refusal, or the refusal is that of
  the attempt that is just failing; `failure_priority()` gives it to refusals only (`RefusalIsHighest`).
* `PanelSetupProofs`: types; `TuningSurvives` from `TuningInv`: in every phase what a start would load, what `setup()`
  holds and, for settings no hand touched, what the aid works on, are allowed; `PanelFollows` from `FollowsInv`: a
  command that came before the start is in the settings the panel will be started with.
* `DisplayProofs`, from one inductive invariant, `DisplayInv`, for every panel, payload and number of frames. Its parts
  say what the panel shows already while a render is still owed:
  * `PanelShows`: unless a full render is owed, the panel has the rows of the model in their layout and colour, and the
    arrival times of the rows outside the mask of the pending update. Each command then has to leave a render behind
    that covers what it changed, which gives `ScreenShowsModel`. The property alone says nothing while a render is owed.
  * `OffsetsLive`: unless a full render is owed, only an active row's label is displaced; from it `NoRowLeftMidScroll`.
  * `MarksKnown`: the columns lit since the last full render are those of times no longer than `widest`; without a longer
    one exactly the row's own. It needs that an update blanks every column such a time can light (`GhostOnlyWhenShorter`).
  * `ScrollsOK`: a row that is measured has the label it was measured with; from it `ScrollBelongsToRow`.
  * `Together`: one lead moves all rows of a data command, each following it up to its own end and turning with it; from
    it `RowsInStep`, which compares rows in pairs and is not inductive.
  * `ScrollClearOfEta` follows from the geometry, with the hypothesis `WidePanel`: the panel is 45 columns wider than it
    is high (or than the 22 of a badge). That of `main.cpp`, 128 by 32, is.

Induction over data is done where a set can carry it: `NumbersByInduction` says that a set of numbers with zero and with
every successor has them all, from the least element of a well-founded order, and the lemmas about `Without`, `Bytes`,
`ListOf` and the parser's functions use it.

Only model-checked is all liveness (`AttemptsEnd`, `NeverGivesUp`, `SessionsEnd`, `BothEndsAgreeAgain`, `ScanAnswered`,
`UpdateEnds`, `ScreenAdmitsLoss`): fairness and `ENABLED` are out of the prover's reach. Every safety invariant and every
refinement that a run checks is a theorem.

What the proofs found about the models, and what was changed:
* `GhostOnlyWhenShorter` was false for arrival times of seven characters and more, which the run's payloads did not have
  (`kMaxEtaLen` allows eleven): after "120m", "DELAYED!" leaves lit columns between its own three letters and the area
  blanked for it. The property now says up to which length it holds; see section 6.
* `Priority` of `StationJoin` was a `CASE` whose guards overlapped, and TLA+ leaves open which one is taken. It is now a
  chain of alternatives in the order of the code's tests.
* Without `WidePanel`, `ScrollClearOfEta` is false; see section 6.
* `ReadAsMeant` was false for lines that the run's payloads did not have, and `HarmlessLine` now leaves them out; see
  section 6. It also leaves in more than before: brackets of strings that pair up may stand in any line, whatever keys the
  strings of that line name, and only the first two lines have to be harmless.
* A row keeps eight arrival times at most, which the reference reading did not say.

## 5. What is not modelled, and why

* `request_reconnect()` has no caller, `set_credentials()` is always called with `reconnectNow = false`, the bootstrap
  network name is empty (`main.cpp`), and kApMode is never entered, so the access-point password is never used. Results
  of NVS writes of credentials are not checked by the code, and the models let them succeed or lose power.
* The single attempt of `connect_station()`: the steps of one attempt of `StationJoin`, with nobody to tell.
* The third transit row, double buffering, vertical positions, the text of messages, the draw list's limit.
* Heartbeat, telemetry and low-memory messages: timers whose result nothing reads.
* Of the parser: `parse_lines_payload()`, `build_eta_lines()` and the helpers under them, which have no caller; colours,
  brightness and blanks.
* Of the configuration store: the device id, and sanitising, which clamps what this store wrote clamped.
* The panel mappers of the display engine, which nobody asks, and drawing, which is output to the panel library.
* The line colour table, the LED preview (a host tool).

## 6. Observations

Met while modelling, and not claims about any documented promise:
* The turn of a reconnect publishes two logs, since the drain block runs right after `pendingReconnectLogs_` was set
  (`DC:815`); the comment at `DC:809` defers the rest to later turns.
* `/connect` resets and rejoins the station before "offline" is published (`DC:1438`); the comment at `DC:1434` says that
  the device is marked offline first.
* The budget of a centred single row is its own width less four columns (`DC:1542`), so a label with scrolling
  enabled scrolls although it fits (`DC:1545`: "Only activate scroll if text overflows").
* `display_blank` leaves a state that `update_ui_state()` keeps as long as there is no data (`DC:1644`): a device unpaired
  while blank never shows the setup screen.
* A refused passphrase can stay untold when it showed only in the reason of an earlier attempt: `bestDisconnectReason`
  is logged and not returned (`WM:462`, `DC:765`).
* A retry whose deadline falls into the last turn before `millis()` wraps can be stepped over, in this cycle of the clock
  and in every later one, since the deadline is compared as a plain number (`NM:198`, `MQ:213`): the manager or the
  client then waits for 49 days, and in principle for ever.
* A subscription the broker does not take is not tried again while the session lasts (`MQ:260`).
* Names are written into a scan's chunk without escapes (`WM:598`): a network name with a quote breaks its JSON as well.
* `save()` ignores what its writes return and the calibration aid then says "Saved" (`core/config_store.cpp:137`); `load()`
  derives an absent chain mode from `serpentine` and not from the bootstrap's (line 112); the saved brightness is
  always the bootstrap's, and a command's brightness is not kept over a restart.
* `kScrollStepMs` (`DC:46`, "advance 1px every 65ms") is not used: rows move one column per turn of `tick()`.
* `textPixelWidth` and `budgetWidth` are measured once per label, although the room changes with the length of the
  arrival time and the number of rows (`DC:1529`).
* "10m" followed by "9m" as an update of the arrival time only leaves columns of the old first digit (`LE:307`).
* An arrival time of seven characters or more starts so far to the left that an update leaves columns of the one before
  lit between the new letters and the blanked area, also when that one was shorter (`LE:307`).
* On one panel of 64 by 32 pixels a row alone would have its label drawn into its arrival time; `main.cpp` has two.
* Payloads are read by counting brackets and searching for keys without regard to quotes (lines 45 and 69 of
  `parsing/generic_payload_parser.cpp`, line 13 of `parsing/payload_parser.cpp`). A
  string whose brackets do not pair up moves the end of its line, and with it the start of the next; a badge's text like
  "[}" moves the end of the badge, for which braces alone are counted. A badge whose text is "status" or "scrolling", and
  a label "scrolling", hide the key of that name behind them; a badge whose text is "etas" has the label searched for
  the list; an arrival time "badge" of a line without a badge is taken for its key.
* An arrival time of four characters is drawn to the left of the three reserved, into the columns a scrolled label
  uses (`DC:49`).
* In a centred group a longer arrival time moves the whole group, while an update redraws only the arrival time.
* The label of a row with later arrivals is drawn higher than the same label is scrolled (`LE:789`, `DC:1979`).

## 7. Plan

What is left:
1. Heartbeat, telemetry and low-memory messages, if anything comes to depend on their timers.
2. The third transit row, when a command fills it: `Display` and its invariant are written for rows by number, and
   `RowsInStep` compares rows in pairs.
