--------------------------- MODULE PanelSetupProofs ---------------------------
(***************************************************************************)
(* Proofs about PanelSetup, for every set of brightnesses and every range  *)
(* of offsets: what an installer saved survives, and a panel that works    *)
(* shows what the last command asked for.                                  *)
(***************************************************************************)
EXTENDS PanelSetup, TLAPS

(***************************************************************************)
(* Types.                                                                  *)
(***************************************************************************)
Offsets == -MaxOffset..MaxOffset
Display == [br : Brightness \cup {Default}, chain : 0..2, off : Offsets]
Phases == {"off", "window", "calibrating", "saving", "connecting", "running"}

PanelTypeOK ==
    /\ phase \in Phases
    /\ nvs \in [Settings -> Brightness \cup {Default, Absent} \cup Int]
    /\ nvs["br"] \in Brightness \cup {Default, Absent}
    /\ nvs["chain"] \in 0..2 \cup {Absent}
    /\ nvs["off"] \in Offsets \cup {Absent}
    /\ cfg \in Display
    /\ work \in Display
    /\ config \in Display
    /\ engine \in Display
    /\ touched \subseteq Tunable
    /\ unwritten \subseteq Settings
    /\ ready \in BOOLEAN
    /\ lit \in Brightness \cup {Default}
    /\ allowed \in [Tunable -> SUBSET Int]
    /\ commanded \in Brightness \cup {Absent}

(***************************************************************************)
(* The inductive invariants.                                               *)
(***************************************************************************)
\* What a start would load of a setting is old or new, and so is what setup()
\* holds from the calibration's window to the end of save(); a setting no hand
\* touched is still the loaded one.
TuningInv ==
    /\ \A s \in Tunable : (IF nvs[s] = Absent THEN 0 ELSE nvs[s]) \in allowed[s]
    /\ phase \in {"window", "calibrating", "saving"} => \A s \in Tunable : cfg[s] \in allowed[s]
    /\ phase = "calibrating" => \A s \in Tunable \ touched : work[s] = cfg[s]
    /\ TuningSurvives

\* A command that came before the panel was started is in the settings the
\* panel will be started with.
FollowsInv ==
    /\ phase \notin {"connecting", "running"} => commanded = Absent
    /\ commanded # Absent => config.br = commanded
    /\ phase = "running" /\ ready => engine = config /\ lit = config.br

PanelInv == PanelTypeOK /\ TuningInv /\ FollowsInv

\* Offsets are numbers, zero among them.
LEMMA OffsetsAreNumbers ==
    /\ 0 \in Offsets
    /\ \A off \in Offsets : off \in Int
    /\ Absent \notin Offsets
BY PanelAssumption DEF Offsets

\* The defaults are settings.
LEMMA DefaultsAreSettings == Defaults \in Display
BY OffsetsAreNumbers DEF Defaults, Display

\* A board that never ran has nothing saved and nothing loaded.
LEMMA PanelInvInit == PanelInit => PanelInv
<1> SUFFICES ASSUME PanelInit PROVE PanelInv
  OBVIOUS
<1> USE PanelAssumption, OffsetsAreNumbers DEF PanelInit, Defaults
<1>1. PanelTypeOK
  <2>1. nvs \in [Settings -> Brightness \cup {Default, Absent} \cup Int]
    BY DEF Settings
  <2>2. allowed \in [Tunable -> SUBSET Int]
    BY DEF Tunable
  <2> QED
    BY <2>1, <2>2, DefaultsAreSettings DEF PanelTypeOK, Phases, Settings, Display
<1>2. TuningInv
  BY DEF TuningInv, TuningSurvives, Settings, Tunable
<1>3. FollowsInv
  BY DEF FollowsInv
<1> QED
  BY <1>1, <1>2, <1>3 DEF PanelInv

(***************************************************************************)
(* What the actions share.                                                 *)
(***************************************************************************)
\* load() returns settings, and tuning that is allowed if the bootstrap's is.
LEMMA LoadedIsAllowed ==
  ASSUME PanelTypeOK, TuningInv, NEW bootstrap \in Display,
         \/ bootstrap = Defaults
         \/ \A s \in Tunable : bootstrap[s] \in allowed[s]
  PROVE  /\ Loaded(bootstrap) \in Display
         /\ \A s \in Tunable : Loaded(bootstrap)[s] \in allowed[s]
<1> USE OffsetsAreNumbers DEF Loaded, Stored, Settings, Tunable, Display, Defaults
<1>1. CASE nvs = [s \in Settings |-> Absent]
  BY <1>1 DEF TuningInv
<1>2. CASE nvs # [s \in Settings |-> Absent]
  <2>1. Loaded(bootstrap) = [br |-> Stored("br", bootstrap.br),
                             chain |-> Stored("chain", 0),
                             off |-> Stored("off", bootstrap.off)]
    BY <1>2
  <2>2. Loaded(bootstrap) \in Display
    BY <2>1 DEF PanelTypeOK
  <2>3. Stored("chain", 0) \in allowed["chain"]
    BY DEF TuningInv
  <2>4. Stored("off", bootstrap.off) \in allowed["off"]
    BY DEF TuningInv
  <2> QED
    BY <2>1, <2>2, <2>3, <2>4
<1> QED
  BY <1>1, <1>2

\* However setup() comes to load(), the controller starts with what it loads.
LEMMA BeginKeepsInv ==
  ASSUME PanelInv, commanded = Absent, NEW bootstrap \in Display,
         \/ bootstrap = Defaults
         \/ \A s \in Tunable : bootstrap[s] \in allowed[s],
         ControllerBegins(bootstrap),
         engine' \in Display, ready' \in BOOLEAN, lit' \in Brightness \cup {Default}
  PROVE  PanelInv'
<1> USE DEF PanelInv, ControllerBegins, LocalsVanish
<1>1. config' \in Display /\ \A s \in Tunable : config'[s] \in allowed[s]
  BY LoadedIsAllowed
<1>2. PanelTypeOK'
  BY <1>1, DefaultsAreSettings DEF PanelTypeOK, Phases
<1>3. TuningInv'
  BY <1>1 DEF TuningInv, TuningSurvives
<1>4. FollowsInv'
  BY DEF FollowsInv
<1> QED
  BY <1>2, <1>3, <1>4

(***************************************************************************)
(* The actions.                                                            *)
(***************************************************************************)
\* Booting, with and without the calibration, and with its window unused.
LEMMA BootsKeepInv == PanelInv /\ Boots => PanelInv'
<1> SUFFICES ASSUME PanelInv, Boots PROVE PanelInv'
  OBVIOUS
<1>1. CASE BootsToCalibration
  <2> USE <1>1, OffsetsAreNumbers DEF PanelInv, BootsToCalibration
  <2>1. cfg' = [br |-> Default, chain |-> Stored("chain", 0), off |-> Stored("off", 0)]
    BY DEF Defaults
  <2>2. cfg' \in Display
    <3>1. Stored("chain", 0) \in 0..2
      BY DEF PanelTypeOK, Stored
    <3>2. Stored("off", 0) \in Offsets
      BY DEF PanelTypeOK, Stored
    <3> QED
      BY <2>1, <3>1, <3>2 DEF Display
  <2>3. \A s \in Tunable : cfg'[s] \in allowed'[s]
    BY <2>1 DEF TuningInv, Tunable, Stored
  <2>4. PanelTypeOK'
    BY <2>2 DEF PanelTypeOK, Phases
  <2>5. TuningInv'
    BY <2>3 DEF TuningInv, TuningSurvives
  <2>6. FollowsInv'
    BY DEF FollowsInv
  <2> QED
    BY <2>4, <2>5, <2>6
<1>2. CASE BootsWithoutCalibration
  BY <1>2, DefaultsAreSettings, BeginKeepsInv
  DEF BootsWithoutCalibration, PanelInv, PanelTypeOK, FollowsInv
<1>3. CASE WindowCloses
  BY <1>3, BeginKeepsInv DEF WindowCloses, PanelInv, PanelTypeOK, TuningInv, FollowsInv
<1>4. ASSUME NEW works \in BOOLEAN, DisplayBegins(works)
      PROVE  PanelInv'
  <2> USE <1>4 DEF PanelInv, DisplayBegins, EngineBegins
  <2>1. PanelTypeOK'
    BY DEF PanelTypeOK, Phases, Display
  <2>2. TuningInv'
    BY DEF TuningInv, TuningSurvives
  <2>3. FollowsInv'
    BY DEF FollowsInv
  <2> QED
    BY <2>1, <2>2, <2>3
<1> QED
  BY <1>1, <1>2, <1>3, <1>4 DEF Boots

\* Keys that start the display anew with other settings, or fail to.
LEMMA RemapKeepsInv ==
  ASSUME PanelInv, NEW works \in BOOLEAN, NEW display \in Display,
         NEW hands \in SUBSET Tunable,
         \A s \in Tunable \ hands : display[s] = work[s],
         Remaps(display, hands, works)
  PROVE  PanelInv'
<1>1. CASE works
  <2> USE <1>1 DEF PanelInv, Remaps, EngineBegins
  <2>1. PanelTypeOK'
    BY DEF PanelTypeOK, Display
  <2>2. TuningInv'
    BY DEF TuningInv, TuningSurvives
  <2>3. FollowsInv'
    BY DEF FollowsInv
  <2> QED
    BY <2>1, <2>2, <2>3
<1>2. CASE ~works
  BY <1>2, BeginKeepsInv DEF Remaps, EngineBegins, PanelInv, PanelTypeOK, TuningInv, FollowsInv
<1> QED
  BY <1>1, <1>2

\* save(), cut anywhere: what it has written is what it was called with.
LEMMA SavesKeepInv ==
  ASSUME PanelInv, NEW works \in BOOLEAN, SavesSetting(works)
  PROVE  PanelInv'
<1> DEFINE s == NextUnwritten
<1> USE DEF PanelInv
<1>1. /\ phase = "saving" /\ unwritten # {}
      /\ unwritten' = unwritten \ {s}
      /\ nvs' = IF works THEN [nvs EXCEPT ![s] = cfg[s]] ELSE nvs
      /\ allowed' = IF works /\ s \in touched THEN [allowed EXCEPT ![s] = {cfg[s]}] ELSE allowed
      /\ UNCHANGED <<phase, cfg, work, touched, config, engine, ready, lit, commanded>>
  BY DEF SavesSetting
<1>2. s \in Settings /\ cfg \in Display
  BY DEF NextUnwritten, Settings, PanelTypeOK
<1>3. PanelTypeOK'
  <2>1. /\ s = "br" => cfg[s] \in Brightness \cup {Default}
        /\ s = "chain" => cfg[s] \in 0..2
        /\ s = "off" => cfg[s] \in Offsets
    BY <1>2 DEF Display
  <2>2. cfg[s] \in Brightness \cup {Default} \cup Int
    BY <1>2, <2>1, OffsetsAreNumbers DEF Settings
  <2>3. /\ nvs' \in [Settings -> Brightness \cup {Default, Absent} \cup Int]
        /\ nvs'["br"] \in Brightness \cup {Default, Absent}
        /\ nvs'["chain"] \in 0..2 \cup {Absent}
        /\ nvs'["off"] \in Offsets \cup {Absent}
    BY <1>1, <1>2, <2>1, <2>2 DEF PanelTypeOK, Settings
  <2>4. allowed' \in [Tunable -> SUBSET Int]
    <3>1. s \in Tunable => {cfg[s]} \subseteq Int
      BY <2>1, OffsetsAreNumbers DEF Tunable
    <3> QED
      BY <1>1, <3>1 DEF PanelTypeOK
  <2> QED
    BY <1>1, <2>3, <2>4 DEF PanelTypeOK
<1>4. \A t \in Tunable : cfg[t] \in allowed'[t]
  BY <1>1 DEF PanelTypeOK, TuningInv
<1>5. \A t \in Tunable : (IF nvs'[t] = Absent THEN 0 ELSE nvs'[t]) \in allowed'[t]
  <2> SUFFICES ASSUME NEW t \in Tunable
               PROVE  (IF nvs'[t] = Absent THEN 0 ELSE nvs'[t]) \in allowed'[t]
    OBVIOUS
  <2>1. CASE works /\ t = s
    <3>1. nvs'[t] = cfg[t]
      BY <1>1, <1>2, <2>1 DEF PanelTypeOK
    <3>2. cfg[t] # Absent
      BY <1>2, PanelAssumption, OffsetsAreNumbers DEF Display, Tunable
    <3> QED
      BY <1>4, <3>1, <3>2
  <2>2. CASE ~(works /\ t = s)
    BY <1>1, <2>2 DEF PanelTypeOK, TuningInv
  <2> QED
    BY <2>1, <2>2
<1>6. TuningInv'
  BY <1>1, <1>4, <1>5 DEF TuningInv, TuningSurvives
<1>7. FollowsInv'
  BY <1>1 DEF FollowsInv
<1> QED
  BY <1>3, <1>6, <1>7

\* Losing power keeps what was saved and nothing else.
LEMMA StopsKeepInv == PanelInv /\ PanelStops => PanelInv'
<1> SUFFICES ASSUME PanelInv, PanelStops PROVE PanelInv'
  OBVIOUS
<1> USE DEF PanelInv, PanelStops, LocalsVanish
<1>1. PanelTypeOK'
  BY DefaultsAreSettings DEF PanelTypeOK, Phases
<1>2. TuningInv'
  BY DEF TuningInv, TuningSurvives
<1>3. FollowsInv'
  BY DEF FollowsInv
<1> QED
  BY <1>1, <1>2, <1>3

\* Every key of the installer, and save().
LEMMA CalibrationKeepsInv == PanelInv /\ Calibrates => PanelInv'
<1> SUFFICES ASSUME PanelInv, Calibrates PROVE PanelInv'
  OBVIOUS
<1>1. ASSUME NEW works \in BOOLEAN, InstallerEnters(works)
      PROVE  PanelInv'
  <2>1. CASE works
    <3> USE <1>1, <2>1 DEF PanelInv, InstallerEnters, EngineBegins
    <3>1. PanelTypeOK'
      BY DEF PanelTypeOK, Phases, Display
    <3>2. TuningInv'
      BY DEF TuningInv, TuningSurvives
    <3>3. FollowsInv'
      BY DEF FollowsInv
    <3> QED
      BY <3>1, <3>2, <3>3
  <2>2. CASE ~works
    BY <1>1, <2>2, BeginKeepsInv
    DEF InstallerEnters, EngineBegins, PanelInv, PanelTypeOK, TuningInv, FollowsInv
  <2> QED
    BY <2>1, <2>2
<1>2. ASSUME NEW works \in BOOLEAN, NEW step \in {1, 2}, Cycles(step, works)
      PROVE  PanelInv'
  <2>1. [work EXCEPT !.chain = (work.chain + step) % 3] \in Display
    BY DEF PanelInv, PanelTypeOK, Display
  <2>2. \A s \in Tunable \ {"chain"} : [work EXCEPT !.chain = (work.chain + step) % 3][s] = work[s]
    BY DEF Tunable, PanelInv, PanelTypeOK, Display
  <2> QED
    BY <1>2, <2>1, <2>2, RemapKeepsInv DEF Cycles, Tunable
<1>3. ASSUME NEW works \in BOOLEAN, ResetsTuning(works)
      PROVE  PanelInv'
  <2>1. [work EXCEPT !.chain = 0, !.off = 0] \in Display
    <3>1. [work EXCEPT !.chain = 0] \in Display
      BY DEF PanelInv, PanelTypeOK, Display
    <3> QED
      BY <3>1, OffsetsAreNumbers DEF Display
  <2> QED
    BY <1>3, <2>1, RemapKeepsInv DEF ResetsTuning
<1>4. ASSUME NEW off \in {work.off - 1, work.off + 1, 0}, Moves(off)
      PROVE  PanelInv'
  <2> USE <1>4, PanelAssumption DEF PanelInv, Moves
  <2>1. work'.off \in Offsets
    BY DEF PanelTypeOK, Display, Offsets
  <2>2. /\ work' \in Display /\ engine' \in Display
        /\ \A s \in Tunable \ {"off"} : work'[s] = work[s]
    BY <2>1 DEF PanelTypeOK, Display, Tunable
  <2>3. PanelTypeOK'
    BY <2>2 DEF PanelTypeOK, Tunable
  <2>4. TuningInv'
    BY <2>2 DEF TuningInv, TuningSurvives
  <2>5. FollowsInv'
    BY DEF FollowsInv
  <2> QED
    BY <2>3, <2>4, <2>5
<1>5. CASE InstallerCancels
  BY <1>5, BeginKeepsInv
  DEF InstallerCancels, EngineEnds, PanelInv, PanelTypeOK, TuningInv, FollowsInv
<1>6. CASE SaveBegins
  <2> USE <1>6 DEF PanelInv, SaveBegins
  <2>1. PanelTypeOK'
    <3>1. \A s \in Tunable : work[s] \in Int
      BY OffsetsAreNumbers DEF PanelTypeOK, Tunable, Display
    <3>2. allowed' \in [Tunable -> SUBSET Int]
      BY <3>1 DEF PanelTypeOK
    <3> QED
      BY <3>2 DEF PanelTypeOK, Phases
  <2>2. \A s \in Tunable : work[s] \in allowed'[s] /\ allowed[s] \subseteq allowed'[s]
    BY DEF TuningInv
  <2>3. TuningInv'
    BY <2>2 DEF TuningInv, TuningSurvives
  <2>4. FollowsInv'
    BY DEF FollowsInv
  <2> QED
    BY <2>1, <2>3, <2>4
<1>7. CASE SaveFailsToOpen
  BY <1>7, BeginKeepsInv
  DEF SaveFailsToOpen, EngineEnds, PanelInv, PanelTypeOK, TuningInv, FollowsInv
<1>8. CASE SaveRestarts
  BY <1>8, StopsKeepInv DEF SaveRestarts
<1>9. ASSUME NEW works \in BOOLEAN, SavesSetting(works)
      PROVE  PanelInv'
  BY <1>9, SavesKeepInv
<1> QED
  BY <1>1, <1>2, <1>3, <1>4, <1>5, <1>6, <1>7, <1>8, <1>9 DEF Calibrates

\* A command's brightness reaches the settings and the panel alike.
LEMMA CommandKeepsInv ==
  ASSUME PanelInv, NEW b \in Brightness, SetsBrightness(b)
  PROVE  PanelInv'
<1> USE DEF PanelInv, SetsBrightness
<1>1. /\ config' \in Display /\ engine' \in Display
      /\ config'.br = b
      /\ \A s \in Tunable : config'[s] = config[s]
  BY DEF PanelTypeOK, Display, Tunable
<1>2. PanelTypeOK'
  BY <1>1 DEF PanelTypeOK
<1>3. TuningInv'
  BY <1>1 DEF TuningInv, TuningSurvives
<1>4. FollowsInv'
  BY <1>1 DEF FollowsInv
<1> QED
  BY <1>2, <1>3, <1>4

LEMMA PanelInvStep == PanelInv /\ [PanelNext]_panelVars => PanelInv'
<1> SUFFICES ASSUME PanelInv, [PanelNext]_panelVars PROVE PanelInv'
  OBVIOUS
<1>1. CASE UNCHANGED panelVars
  BY <1>1 DEF panelVars, PanelInv, PanelTypeOK, TuningInv, TuningSurvives, FollowsInv
<1> QED
  BY <1>1, BootsKeepInv, CalibrationKeepsInv, CommandKeepsInv, StopsKeepInv DEF PanelNext

LEMMA PanelInvAlways == PanelSpec => []PanelInv
BY PanelInvInit, PanelInvStep, PTL DEF PanelSpec

(***************************************************************************)
(* The theorems.                                                           *)
(***************************************************************************)
\* The types of the settings in NVS, in setup(), in the controller and in the
\* panel.
THEOREM PanelTypes == PanelSpec => []PanelTypeOK
<1>1. PanelInv => PanelTypeOK
  BY DEF PanelInv
<1> QED
  BY <1>1, PanelInvAlways, PTL

\* ConfigStore::save() and maybe_run(): the device runs with the tuning that
\* was saved last, each setting old or new when the save was cut off, and a
\* setting nobody touched survives the calibration of the others.
THEOREM TuningIsKept == PanelSpec => []TuningSurvives
<1>1. PanelInv => TuningSurvives
  BY DEF PanelInv, TuningInv
<1> QED
  BY <1>1, PanelInvAlways, PTL

\* begin() starts the panel late: commands that come before it are not lost,
\* and a panel that works follows every command after it.
THEOREM PanelFollowsCommands == PanelSpec => []PanelFollows
<1>1. PanelInv => PanelFollows
  BY DEF PanelInv, FollowsInv, PanelFollows
<1> QED
  BY <1>1, PanelInvAlways, PTL

===============================================================================
