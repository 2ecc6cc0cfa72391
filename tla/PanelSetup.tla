------------------------------- MODULE PanelSetup -------------------------------
(***************************************************************************)
(* The display's settings from boot to command: maybe_run(), which lets an *)
(* installer try settings on the panel over the serial line and saves      *)
(* them, ConfigStore, which writes one key of NVS after the other, and     *)
(* DeviceController::begin(), which loads them, waits for the broker, and  *)
(* only then starts the panel, so that a command may come first.           *)
(*                                                                         *)
(* Of the settings three are kept here: `br` stands for those the          *)
(* installer cannot change, `chain` for those whose keys cycle or set a    *)
(* small number (here 0 to 2), `off` for the offsets, up to MaxOffset.      *)
(***************************************************************************)
EXTENDS Integers

CONSTANTS
    Brightness,     \* brightness of a command
    Default,        \* the bootstrap brightness
    MaxOffset,      \* the largest offset
    Absent          \* a key that was never written

ASSUME PanelAssumption ==
    /\ Default \notin Brightness
    /\ MaxOffset \in Nat \ {0}
    /\ Absent \notin Brightness \cup {Default} \cup Int

VARIABLES
    phase,      \* how far setup() is: "off", "window", "calibrating", "saving",
                \* "connecting", or "running" behind it
    nvs,        \* "corecfg"
    cfg,        \* setup()'s cfg.display, the bootstrap configuration
    work,       \* what the installer tries
    touched,    \* history: the settings changed by hand in this calibration
    unwritten,  \* the settings save() has not come to, "closed" outside it
    config,     \* runtimeConfig_.display
    engine,     \* DisplayEngine's config_
    ready,      \* ready_
    lit,        \* the brightness the panel was given
    allowed,    \* history: what was saved last, each setting by itself
    commanded   \* history: the last brightness of a command since boot

panelVars == <<phase, nvs, cfg, work, touched, unwritten, config, engine, ready, lit,
               allowed, commanded>>

Settings == {"br", "chain", "off"}
Tunable == {"chain", "off"}

Defaults == [br |-> Default, chain |-> 0, off |-> 0]

PanelInit ==
    /\ phase = "off"
    /\ nvs = [s \in Settings |-> Absent]
    /\ cfg = Defaults
    /\ work = Defaults
    /\ config = Defaults
    /\ engine = Defaults
    /\ touched = {}
    /\ unwritten = {}
    /\ ready = FALSE
    /\ lit = Default
    /\ allowed = [s \in Tunable |-> {0}]
    /\ commanded = Absent

(***************************************************************************)
(* DisplayEngine.                                                          *)
(***************************************************************************)
Stored(s, fallback) == IF nvs[s] = Absent THEN fallback ELSE nvs[s]

\* begin(): end(), then the matrix; `works` is whether the driver started.
EngineBegins(display, works) ==
    /\ engine' = display
    /\ ready' = works
    /\ lit' = IF works THEN display.br ELSE lit

EngineEnds ==
    /\ ready' = FALSE
    /\ UNCHANGED <<engine, lit>>

(***************************************************************************)
(* Boot.  The calibration is compiled in or it is not.                     *)
(***************************************************************************)
\* Slip: the installer starts from the defaults.
CalibrationForgets ==
    /\ phase = "off"
    /\ phase' = "window"
    /\ cfg' = Defaults
    /\ UNCHANGED <<nvs, work, touched, unwritten, config, engine, ready, lit, allowed, commanded>>

BootsToCalibration ==
    /\ phase = "off"
    /\ phase' = "window"
    /\ cfg' = [Defaults EXCEPT !.chain = Stored("chain", 0), !.off = Stored("off", 0)]
    /\ UNCHANGED <<nvs, work, touched, unwritten, config, engine, ready, lit, allowed, commanded>>

\* load(): a chain that was never saved follows `serpentine`, not cfg.  A name
\* space without these keys is taken for one that was never made; they differ
\* only when a save of which no write worked is followed, in a later boot, by
\* one that cannot open the name space.
Loaded(bootstrap) ==
    IF nvs = [s \in Settings |-> Absent]
    THEN bootstrap
    ELSE [br |-> Stored("br", bootstrap.br),
          chain |-> Stored("chain", 0),
          off |-> Stored("off", bootstrap.off)]

\* What setup() and maybe_run() held is gone; no load() follows.
LocalsVanish ==
    /\ cfg' = Defaults
    /\ work' = Defaults
    /\ touched' = {}
    /\ unwritten' = {}

ControllerBegins(bootstrap) ==
    /\ phase' = "connecting"
    /\ config' = Loaded(bootstrap)
    /\ LocalsVanish
    /\ UNCHANGED <<nvs, allowed, commanded>>

BootsWithoutCalibration ==
    /\ phase = "off"
    /\ ControllerBegins(Defaults)
    /\ UNCHANGED <<engine, ready, lit>>

WindowCloses ==
    /\ phase = "window"
    /\ ControllerBegins(cfg)
    /\ UNCHANGED <<engine, ready, lit>>

(***************************************************************************)
(* maybe_run().                                                            *)
(***************************************************************************)
InstallerEnters(works) ==
    /\ phase = "window"
    /\ EngineBegins(cfg, works)
    /\ IF works
       THEN /\ phase' = "calibrating"
            /\ work' = cfg
            /\ touched' = {}
            /\ UNCHANGED <<nvs, cfg, unwritten, config, allowed, commanded>>
       ELSE ControllerBegins(cfg)

\* A key that changes the mapping: the display starts anew, or calibration
\* ends with the settings it began with.
Remaps(display, hands, works) ==
    /\ phase = "calibrating"
    /\ EngineBegins(display, works)
    /\ IF works
       THEN /\ work' = display
            /\ touched' = touched \cup hands
            /\ UNCHANGED <<phase, nvs, cfg, unwritten, config, allowed, commanded>>
       ELSE ControllerBegins(cfg)

\* cycle_mode(), and the keys that cycle or set another small number.
Cycles(step, works) ==
    Remaps([work EXCEPT !.chain = (work.chain + step) % 3], {"chain"}, works)

ResetsTuning(works) == Remaps([work EXCEPT !.chain = 0, !.off = 0], Tunable, works)

\* A key that moves the picture.
Moves(off) ==
    /\ phase = "calibrating"
    /\ work' = [work EXCEPT !.off = IF off < -MaxOffset THEN -MaxOffset
                                    ELSE IF off > MaxOffset THEN MaxOffset ELSE off]
    /\ engine' = [engine EXCEPT !.off = work'.off]
    /\ touched' = touched \cup {"off"}
    /\ UNCHANGED <<phase, nvs, cfg, unwritten, config, ready, lit, allowed, commanded>>

InstallerCancels ==
    /\ phase = "calibrating"
    /\ EngineEnds
    /\ ControllerBegins(cfg)

(***************************************************************************)
(* save().  A failed putUChar() and its like is not noticed.               *)
(***************************************************************************)
SaveBegins ==
    /\ phase = "calibrating"
    /\ phase' = "saving"
    /\ cfg' = work
    /\ unwritten' = Settings
    /\ allowed' = [s \in Tunable |-> IF s \in touched THEN allowed[s] \cup {work[s]} ELSE allowed[s]]
    /\ UNCHANGED <<nvs, work, touched, config, engine, ready, lit, commanded>>

\* The name space cannot be opened for writing: the controller begins with the
\* new settings, over which load() puts what was saved before, if it can read it.
SaveFailsToOpen ==
    /\ phase = "saving"
    /\ unwritten = Settings
    /\ EngineEnds
    /\ ControllerBegins(cfg)

\* save() writes the settings in this order.
NextUnwritten == IF "br" \in unwritten THEN "br" ELSE IF "chain" \in unwritten THEN "chain" ELSE "off"

SavesSetting(works) ==
    /\ phase = "saving"
    /\ unwritten # {}
    /\ LET s == NextUnwritten
       IN  /\ unwritten' = unwritten \ {s}
           /\ nvs' = IF works THEN [nvs EXCEPT ![s] = cfg[s]] ELSE nvs
           /\ allowed' = IF works /\ s \in touched THEN [allowed EXCEPT ![s] = {cfg[s]}] ELSE allowed
    /\ UNCHANGED <<phase, cfg, work, touched, config, engine, ready, lit, commanded>>

(***************************************************************************)
(* The controller.                                                         *)
(***************************************************************************)
DisplayBegins(works) ==
    /\ phase = "connecting"
    /\ phase' = "running"
    /\ EngineBegins(config, works)
    /\ UNCHANGED <<nvs, cfg, work, touched, unwritten, config, allowed, commanded>>

\* Slip: a command is applied to the panel only.
SetsBrightnessOfEngine(b) ==
    /\ phase \in {"connecting", "running"}
    /\ engine' = [engine EXCEPT !.br = b]
    /\ lit' = IF ready THEN b ELSE lit
    /\ commanded' = b
    /\ UNCHANGED <<phase, nvs, cfg, work, touched, unwritten, config, ready, allowed>>

\* handle_command() with data, or display_blank.
SetsBrightness(b) ==
    /\ phase \in {"connecting", "running"}
    /\ config' = [config EXCEPT !.br = b]
    /\ engine' = [engine EXCEPT !.br = b]
    /\ lit' = IF ready THEN b ELSE lit
    /\ commanded' = b
    /\ UNCHANGED <<phase, nvs, cfg, work, touched, unwritten, ready, allowed>>

(***************************************************************************)
(* Power fails, or the board restarts, as it does when save() is done.     *)
(***************************************************************************)
PanelStops ==
    /\ phase # "off"
    /\ phase' = "off"
    /\ LocalsVanish
    /\ config' = Defaults
    /\ engine' = Defaults
    /\ ready' = FALSE
    /\ lit' = Default
    /\ commanded' = Absent
    /\ UNCHANGED <<nvs, allowed>>

SaveRestarts == phase = "saving" /\ unwritten = {} /\ PanelStops

Calibrates ==
    \/ \E works \in BOOLEAN :
        \/ InstallerEnters(works)
        \/ \E step \in {1, 2} : Cycles(step, works)
        \/ ResetsTuning(works)
        \/ SavesSetting(works)
    \/ \E off \in {work.off - 1, work.off + 1, 0} : Moves(off)
    \/ InstallerCancels
    \/ SaveBegins
    \/ SaveFailsToOpen
    \/ SaveRestarts

Boots ==
    \/ BootsToCalibration
    \/ BootsWithoutCalibration
    \/ WindowCloses
    \/ \E works \in BOOLEAN : DisplayBegins(works)

PanelNext ==
    \/ Boots
    \/ Calibrates
    \/ \E b \in Brightness : SetsBrightness(b)
    \/ PanelStops

PanelSpec == PanelInit /\ [][PanelNext]_panelVars

(***************************************************************************)
(* Properties.                                                             *)
(***************************************************************************)
\* The device runs with the tuning an installer saved last: a save that was
\* cut off leaves each setting old or new, and a setting no hand touched
\* survives every calibration of the others.
TuningSurvives ==
    phase \in {"connecting", "running"} => \A s \in Tunable : config[s] \in allowed[s]

\* A panel that works shows what the last command asked for, even one that
\* came before the panel was started, and has the settings that were loaded.
PanelFollows ==
    phase = "running" /\ ready =>
        /\ engine = config
        /\ lit = IF commanded = Absent THEN config.br ELSE commanded

=============================================================================
