------------------------------- MODULE Display -------------------------------
(***************************************************************************)
(* The rows DeviceController shows: the render model that commands, the    *)
(* sessions and the animations change, the one pending render, the scroll  *)
(* state of each row, and what the panel has been told to show since.      *)
(* A turn of tick() is cut where sessions can change under it.  The        *)
(* sessions themselves are an environment here: Connectivity has them.     *)
(* kMaxTransitRows is 3, but no command fills the third row; it is left    *)
(* out.  The configuration is not double-buffered (main.cpp).              *)
(***************************************************************************)
EXTENDS RowGeometry

CONSTANTS
    Payloads,   \* the data commands the server sends: [n, rows]
    Frames,     \* the dots sync_stale_eta_animation() cycles through
    EmptyRow,   \* clear_row()
    WaitingRow  \* the first row of set_default_rows()

RowIds == 1..2
MaxEtaChars == 11       \* kMaxEtaLen - 1

IsRow(row) ==
    /\ DOMAIN row = {"label", "badge", "eta", "scroll", "stacked", "extra", "late"}
    /\ {row.label.letters, row.label.spaces, row.eta.chars} \subseteq Nat
    /\ row.badge \in {"pill", "circle"}
    /\ {row.scroll, row.stacked, row.extra, row.late} \subseteq BOOLEAN

\* A data command fills one row or two and clears the other; an empty label or
\* arrival time is sent as "--", and no label is the text of set_default_rows().
IsPayload(p) ==
    /\ p.n \in RowIds
    /\ DOMAIN p.rows = RowIds
    /\ \A i \in 1..p.n :
        /\ IsRow(p.rows[i])
        /\ p.rows[i].label \notin {EmptyRow.label, WaitingRow.label}
        /\ p.rows[i].label.letters > 0
        /\ p.rows[i].eta.chars \in 1..MaxEtaChars
    /\ \A i \in (p.n + 1)..2 : p.rows[i] = EmptyRow

ASSUME DisplayAssumption ==
    /\ \A p \in Payloads : IsPayload(p)
    /\ Frames # {}
    /\ \A f \in Frames : f.chars = 3
    /\ IsRow(EmptyRow) /\ ~EmptyRow.scroll
    /\ IsRow(WaitingRow) /\ ~WaitingRow.scroll

VARIABLES
    phase,     \* the part of begin() or tick() the main task runs next
    wifi,      \* WiFi.status() == WL_CONNECTED
    conn,      \* the broker client's connected()
    grace,     \* nowMs < mqttUiGraceUntilMs_
    last,      \* lastMqttConnected_, with mqttConnected after the sample
    model,     \* renderModel_: [ui, status, hasData, n, rows]; n is activeRows
    fresh,     \* hasFreshPayload_
    render,    \* renderDirty_, pendingRenderMode_, etaDirtyRowMask_
    scroll,    \* scrollState_
    screen,    \* what the panel shows
    told       \* history: the rows of the last data command still in force

sessionVars == <<wifi, conn, grace>>
viewVars == <<model, fresh, render>>
vars == <<phase, sessionVars, last, viewVars, scroll, screen, told>>

(***************************************************************************)
(* schedule_full_render() and its siblings: one pending render.            *)
(***************************************************************************)
FullRender == [dirty |-> TRUE, mode |-> "full", mask |-> {}]
Drawn == [dirty |-> FALSE, mode |-> "none", mask |-> {}]

\* Slip: an update of the etas replaces a full render that is still owed.
EtaRenderAlways(r, mask) ==
    IF mask = {} THEN r ELSE [dirty |-> TRUE, mode |-> "eta", mask |-> r.mask \cup mask]

EtaRender(r, mask) ==
    IF mask = {} \/ r.mode = "full" THEN r
    ELSE [dirty |-> TRUE, mode |-> "eta", mask |-> r.mask \cup mask]
ScrollRender(r) ==
    IF r.mode \in {"full", "eta"} THEN r ELSE [r EXCEPT !.dirty = TRUE, !.mode = "scroll"]

NoRender(r) == IF r.dirty THEN r ELSE [r EXCEPT !.mode = "none", !.mask = {}]

(***************************************************************************)
(* classify_render_mode(), for a command, which leaves the status lines.   *)
(***************************************************************************)
Layout(row) == [label |-> row.label, badge |-> row.badge, stacked |-> row.stacked]
EtaPart(row) == [eta |-> row.eta, extra |-> row.extra, late |-> row.late]

SameLayout(p) ==
    /\ model.ui = "transit"
    /\ model.hasData
    /\ model.n = p.n
    /\ \A i \in RowIds :
        /\ Layout(model.rows[i]) = Layout(p.rows[i])
        /\ model.rows[i].scroll = p.rows[i].scroll
EtaDirty(p) == {i \in 1..p.n : EtaPart(model.rows[i]) # EtaPart(p.rows[i])}

Classify(p) ==
    IF ~SameLayout(p) THEN "full"
    ELSE IF EtaDirty(p) = {} THEN "none" ELSE "eta"

(***************************************************************************)
(* Scroll state of a row; width 0 is a row not measured yet.               *)
(***************************************************************************)
NoScroll == [offset |-> 0, width |-> 0, room |-> 0, returning |-> FALSE, active |-> FALSE]

ScrollTurnedOff(p) == \E i \in RowIds : model.rows[i].scroll /\ ~p.rows[i].scroll

\* Slip: a row keeps its scroll state when only its scrolling is switched.
ResetRelabelled(p) ==
    [i \in RowIds |-> IF model.rows[i].label # p.rows[i].label THEN NoScroll ELSE scroll[i]]

ResetChanged(p) ==
    [i \in RowIds |->
        IF model.rows[i].scroll # p.rows[i].scroll \/ model.rows[i].label # p.rows[i].label
        THEN NoScroll ELSE scroll[i]]

(***************************************************************************)
(* update_ui_state() with sync_stale_eta_animation(force).                 *)
(***************************************************************************)
Looks(m) ==
    CASE m.ui = "blank" /\ ~m.hasData -> {<<"blank", m.status>>}
      [] m.hasData /\ wifi' /\ (conn' \/ grace') /\ fresh' -> {<<"transit", "transit">>}
      [] m.hasData /\ ~(wifi' /\ (conn' \/ grace') /\ fresh') -> {<<"stale", "stale">>}
      [] OTHER -> IF ~wifi' THEN {<<"nowifi", "nowifi">>, <<"setup", "setup">>}
                  ELSE IF conn' THEN {<<"waiting", "add">>}
                  ELSE IF grace' THEN {<<"waiting", "connecting">>}
                  ELSE {<<"nomqtt", "nomqtt">>}

Dotted(m, frame) ==
    [m EXCEPT !.rows = [i \in RowIds |->
        IF i <= m.n THEN [m.rows[i] EXCEPT !.eta = frame, !.extra = FALSE] ELSE m.rows[i]]]

Showing(m) == {[m EXCEPT !.ui = look[1], !.status = look[2]] : look \in Looks(m)}

\* Slip: rows that become stale have only their etas redrawn.
UpdatesUiByParts(r) ==
    \E shown \in Showing(model) :
        IF shown = model
        THEN model' = model /\ render' = r
        ELSE /\ model' \in IF shown.ui = "stale" THEN {Dotted(shown, frame) : frame \in Frames}
                           ELSE {shown}
             /\ render' = IF shown.ui = "stale" THEN EtaRender(r, 1..shown.n) ELSE FullRender

\* `r` is the render request the caller leaves
UpdatesUi(r) ==
    \E shown \in Showing(model) :
        IF shown = model
        THEN model' = model /\ render' = r
        ELSE /\ model' \in IF shown.ui = "stale" THEN {Dotted(shown, frame) : frame \in Frames}
                           ELSE {shown}
             /\ render' = FullRender

(***************************************************************************)
(* Start: the constructor and begin().  Only labels and scrolling of the   *)
(* last rows are cached.                                                   *)
(***************************************************************************)
StartingModel == [ui |-> "booting", status |-> "boot", hasData |-> FALSE, n |-> 1,
                  rows |-> [i \in RowIds |-> IF i = 1 THEN WaitingRow ELSE EmptyRow]]

Restored(p) ==
    [StartingModel EXCEPT
        !.hasData = TRUE,
        !.n = p.n,
        !.rows = [i \in RowIds |->
            IF i <= p.n
            THEN [EmptyRow EXCEPT !.label = p.rows[i].label, !.scroll = p.rows[i].scroll,
                                  !.eta = WaitingRow.eta]
            ELSE EmptyRow]]

NoRows == [n |-> 0, rows |-> [i \in RowIds |-> EmptyRow]]
NothingShown == [layout |-> Layout(EmptyRow), part |-> EtaPart(EmptyRow), white |-> FALSE,
                 offset |-> 0, marks |-> {}, widest |-> 0]
DarkScreen == [kind |-> "dark", n |-> 0, text |-> "", rows |-> [i \in RowIds |-> NothingShown]]

Init ==
    /\ phase = "begin"
    /\ wifi \in BOOLEAN
    /\ conn = FALSE
    /\ grace = TRUE
    /\ last = FALSE
    /\ model \in {StartingModel} \cup {Restored(p) : p \in Payloads}
    /\ fresh = FALSE
    /\ render = FullRender
    /\ scroll = [i \in RowIds |-> NoScroll]
    /\ screen = DarkScreen
    /\ told = NoRows

(***************************************************************************)
(* The environment.  It acts in the phases whose actions read what it      *)
(* changes; in the others it would only come earlier or later.             *)
(***************************************************************************)
LinkChanges ==
    /\ phase \in {"begin", "ready", "net", "view", "switched"}
    /\ wifi' = ~wifi
    /\ UNCHANGED <<phase, conn, grace, last, viewVars, scroll, screen, told>>

SessionLost ==
    /\ phase \notin {"greeted", "commands", "draw"}
    /\ conn
    /\ conn' = FALSE
    /\ UNCHANGED <<phase, wifi, grace, last, viewVars, scroll, screen, told>>

\* begin() takes at most two seconds of the fifteen it grants, and a switch
\* that grants more is followed by update_ui_state() at once.
GraceEnds ==
    /\ phase \in {"net", "view"}
    /\ grace
    /\ grace' = FALSE
    /\ UNCHANGED <<phase, wifi, conn, last, viewVars, scroll, screen, told>>

\* handle_network_state(): in begin(), in tick() and in set_credentials()
NetworkReports(state) ==
    /\ phase \in {"begin", "net"}
    /\ wifi = (state = "Connected")
    /\ grace' = (grace \/ state = "Connected")
    /\ fresh' = (fresh /\ state # "Disconnected")
    /\ UNCHANGED <<phase, wifi, conn, last, scroll, screen, told>>
    /\ UpdatesUi(render)

(***************************************************************************)
(* MqttClient::tick() and the commands it dispatches, one per call.  A     *)
(* command that arrived before a loss is still dispatched.                 *)
(***************************************************************************)
BeginConnects ==
    /\ phase = "begin"
    /\ wifi
    /\ conn' = TRUE
    /\ phase' = "greeted"
    /\ UNCHANGED <<wifi, grace, last, viewVars, scroll, screen, told>>

Polls ==
    /\ phase = "net"
    /\ conn' \in IF wifi THEN {conn, TRUE} ELSE {conn}
    /\ phase' = IF conn' THEN "commands" ELSE "edge"
    /\ UNCHANGED <<wifi, grace, last, viewVars, scroll, screen, told>>

AfterCommand ==
    /\ phase \in {"greeted", "commands"}
    /\ phase' = IF phase = "greeted" THEN "ready" ELSE "edge"

NoCommand ==
    /\ AfterCommand
    /\ UNCHANGED <<sessionVars, last, viewVars, scroll, screen, told>>

Requested(p) ==
    LET r == IF ScrollTurnedOff(p) THEN FullRender ELSE render
    IN  CASE Classify(p) = "full" -> FullRender
          [] Classify(p) = "eta" -> EtaRender(r, EtaDirty(p))
          [] OTHER -> NoRender(r)

\* handle_command() with data
ReceivesRows(p) ==
    /\ AfterCommand
    /\ model' = [model EXCEPT !.ui = "transit", !.hasData = TRUE, !.n = p.n, !.rows = p.rows]
    /\ fresh' = TRUE
    /\ render' = Requested(p)
    /\ scroll' = ResetChanged(p)
    /\ told' = p
    /\ UNCHANGED <<sessionVars, last, screen>>

\* handle_display_blank_command()
ReceivesBlank ==
    /\ AfterCommand
    /\ model' = [ui |-> "blank", status |-> "", hasData |-> FALSE, n |-> 0,
                 rows |-> [i \in RowIds |-> EmptyRow]]
    /\ fresh' = FALSE
    /\ render' = FullRender
    /\ scroll' = [i \in RowIds |-> NoScroll]
    /\ told' = NoRows
    /\ UNCHANGED <<sessionVars, last, screen>>

\* handle_disconnect_wifi_command(): set_default_rows() leaves the scroll state
ReceivesDisconnect ==
    /\ AfterCommand
    /\ wifi' = FALSE
    /\ conn' = FALSE
    /\ fresh' = FALSE
    /\ model' \in Showing([model EXCEPT !.hasData = FALSE, !.n = 1, !.rows = StartingModel.rows])
    /\ render' = FullRender
    /\ told' = NoRows
    /\ UNCHANGED <<grace, last, scroll, screen>>

(***************************************************************************)
(* The rest of a turn, up to the drawing.                                  *)
(***************************************************************************)
SamplesEdge ==
    /\ phase = "edge"
    /\ last' = conn
    /\ grace' = (grace \/ (last /\ ~conn))
    /\ fresh' = (fresh /\ ~(last /\ ~conn))
    /\ phase' = "view"
    /\ UNCHANGED <<wifi, conn, model, render, scroll, screen, told>>

\* POST /connect joins and leaves the broker; the manager reports when its
\* state changes: to kConnected, or to kDisconnected when the link has gone.
RequestSwitches ==
    /\ phase = "view"
    /\ conn' = FALSE
    /\ phase' = "switched"
    /\ UNCHANGED <<last, scroll, screen, told>>
    /\ \/ /\ wifi' = TRUE
          /\ UNCHANGED <<grace, viewVars>>
       \/ /\ wifi' = TRUE
          /\ grace' = TRUE
          /\ fresh' = fresh
          /\ UpdatesUi(render)
       \/ /\ wifi' = FALSE
          /\ grace' = grace
          /\ fresh' = FALSE
          /\ UpdatesUi(render)

ShowsState ==
    /\ phase \in {"view", "switched"}
    /\ phase' = "draw"
    /\ UNCHANGED <<sessionVars, last, fresh, scroll, screen, told>>
    /\ UpdatesUi(render)

(***************************************************************************)
(* tick_scroll().                                                          *)
(***************************************************************************)
Scrolls(i) == model.ui = "transit" /\ i <= model.n /\ model.rows[i].scroll
IsMeasuredNow(i) == Scrolls(i) /\ scroll[i].width = 0

Measured ==
    [i \in RowIds |->
        IF ~IsMeasuredNow(i) THEN scroll[i]
        ELSE LET g == Geometry(model.n, model.rows[i])
                 width == LabelWidth(model.rows[i].label, g.font)
             IN  [scroll[i] EXCEPT !.width = width, !.room = ScrollRoom(g),
                                   !.active = width > ScrollRoom(g)]]

Moving(m) == {i \in RowIds : Scrolls(i) /\ m[i].active}
Starting(m) == {i \in Moving(m) : IsMeasuredNow(i)}
Overflow(s) == s.width - s.room
Master(m) == CHOOSE i \in Moving(m) : \A j \in Moving(m) \ {i} :
                 Overflow(m[i]) > Overflow(m[j]) \/ (Overflow(m[i]) = Overflow(m[j]) /\ i < j)

Advanced(s) ==
    IF s.returning THEN [s EXCEPT !.offset = 0, !.returning = FALSE]
    ELSE IF -(s.offset - 1) >= s.width - s.room
    THEN [s EXCEPT !.offset = s.room - s.width, !.returning = TRUE]
    ELSE [s EXCEPT !.offset = s.offset - 1]

\* Slip: a shorter row runs on past its end.
FollowsPastEnd(s, m) == [s EXCEPT !.offset = m.offset, !.returning = m.returning]

Follows(s, m) ==
    [s EXCEPT !.offset = AtMost(0, AtLeast(m.offset, s.room - s.width)),
              !.returning = m.returning]

\* The moving rows follow the lead: the master's state.
InStep(m, lead) ==
    [i \in RowIds |->
        IF i \notin Moving(m) THEN m[i]
        ELSE IF Moving(m) # {i} /\ Starting(m) # {}
        THEN [m[i] EXCEPT !.offset = 0, !.returning = FALSE]
        ELSE Follows(m[i], lead)]

\* From the states `m` after measuring.  `over`: the pause of the moving rows
\* is over; a row that starts is paused.
Scrolled(m, over) ==
    IF Moving(m) = {} THEN m
    ELSE InStep(m, IF over /\ Starting(m) = {} THEN Advanced(m[Master(m)]) ELSE m[Master(m)])

(***************************************************************************)
(* render_frame().                                                         *)
(***************************************************************************)
InView(m) == m.hasData /\ m.ui \in {"transit", "stale"}

DrawnRow(m, i) ==
    IF i > m.n THEN NothingShown
    ELSE [layout |-> Layout(m.rows[i]),
          part |-> EtaPart(m.rows[i]),
          white |-> m.ui = "stale",
          offset |-> 0,
          marks |-> EtaMarks(m.n, m.rows[i]),
          widest |-> m.rows[i].eta.chars]

DrawnFull(m) ==
    IF InView(m)
    THEN [kind |-> "rows", n |-> m.n, text |-> "", rows |-> [i \in RowIds |-> DrawnRow(m, i)]]
    ELSE [DarkScreen EXCEPT !.kind = IF m.ui = "blank" THEN "dark" ELSE "message",
                            !.text = IF m.ui = "blank" THEN "" ELSE m.status]

DrawnEta(m, mask) ==
    [screen EXCEPT !.rows = [i \in RowIds |->
        LET old == screen.rows[i]
            row == m.rows[i]
        IN  IF i > m.n \/ i \notin mask THEN old
            ELSE [old EXCEPT
                    !.part = EtaPart(row),
                    !.white = (m.ui = "stale"),
                    !.marks = (old.marks \ (EtaClears(m.n, row) \cup EtaCells(m.n, row)))
                              \cup EtaMarks(m.n, row),
                    !.widest = AtLeast(old.widest, row.eta.chars)]]]

DrawnScroll(m, rows) ==
    [screen EXCEPT !.rows = [i \in RowIds |->
        IF i <= m.n /\ rows[i].active
        THEN [screen.rows[i] EXCEPT !.layout.label = m.rows[i].label, !.offset = rows[i].offset]
        ELSE screen.rows[i]]]

\* An update of parts falls back to a full render when no rows are in view.
DrawsFrame(m, r, rows) ==
    CASE r.mode \in {"full", "none"} -> screen' = DrawnFull(m) /\ render' = Drawn
      [] r.mode = "eta" /\ InView(m) -> screen' = DrawnEta(m, r.mask) /\ render' = Drawn
      [] r.mode = "scroll" /\ InView(m) -> screen' = DrawnScroll(m, rows) /\ render' = Drawn
      [] OTHER -> screen' = screen /\ render' = FullRender

\* The end of a turn: sync_stale_eta_animation(), tick_scroll(), render_frame().
\* The animation may be due; the moving rows may be pausing; the last frame may
\* be less than kMinRenderGapMs old, or the panel unable to begin one.
Animated == IF model.ui = "stale" THEN {Dotted(model, frame) : frame \in Frames} ELSE {}

Draws ==
    /\ phase = "draw"
    /\ phase' = "net"
    /\ model' \in {model} \cup Animated
    /\ \E measured \in {Measured}, over \in BOOLEAN : scroll' = Scrolled(measured, over)
    /\ UNCHANGED <<sessionVars, last, fresh, told>>
    /\ LET animated == IF model' # model THEN EtaRender(render, 1..model.n) ELSE render
           asked == IF Moving(scroll') # {} THEN ScrollRender(animated) ELSE animated
       IN  \/ screen' = screen /\ render' = asked
           \/ asked.dirty /\ DrawsFrame(model', asked, scroll')

\* begin() ends with a full render.
BeginEnds ==
    /\ phase \in {"begin", "ready"}
    /\ phase' = "net"
    /\ UNCHANGED <<sessionVars, last, fresh, scroll, told>>
    /\ \E shown \in Showing(model) :
           model' \in IF shown # model /\ shown.ui = "stale"
                      THEN {Dotted(shown, frame) : frame \in Frames} ELSE {shown}
    /\ DrawsFrame(model', FullRender, scroll)

Environment == LinkChanges \/ SessionLost \/ GraceEnds

Commands ==
    \/ NoCommand
    \/ \E p \in Payloads : ReceivesRows(p)
    \/ ReceivesBlank
    \/ ReceivesDisconnect

MainTask ==
    \/ \E state \in {"Connected", "Connecting", "Disconnected"} : NetworkReports(state)
    \/ BeginConnects
    \/ BeginEnds
    \/ Polls
    \/ Commands
    \/ SamplesEdge
    \/ RequestSwitches
    \/ ShowsState
    \/ Draws

Next == Environment \/ MainTask

Spec == Init /\ [][Next]_vars

(***************************************************************************)
(* Properties.                                                             *)
(***************************************************************************)
\* With no render owed, the panel shows the render model: no change of rows,
\* arrival times, colour or status is lost because a full render was already
\* owed, a partial one replaced it, or the minimum gap held it back.
ScreenShowsModel ==
    ~render.dirty =>
        IF ~InView(model) THEN screen = DrawnFull(model)
        ELSE /\ screen.kind = "rows"
             /\ screen.n = model.n
             /\ \A i \in 1..model.n :
                    /\ screen.rows[i].layout = Layout(model.rows[i])
                    /\ screen.rows[i].part = EtaPart(model.rows[i])
                    /\ screen.rows[i].white = (model.ui = "stale")

\* A label shown displaced belongs to a row that goes on scrolling: whatever
\* ends the scrolling of a row also redraws it, so that no row is left frozen
\* in the middle of its text.
NoRowLeftMidScroll ==
    ~render.dirty =>
        \A i \in RowIds : screen.rows[i].offset # 0 => Scrolls(i) /\ scroll[i].active

\* What was measured of a label was measured of the label now in the row, and
\* only of one that may scroll: no payload, blank or command leaves the scroll
\* state of earlier rows to the rows after them.
ScrollBelongsToRow ==
    InView(model) =>
        \A i \in 1..model.n : scroll[i].width # 0 =>
            /\ model.rows[i].scroll
            /\ scroll[i].width \in {LabelWidth(model.rows[i].label, font) : font \in 1..2}

\* Rows that scroll together start together, turn together and stop at their
\* own ends: each follows the row that has most to show, for every order in
\* which payloads start, end and restart them.
RowsInStep ==
    InView(model) =>
        LET active == {i \in 1..model.n : scroll[i].active} IN
        \A i \in active :
            /\ scroll[i].offset \in (scroll[i].room - scroll[i].width)..0
            /\ scroll[i].returning => scroll[i].offset = scroll[i].room - scroll[i].width
            /\ \A j \in active :
                   scroll[i].width - scroll[i].room <= scroll[j].width - scroll[j].room =>
                       scroll[i] = Follows(scroll[i], scroll[j])

\* An arrival time leaves columns of an earlier one on the panel only if that
\* one had more characters and no full render has come since, as long as it has
\* at most six characters: a longer one starts so far to the left that columns
\* lie between its own three letters and those that are blanked for it.
GhostOnlyWhenShorter ==
    ~render.dirty /\ InView(model) =>
        \A i \in {i \in 1..model.n : model.rows[i].eta.chars <= 2 * EtaChars} :
            screen.rows[i].marks # EtaMarks(model.n, model.rows[i]) =>
                screen.rows[i].widest > model.rows[i].eta.chars

\* A scrolled label never reaches the arrival time beside it, as long as that
\* has at most the three characters the layout reserves room for.
ScrollClearOfEta ==
    InView(model) =>
        \A i \in {i \in 1..model.n : scroll[i].active /\ model.rows[i].eta.chars <= EtaChars} :
            \A g \in {Geometry(model.n, model.rows[i])} :
                ScrollReach(g, model.rows[i].label, scroll[i].offset) < g.eta

\* layout_engine.cpp: stale rows are white, "green for non-delayed live
\* service": rows shown as live are the rows of the last data command.
LiveRowsShowPayload == model.ui = "transit" => model.rows = told.rows

=============================================================================
