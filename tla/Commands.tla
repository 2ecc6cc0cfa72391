------------------------------- MODULE Commands -------------------------------
(***************************************************************************)
(* The data command from its text to the rows a restart shows:             *)
(* DeviceController::handle_command() reads it with PayloadParser and      *)
(* remembers what it read in TransitCache.                                 *)
(***************************************************************************)
EXTENDS TransitCache, PayloadParser

\* "" and the label that stands for all others.
ASSUME LabelsAssumption == "" \in Labels /\ Labels # {""}

CONSTANTS
    Messages,   \* the payloads that come: each the lines it says
    NoMessage

\* What the server may say in a line; its strings are texts.
PossibleLines ==
    [label : Seq(STRING), status : {"ok", "delayed"}, scroll : BOOLEAN, etas : Seq(Seq(STRING)),
     badge : {NoBadge} \cup [shape : {"circle", "pill"}, text : Seq(STRING)]]

ASSUME MessagesAssumption == Messages \subseteq Seq(PossibleLines) /\ NoMessage \notin Messages

VARIABLES
    message,   \* the lines of the command in handle_command(), or NoMessage
    read       \* the rows parse_transit_payload() found in its text

commandsVars == <<vars, message, read>>

CommandsInit == Init /\ message = NoMessage /\ read = <<>>

\* What is read of each payload, once.
Readings == [lines \in Messages |-> RowsOf(MessageText(lines))]

\* The part of a row that is remembered; one label stands for all but "".
Remembered(row) ==
    [label |-> IF row.label = <<>> THEN "" ELSE CHOOSE label \in Labels : label # "",
     scroll |-> row.scroll]

ReadsMessage(lines) ==
    /\ Commanded
    /\ message = NoMessage
    /\ message' = lines
    /\ read' = Readings[lines]
    /\ UNCHANGED vars

\* A payload without a first row changes nothing.
AppliesMessage(written) ==
    /\ message # NoMessage
    /\ message' = NoMessage
    /\ read' = <<>>
    /\ IF read = <<>> THEN UNCHANGED vars
       ELSE ReceivesRows([i \in DOMAIN read |-> Remembered(read[i])], written)

\* The main task handles one command at a time; power fails whenever it likes.
Interrupts == PowerFails /\ message' = NoMessage /\ read' = <<>>

HandlesAnother ==
    /\ message = NoMessage
    /\ UNCHANGED <<message, read>>
    /\ \/ \E erased \in BOOLEAN :
            \/ ReceivesBlank(erased)
            \/ DisconnectErases(erased)
            \/ ReceivesFactoryReset(erased)
       \/ \E clear, restart \in BOOLEAN : ReceivesDisconnect(clear, restart)
       \/ DisconnectEnds
       \/ ResetEnds
       \/ Begins
       \/ PhonePairs

CommandsNext ==
    \/ \E lines \in Messages : ReadsMessage(lines)
    \/ \E written \in BOOLEAN : AppliesMessage(written)
    \/ Interrupts
    \/ HandlesAnother

CommandsSpec == CommandsInit /\ [][CommandsNext]_commandsVars

(***************************************************************************)
(* Properties.                                                             *)
(***************************************************************************)
\* parse_generic_v2_payload() reads the first two lines of a payload as what they
\* say, each its badge, etas, status and label from its own field, as long as the
\* brackets in their strings pair up, they hold no escaped quote, and none is the
\* name of a key behind it that is looked for.
ReadAsMeant ==
    message # NoMessage /\ (\A i \in DOMAIN message : i <= 2 => HarmlessLine(message[i]))
        => read = RowsMeant(message)

=============================================================================
