-------------------------------- MODULE WifiScan --------------------------------
(***************************************************************************)
(* A scan for the phone: the BLE host task raises bleScanPending_, tick()  *)
(* on the main task lowers it and runs scan_and_emit(), which blocks while *)
(* the radio scans and then notifies the networks three at a time.  The    *)
(* host task runs on all the while, so requests arrive during a scan.      *)
(*                                                                         *)
(* A network is one of a few kinds of name; its signal is left out.        *)
(***************************************************************************)
EXTENDS Naturals, Sequences

CONSTANTS
    MaxNetworks,    \* bound: networks of a scan
    MaxRequests     \* bound: requests of the phone

ASSUME ScanAssumption == MaxNetworks \in Nat /\ MaxRequests \in Nat

VARIABLES
    listening,  \* set_scan_callback() has run
    pending,    \* bleScanPending_
    job,        \* what tick() is at: "loop", "scanning" or "notifying"
    found,      \* the networks the driver holds
    chunk,      \* the chunk that is notified next, from 0
    text,       \* the list in the last notification of this scan
    asked,      \* requests the callback was called for
    begun,      \* history: `asked` when the last scan began
    answered,   \* history: `begun` when the last scan had been notified
    reported    \* history: the networks notified in this scan

scanVars == <<listening, pending, job, found, chunk, text, asked, begun, answered, reported>>

\* "hidden" has an empty name, that of "long" the 32 bytes a name can have.
\* Characters that JSON wants escaped are left out.
Networks == {"hidden", "long"}
NameLength == [hidden |-> 0, long |-> 32]

Scans == UNION {[1..n -> Networks] : n \in 0..MaxNetworks}

ScanInit ==
    /\ listening = FALSE
    /\ pending = FALSE
    /\ job = "loop"
    /\ found = <<>>
    /\ chunk = 0
    /\ text = <<>>
    /\ asked = 0
    /\ begun = 0
    /\ answered = 0
    /\ reported = <<>>

(***************************************************************************)
(* The text of a chunk, as its list of networks and commas.  Bytes are     *)
(* counted as the code counts them in `pos`.                               *)
(***************************************************************************)
PerChunk == 3

Header == 36        \* {"c":,"t":,"n":[ and two numbers of the ten digits an int can have
Entry == 23         \* {"s":"","r":-100,"e":4} without the name
BufferLimit == 256 - 40

Width(token) == IF token = "comma" THEN 1 ELSE Entry + NameLength[token]

Bytes(list) ==
    LET upTo[i \in 0..Len(list)] == IF i = 0 THEN Header ELSE upTo[i - 1] + Width(list[i])
    IN  upTo[Len(list)]

\* The body of the loop: the i-th network of the chunk.
AddsNetwork(list, networks, i) ==
    IF Bytes(list) >= BufferLimit \/ networks[i] = "hidden"
    THEN list
    ELSE list \o (IF i > 1 THEN <<"comma">> ELSE <<>>) \o <<networks[i]>>

ListOf(networks) ==
    LET upTo[i \in 0..Len(networks)] ==
            IF i = 0 THEN <<>> ELSE AddsNetwork(upTo[i - 1], networks, i)
    IN  upTo[Len(networks)]

\* Slip: the division rounds down.
FullChunks(n) == n \div PerChunk

TotalChunks(n) == (n + PerChunk - 1) \div PerChunk

\* The c-th chunk's networks.
ChunkOf(networks, c) ==
    LET last == (c + 1) * PerChunk
    IN  SubSeq(networks, c * PerChunk + 1, IF last < Len(networks) THEN last ELSE Len(networks))

\* A list without the entries that are `token`.
Without(list, token) ==
    LET upTo[i \in 0..Len(list)] ==
            IF i = 0 THEN <<>>
            ELSE IF list[i] = token THEN upTo[i - 1]
            ELSE Append(upTo[i - 1], list[i])
    IN  upTo[Len(list)]

(***************************************************************************)
(* The host task.  A request before set_scan_callback() changes nothing.   *)
(***************************************************************************)
StartsListening ==
    /\ ~listening
    /\ listening' = TRUE
    /\ pending' = FALSE
    /\ UNCHANGED <<job, found, chunk, text, asked, begun, answered, reported>>

PhoneAsks ==
    /\ listening
    /\ asked < MaxRequests
    /\ asked' = asked + 1
    /\ pending' = TRUE
    /\ UNCHANGED <<listening, job, found, chunk, text, begun, answered, reported>>

(***************************************************************************)
(* The main task.                                                          *)
(***************************************************************************)
TickFindsRequest ==
    /\ listening
    /\ job = "loop"
    /\ pending
    /\ pending' = FALSE
    /\ job' = "scanning"
    /\ begun' = asked
    /\ UNCHANGED <<listening, found, chunk, text, asked, answered, reported>>

\* A scan that fails reads as one that finds nothing; both are told at once.
ScanFindsNothing ==
    /\ job = "scanning"
    /\ job' = "loop"
    /\ answered' = begun
    /\ UNCHANGED <<listening, pending, found, chunk, text, asked, begun, reported>>

ScanFinds(networks) ==
    /\ job = "scanning"
    /\ networks # <<>>
    /\ job' = "notifying"
    /\ found' = networks
    /\ UNCHANGED <<listening, pending, chunk, text, asked, begun, answered, reported>>

AllNotified == chunk = TotalChunks(Len(found))

NotifiesChunk ==
    /\ job = "notifying"
    /\ ~AllNotified
    /\ text' = ListOf(ChunkOf(found, chunk))
    /\ reported' = reported \o Without(text', "comma")
    /\ chunk' = chunk + 1
    /\ UNCHANGED <<listening, pending, job, found, asked, begun, answered>>

ScanDeleted ==
    /\ job' = "loop"
    /\ found' = <<>>
    /\ chunk' = 0
    /\ text' = <<>>
    /\ reported' = <<>>
    /\ answered' = begun

\* Slip: the flag is lowered when the scan is over.
ScanEndsAndLowersFlag ==
    /\ job = "notifying"
    /\ AllNotified
    /\ ScanDeleted
    /\ pending' = FALSE
    /\ UNCHANGED <<listening, asked, begun>>

ScanEnds ==
    /\ job = "notifying"
    /\ AllNotified
    /\ ScanDeleted
    /\ UNCHANGED <<listening, pending, asked, begun>>

ScanGoesOn ==
    \/ ScanFindsNothing
    \/ \E networks \in Scans : ScanFinds(networks)
    \/ NotifiesChunk
    \/ ScanEnds

ScanNext == StartsListening \/ PhoneAsks \/ TickFindsRequest \/ ScanGoesOn

ScanSpec == ScanInit /\ [][ScanNext]_scanVars

(***************************************************************************)
(* Properties.                                                             *)
(***************************************************************************)
\* Every request that was heard is answered by a scan that began after it,
\* even one made while another scan was under way or being notified, unless
\* the device restarts.
ScanAnswered == \A r \in 1..MaxRequests : asked >= r ~> answered >= r \/ ~listening

\* What the phone is sent is every network with a name, once and in order:
\* no chunk is cut by the limit of its buffer, and none is skipped between
\* two chunks.
NamedAreReported ==
    job = "notifying" /\ AllNotified =>
        reported = Without(found, "hidden")

\* wifi_manager.h promises that each chunk is a self-contained JSON object:
\* its list is networks with commas between them.
ChunkIsJson == \A i \in DOMAIN text : i % 2 = 0 <=> text[i] = "comma"

=============================================================================
