------------------------------- MODULE OtaUpdate -------------------------------
(***************************************************************************)
(* perform_ota_update(): the download of an image inside the MQTT command  *)
(* callback, with the decoder of chunked bodies it brings, and the restart *)
(* into the image.  Data is counted in blocks.                             *)
(*                                                                         *)
(* A server sends the body in one of three ways: with its length, in       *)
(* chunks, or with neither, which the code takes for chunks.  It may be    *)
(* slower than the stream's timeout at any point, and may close.  Update,  *)
(* the library, writes what it is given and accepts it in end() only when  *)
(* it verifies as an image.                                                *)
(***************************************************************************)
EXTENDS Naturals

CONSTANTS
    ImageBlocks,    \* the image's length
    BufferBlocks    \* sizeof(buf)

ASSUME OtaAssumption == ImageBlocks \in Nat \ {0} /\ BufferBlocks \in Nat \ {0}

VARIABLES
    download,   \* where the download is; "none" when there is none
    open,       \* http.connected(): not closed, or data left to read
    remaining,  \* in step with the server: blocks of the chunk that are not read
    written,    \* blocks of the image that were written in step with the server
    garbled,    \* something else was written too
    image,      \* what the board boots: "old" or "new"
    disturbed   \* history: this download was slow, cut, unframed or refused

otaVars == <<download, open, remaining, written, garbled, image, disturbed>>

Steps == {"none", "length", "size", "data", "trailer", "lost", "end", "restart"}

OtaTypeOK ==
    /\ download \in Steps
    /\ open \in BOOLEAN
    /\ remaining \in 0..ImageBlocks
    /\ written \in 0..ImageBlocks
    /\ garbled \in BOOLEAN
    /\ image \in {"old", "new"}
    /\ disturbed \in BOOLEAN

OtaInit ==
    /\ download = "none"
    /\ open = FALSE
    /\ remaining = 0
    /\ written = 0
    /\ garbled = FALSE
    /\ image = "old"
    /\ disturbed = FALSE

Unread == ImageBlocks - written - remaining

(***************************************************************************)
(* The request.                                                            *)
(***************************************************************************)
UpdateStarts(firstStep) ==
    /\ download = "none"
    /\ download' = firstStep
    /\ open' = TRUE
    /\ UNCHANGED <<remaining, written, garbled, image, disturbed>>

\* GET fails, the server refuses, or Update.begin() finds no room.
UpdateRefused == download = "none" /\ UNCHANGED otaVars

\* A body without a length and without chunks: its first line is no size.
UnframedStarts ==
    /\ download = "none"
    /\ download' = "lost"
    /\ open' = TRUE
    /\ disturbed' = TRUE
    /\ UNCHANGED <<remaining, written, garbled, image>>

\* Update.writeStream() gets all of a body with a length, or gives up.
ReadsByLength ==
    /\ download = "length"
    /\ download' = "end"
    /\ \/ written' = ImageBlocks /\ UNCHANGED disturbed
       \/ disturbed' = TRUE /\ written' \in 0..(ImageBlocks - 1)
    /\ UNCHANGED <<open, remaining, garbled, image>>

(***************************************************************************)
(* The chunk decoder.  At the top of its loop it stops when the connection *)
(* is closed; a line that times out empty is read again.                   *)
(***************************************************************************)
ReadsSize(k) ==
    /\ download = "size"
    /\ open
    /\ k <= Unread
    /\ remaining' = k
    /\ download' = "data"
    /\ UNCHANGED <<open, written, garbled, image, disturbed>>

ReadsLastSize ==
    /\ download = "size"
    /\ open
    /\ Unread = 0
    /\ download' = "end"
    /\ UNCHANGED <<open, remaining, written, garbled, image, disturbed>>

\* Nothing of the line came in time.
SizeIsLate ==
    /\ download = "size"
    /\ open
    /\ UNCHANGED otaVars

\* Half of the line came in time: the number is another one.
SizeIsTorn ==
    /\ download = "size"
    /\ open
    /\ download' = "lost"
    /\ disturbed' = TRUE
    /\ UNCHANGED <<open, remaining, written, garbled, image>>

\* Slip: the loop does not look at the connection.
FindsClosedNever == FALSE

FindsClosed ==
    /\ download \in {"size", "lost"}
    /\ ~open
    /\ download' = "end"
    /\ UNCHANGED <<open, remaining, written, garbled, image, disturbed>>

\* Slip: what was asked for is counted, not what came.
ReadsDataAsAsked(got) ==
    /\ download = "data"
    /\ open
    /\ got <= remaining
    /\ got <= BufferBlocks
    /\ written' = written + got
    /\ remaining' = IF remaining < BufferBlocks THEN 0 ELSE remaining - BufferBlocks
    /\ download' = IF remaining' # 0 THEN "data" ELSE IF got = remaining THEN "trailer" ELSE "lost"
    /\ UNCHANGED <<open, garbled, image, disturbed>>

\* readBytes() returns less than it is asked for when the rest is late.
ReadsData(got) ==
    /\ download = "data"
    /\ open
    /\ got <= remaining
    /\ got <= BufferBlocks
    /\ written' = written + got
    /\ remaining' = remaining - got
    /\ download' = IF remaining' = 0 THEN "trailer" ELSE "data"
    /\ UNCHANGED <<open, garbled, image, disturbed>>

\* Nothing came in time: the rest of the chunk will be read as lines.
DataIsLate ==
    /\ download = "data"
    /\ open
    /\ download' = "lost"
    /\ disturbed' = TRUE
    /\ UNCHANGED <<open, remaining, written, garbled, image>>

DataIsGone ==
    /\ download = "data"
    /\ ~open
    /\ download' = "size"
    /\ UNCHANGED <<open, remaining, written, garbled, image, disturbed>>

\* The line end behind the data; if it is late, the next line read is empty.
ReadsTrailer ==
    /\ download = "trailer"
    /\ download' = "size"
    /\ UNCHANGED <<open, remaining, written, garbled, image, disturbed>>

\* Out of step with the server, image data is read as sizes, and whatever
\* these announce is written, until one reads as zero or the server closes.
\* The program counts on; of what it counts here the model keeps only garbled.
LostGoesOn ==
    /\ download = "lost"
    /\ open
    /\ garbled' \in {garbled, TRUE}
    /\ download' \in {"lost", "end"}
    /\ UNCHANGED <<open, remaining, written, image, disturbed>>

ServerCloses ==
    /\ open
    /\ download \in {"size", "data", "trailer", "lost"}
    /\ open' = FALSE
    /\ disturbed' = TRUE
    /\ UNCHANGED <<download, remaining, written, garbled, image>>

(***************************************************************************)
(* Update.end(true).                                                       *)
(***************************************************************************)
Verifies == written = ImageBlocks /\ ~garbled

UpdateSucceeds ==
    /\ download = "end"
    /\ Verifies
    /\ image' = "new"
    /\ download' = "restart"
    /\ UNCHANGED <<open, remaining, written, garbled, disturbed>>

NoDownload ==
    /\ download' = "none"
    /\ open' = FALSE
    /\ remaining' = 0
    /\ written' = 0
    /\ garbled' = FALSE
    /\ disturbed' = FALSE

UpdateFails ==
    /\ download = "end"
    /\ ~Verifies
    /\ NoDownload
    /\ UNCHANGED image

\* Power fails, or ESP.restart() runs; the next update is another image.
OtaStops == NoDownload /\ image' = "old"

Blocks == 1..ImageBlocks

Transfers ==
    \/ ReadsByLength
    \/ \E k \in Blocks : ReadsSize(k)
    \/ ReadsLastSize
    \/ FindsClosed
    \/ \E got \in Blocks : ReadsData(got)
    \/ DataIsGone
    \/ ReadsTrailer
    \/ UpdateSucceeds
    \/ UpdateFails

Disturbs == SizeIsLate \/ SizeIsTorn \/ DataIsLate \/ LostGoesOn \/ ServerCloses

OtaStarts ==
    \/ UpdateStarts("length")
    \/ UpdateStarts("size")
    \/ UnframedStarts
    \/ UpdateRefused

OtaNext == OtaStarts \/ Transfers \/ Disturbs \/ OtaStops

OtaSpec == OtaInit /\ [][OtaNext]_otaVars

(***************************************************************************)
(* Properties.                                                             *)
(***************************************************************************)
\* An update that ends without an image was disturbed: a body that arrives
\* without a stall or a cut is decoded to the image, whatever chunks the
\* server makes of it and however few blocks a read returns.
WholeBodyInstalls == download = "end" /\ ~Verifies => disturbed

\* Every update comes to an end, even one whose decoder fell out of step with
\* the server, provided the server closes a connection at last.
UpdateEnds == download # "none" ~> download = "none"

=============================================================================
