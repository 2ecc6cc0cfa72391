------------------------------- MODULE OneSlot -------------------------------
(***************************************************************************)
(* What a mailbox with one slot promises: each submission is put whole,    *)
(* the next one replaces it, and it is taken at most once.                 *)
(***************************************************************************)
EXTENDS Naturals

CONSTANT Nothing

VARIABLES
    last,   \* the submission put last
    box,    \* the one that waits to be taken, or Nothing
    got     \* the one taken last, or Nothing

slotVars == <<last, box, got>>

Init == last = 0 /\ box = Nothing /\ got = Nothing

Put ==
    /\ last' = last + 1
    /\ box' = last'
    /\ UNCHANGED got

Take ==
    /\ box # Nothing
    /\ got' = box
    /\ box' = Nothing
    /\ UNCHANGED last

Clear ==
    /\ box' = Nothing
    /\ UNCHANGED <<last, got>>

Next == Put \/ Take \/ Clear

=============================================================================
