---------------------------- MODULE DurableRegister ----------------------------
(***************************************************************************)
(* What memory that survives a power failure promises: a restart reads the *)
(* value asked for last or, when storing it failed, the value it read      *)
(* before.  Nothing else, and never a mixture.                             *)
(***************************************************************************)
CONSTANT Values

VARIABLES
    asked,   \* the value last asked to be kept
    kept,    \* the value a restart reads
    sure     \* asked is known to be kept

Init == asked \in Values /\ kept = asked /\ sure = TRUE

Step ==
    /\ asked' \in Values
    /\ kept' \in {kept, asked'}
    /\ sure' \in BOOLEAN
    /\ sure' => kept' = asked'

Spec == Init /\ [][Step]_<<asked, kept, sure>>

=============================================================================
