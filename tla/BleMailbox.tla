------------------------------ MODULE BleMailbox ------------------------------
(***************************************************************************)
(* BleProvisioner's hand-over of a submission from the NimBLE host task,   *)
(* which runs handle_write(), to the main task, which runs                 *)
(* take_credentials().  The two share pendingCreds_ and the volatile flag  *)
(* credPending_ and hold no lock, so either may stop at any field of its   *)
(* copy.  A field's content is the number of the submission it came from.  *)
(* The copies are calls (strncpy, memcpy), which the compiler leaves in    *)
(* program order with the volatile flag.                                   *)
(*                                                                         *)
(* A write that is too long, asks for a scan or names no network returns   *)
(* before it touches the mailbox and is not modelled.                      *)
(***************************************************************************)
EXTENDS Naturals

CONSTANT MaxSubmissions   \* bound: writes of the phone per behaviour

ASSUME MailboxAssumption == MaxSubmissions \in Nat

VARIABLES
    slot,        \* pendingCreds_, field by field
    pending,     \* credPending_
    received,    \* submissions handle_write() has begun to copy
    writing,     \* the field it copies next; 0 outside handle_write()
    complete,    \* the last submission it finished
    reading,     \* the field take_credentials() copies next; 0 outside it
    out,         \* take_credentials()'s result
    resetting,   \* begin() has lowered the flag and not cleared the fields
    answered,    \* history: `complete` when the last take or begin() started
    collided     \* history: submissions copied while one of the two ran

vars == <<slot, pending, received, writing, complete, reading, out, resetting,
          answered, collided>>

\* ssid, password, username, token and serverUrl, in the order of the struct.
Fields == 1..5
Done == 6
Nothing == 0
Submissions == 0..MaxSubmissions

TypeOK ==
    /\ slot \in [Fields -> Submissions]
    /\ out \in [Fields -> Submissions]
    /\ pending \in BOOLEAN
    /\ resetting \in BOOLEAN
    /\ received \in Submissions
    /\ complete \in Submissions
    /\ answered \in Submissions
    /\ writing \in 0..Done
    /\ reading \in 0..Done
    /\ collided \subseteq Submissions

Init ==
    /\ slot = [f \in Fields |-> Nothing]
    /\ out = [f \in Fields |-> Nothing]
    /\ pending = FALSE
    /\ resetting = FALSE
    /\ received = 0
    /\ complete = 0
    /\ answered = 0
    /\ writing = 0
    /\ reading = 0
    /\ collided = {}

(***************************************************************************)
(* The NimBLE host task.  The flag is raised after the last field; a       *)
(* submission nobody took is overwritten.                                  *)
(***************************************************************************)
WriteBegins ==
    /\ writing = 0
    /\ received < MaxSubmissions
    /\ received' = received + 1
    /\ writing' = 1
    /\ collided' = IF reading # 0 \/ resetting THEN collided \cup {received'} ELSE collided
    /\ UNCHANGED <<slot, pending, complete, reading, out, resetting, answered>>

WritesField ==
    /\ writing \in Fields
    /\ slot' = [slot EXCEPT ![writing] = received]
    /\ writing' = writing + 1
    /\ UNCHANGED <<pending, received, complete, reading, out, resetting, answered, collided>>

\* Slip: the flag is toggled.
TogglesFlag ==
    /\ writing = Done
    /\ pending' = ~pending
    /\ complete' = received
    /\ writing' = 0
    /\ UNCHANGED <<slot, received, reading, out, resetting, answered, collided>>

RaisesFlag ==
    /\ writing = Done
    /\ pending' = TRUE
    /\ complete' = received
    /\ writing' = 0
    /\ UNCHANGED <<slot, received, reading, out, resetting, answered, collided>>

(***************************************************************************)
(* The main task.  The flag is lowered after the last field.               *)
(***************************************************************************)
Idle == reading = 0 /\ ~resetting

\* A take or begin() starts: a write under way runs into it.
MainTaskStarts ==
    /\ answered' = complete
    /\ collided' = IF writing # 0 THEN collided \cup {received} ELSE collided

FindsNothing ==
    /\ Idle
    /\ ~pending
    /\ UNCHANGED vars

TakeBegins ==
    /\ Idle
    /\ pending
    /\ reading' = 1
    /\ MainTaskStarts
    /\ UNCHANGED <<slot, pending, received, writing, complete, out, resetting>>

\* Slip: the last field is not copied.
ReadsAllButLast ==
    /\ reading \in Fields
    /\ out' = [out EXCEPT ![reading] = IF reading = 5 THEN out[5] ELSE slot[reading]]
    /\ reading' = reading + 1
    /\ UNCHANGED <<slot, pending, received, writing, complete, resetting, answered, collided>>

ReadsField ==
    /\ reading \in Fields
    /\ out' = [out EXCEPT ![reading] = slot[reading]]
    /\ reading' = reading + 1
    /\ UNCHANGED <<slot, pending, received, writing, complete, resetting, answered, collided>>

LowersFlag ==
    /\ reading = Done
    /\ pending' = FALSE
    /\ reading' = 0
    /\ UNCHANGED <<slot, received, writing, complete, out, resetting, answered, collided>>

\* begin(), which disconnect_wifi calls to restart provisioning: the flag,
\* then the fields.
BeginLowersFlag ==
    /\ Idle
    /\ pending' = FALSE
    /\ resetting' = TRUE
    /\ MainTaskStarts
    /\ UNCHANGED <<slot, received, writing, complete, reading, out>>

BeginClearsFields ==
    /\ resetting
    /\ slot' = [f \in Fields |-> Nothing]
    /\ resetting' = FALSE
    /\ UNCHANGED <<pending, received, writing, complete, reading, out, answered, collided>>

Next ==
    \/ WriteBegins
    \/ WritesField
    \/ RaisesFlag
    \/ FindsNothing
    \/ TakeBegins
    \/ ReadsField
    \/ LowersFlag
    \/ BeginLowersFlag
    \/ BeginClearsFields

Spec == Init /\ [][Next]_vars

(***************************************************************************)
(* Properties.                                                             *)
(***************************************************************************)
\* A take returns one submission, the newest, whole, unless that submission
\* or a newer one was copied while the main task was at the mailbox: only
\* such a collision can join one network's name with another submission's
\* password or pairing token, or with the emptiness begin() leaves.
TornOnlyByOverlap ==
    [][LowersFlag /\ complete \notin collided /\ received \notin collided
         => out = [f \in Fields |-> complete]]_vars

\* A finished submission waits for the main task until a take or begin() that
\* started after it was finished: only one that ran into an earlier take or
\* begin() can vanish, when the flag raised for it is lowered.
LostOnlyByOverlap ==
    ~pending /\ complete \notin collided => answered = complete

\* The slot the two copies stand for: the flag puts a submission into it when
\* its copy is complete, and a take has it from the first field on.
Slot == INSTANCE OneSlot WITH
    last <- complete,
    box <- IF pending /\ reading = 0 THEN complete ELSE Nothing,
    got <- IF reading # 0 THEN complete ELSE out[1]

\* As long as no copy was run into, handle_write() and take_credentials() hand
\* over as if every write and every take were one step.
HandsOverAtomically == [][collided' = {} => [Slot!Next]_(Slot!slotVars)]_vars

=============================================================================
