--------------------------- MODULE BleMailboxProofs ---------------------------
(***************************************************************************)
(* Proofs about BleMailbox, for any number of submissions.                 *)
(***************************************************************************)
EXTENDS BleMailbox, TLAPS

\* handle_write(): what the fields hold unless the copy was run into.
WriteInv ==
    /\ writing = 0 => received = complete
    /\ writing = 0 /\ pending /\ complete \notin collided =>
          \A f \in Fields : slot[f] = complete
    /\ writing # 0 /\ received \notin collided =>
          \A f \in Fields : f < writing => slot[f] = received

\* take_credentials() and begin(): a copy that starts or ends while one of
\* them runs is known to have been run into.
TakeInv ==
    /\ reading # 0 => pending /\ ~resetting
    /\ reading # 0 /\ received \notin collided /\ complete \notin collided =>
          writing = 0 /\ \A f \in Fields : f < reading => out[f] = complete
    /\ resetting /\ writing # 0 => received \in collided
    /\ resetting /\ pending => complete \in collided

\* What the main task is at, or has been at, is the newest submission.
AnsweredInv ==
    /\ complete \notin collided /\ (reading # 0 \/ resetting \/ ~pending) =>
          answered = complete
    /\ (reading # 0 \/ resetting) /\ writing # 0 => received \in collided

MailboxInv == TypeOK /\ WriteInv /\ TakeInv /\ AnsweredInv

\* The types of the empty mailbox.
LEMMA MailboxTypeInit == Init => TypeOK
<1> SUFFICES ASSUME Init PROVE TypeOK
  OBVIOUS
<1>1. Nothing \in Submissions
  BY MailboxAssumption DEF Nothing, Submissions
<1>2. slot \in [Fields -> Submissions] /\ out \in [Fields -> Submissions]
  BY <1>1 DEF Init
<1>3. pending \in BOOLEAN /\ resetting \in BOOLEAN /\ collided \subseteq Submissions
  BY DEF Init
<1>4. /\ received \in Submissions /\ complete \in Submissions /\ answered \in Submissions
      /\ writing \in 0..Done /\ reading \in 0..Done
  BY <1>1 DEF Init, Nothing, Done
<1> QED
  BY <1>2, <1>3, <1>4 DEF TypeOK

\* Every step of either task keeps the types.
LEMMA MailboxTypeStep == TypeOK /\ [Next]_vars => TypeOK'
<1> SUFFICES ASSUME TypeOK, [Next]_vars PROVE TypeOK'
  OBVIOUS
<1> USE MailboxAssumption DEF TypeOK
<1>1. CASE WriteBegins
  BY <1>1 DEF WriteBegins, Submissions, Done
<1>2. CASE WritesField
  BY <1>2 DEF WritesField, Fields, Done
<1>3. CASE RaisesFlag
  BY <1>3 DEF RaisesFlag, Done
<1>4. CASE TakeBegins
  BY <1>4 DEF TakeBegins, MainTaskStarts, Done
<1>5. CASE ReadsField
  BY <1>5 DEF ReadsField, Fields, Done
<1>6. CASE LowersFlag
  <2>1. pending' = FALSE /\ reading' = 0
    BY <1>6 DEF LowersFlag
  <2>2. 0 \in 0..Done
    BY DEF Done
  <2> QED
    BY <1>6, <2>1, <2>2 DEF LowersFlag
<1>7. CASE BeginLowersFlag
  <2>1. pending' \in BOOLEAN /\ resetting' \in BOOLEAN
    BY <1>7 DEF BeginLowersFlag
  <2> QED
    BY <1>7, <2>1 DEF BeginLowersFlag, MainTaskStarts
<1>8. CASE BeginClearsFields
  <2>1. Nothing \in Submissions
    BY DEF Nothing, Submissions
  <2>2. slot' \in [Fields -> Submissions] /\ resetting' \in BOOLEAN
    BY <1>8, <2>1 DEF BeginClearsFields
  <2> QED
    BY <1>8, <2>2 DEF BeginClearsFields
<1>9. CASE FindsNothing \/ UNCHANGED vars
  BY <1>9 DEF FindsNothing, vars
<1> QED
  BY <1>1, <1>2, <1>3, <1>4, <1>5, <1>6, <1>7, <1>8, <1>9 DEF Next

\* Every step of either task keeps the rest of the invariant.
LEMMA MailboxStep == MailboxInv /\ [Next]_vars => MailboxInv'
<1> SUFFICES ASSUME MailboxInv, [Next]_vars PROVE MailboxInv'
  OBVIOUS
<1>0. TypeOK'
  BY MailboxTypeStep DEF MailboxInv
<1> USE DEF MailboxInv, TypeOK, Fields, Done
<1>1. CASE WriteBegins
  <2> USE <1>1 DEF WriteBegins
  <2>1. WriteInv'
    BY DEF WriteInv, TakeInv
  <2>2. TakeInv'
    BY DEF TakeInv, WriteInv
  <2>3. AnsweredInv'
    BY DEF AnsweredInv, TakeInv, WriteInv
  <2> QED
    BY <1>0, <2>1, <2>2, <2>3
<1>2. CASE WritesField
  <2> USE <1>2 DEF WritesField
  <2>1. WriteInv'
    BY DEF WriteInv, TakeInv
  <2>2. TakeInv'
    BY DEF TakeInv, WriteInv
  <2>3. AnsweredInv'
    BY DEF AnsweredInv, TakeInv, WriteInv
  <2> QED
    BY <1>0, <2>1, <2>2, <2>3
<1>3. CASE RaisesFlag
  <2> USE <1>3 DEF RaisesFlag
  <2>1. WriteInv'
    BY DEF WriteInv, TakeInv
  <2>2. TakeInv'
    BY DEF TakeInv, AnsweredInv
  <2>3. AnsweredInv'
    BY DEF AnsweredInv, TakeInv, WriteInv
  <2> QED
    BY <1>0, <2>1, <2>2, <2>3
<1>4. CASE TakeBegins
  <2> USE <1>4 DEF TakeBegins, MainTaskStarts, Idle
  <2>1. WriteInv'
    BY DEF WriteInv, TakeInv
  <2>2. TakeInv'
    BY DEF TakeInv, WriteInv
  <2>3. AnsweredInv'
    BY DEF AnsweredInv, TakeInv, WriteInv
  <2> QED
    BY <1>0, <2>1, <2>2, <2>3
<1>5. CASE ReadsField
  <2> USE <1>5 DEF ReadsField
  <2>1. WriteInv'
    BY DEF WriteInv, TakeInv
  <2>2. TakeInv'
    BY DEF TakeInv, WriteInv
  <2>3. AnsweredInv'
    BY DEF AnsweredInv, TakeInv, WriteInv
  <2> QED
    BY <1>0, <2>1, <2>2, <2>3
<1>6. CASE LowersFlag
  <2> USE <1>6 DEF LowersFlag
  <2>1. WriteInv'
    BY DEF WriteInv, TakeInv
  <2>2. TakeInv'
    BY DEF TakeInv, WriteInv
  <2>3. AnsweredInv'
    BY DEF AnsweredInv, TakeInv, WriteInv
  <2> QED
    BY <1>0, <2>1, <2>2, <2>3
<1>7. CASE BeginLowersFlag
  <2> USE <1>7 DEF BeginLowersFlag, MainTaskStarts, Idle
  <2>1. WriteInv'
    BY DEF WriteInv, TakeInv
  <2>2. TakeInv'
    BY DEF TakeInv, WriteInv
  <2>3. AnsweredInv'
    BY DEF AnsweredInv, TakeInv, WriteInv
  <2> QED
    BY <1>0, <2>1, <2>2, <2>3
<1>8. CASE BeginClearsFields
  <2> USE <1>8 DEF BeginClearsFields
  <2>1. WriteInv'
    BY DEF WriteInv, TakeInv
  <2>2. TakeInv'
    BY DEF TakeInv, WriteInv
  <2>3. AnsweredInv'
    BY DEF AnsweredInv, TakeInv, WriteInv
  <2> QED
    BY <1>0, <2>1, <2>2, <2>3
<1>9. CASE FindsNothing \/ UNCHANGED vars
  BY <1>0, <1>9 DEF FindsNothing, vars, WriteInv, TakeInv, AnsweredInv
<1> QED
  BY <1>1, <1>2, <1>3, <1>4, <1>5, <1>6, <1>7, <1>8, <1>9 DEF Next

\* The invariant holds throughout.
LEMMA MailboxAlways == Spec => []MailboxInv
<1>1. Init => MailboxInv
  BY MailboxTypeInit
     DEF MailboxInv, Init, WriteInv, TakeInv, AnsweredInv, Fields, Done, Nothing
<1> QED
  BY <1>1, MailboxStep, PTL DEF Spec

\* The two copies stay within the fields and the submissions there have been.
THEOREM MailboxTypes == Spec => []TypeOK
<1>1. MailboxInv => TypeOK
  BY DEF MailboxInv
<1> QED
  BY <1>1, MailboxAlways, PTL

\* A finished submission is waiting, was taken or was cleared by begin(),
\* unless it was copied while the main task was at the mailbox.
THEOREM NothingLostOtherwise == Spec => []LostOnlyByOverlap
<1>1. MailboxInv => LostOnlyByOverlap
  BY DEF MailboxInv, AnsweredInv, LostOnlyByOverlap
<1> QED
  BY <1>1, MailboxAlways, PTL

\* take_credentials() returns one whole submission, the newest, unless a copy
\* was run into.
THEOREM WholeUnlessOverlapped == Spec => TornOnlyByOverlap
<1> DEFINE Whole == LowersFlag /\ complete \notin collided /\ received \notin collided
                      => out = [f \in Fields |-> complete]
<1>1. MailboxInv => Whole
  BY DEF MailboxInv, TakeInv, TypeOK, LowersFlag, Fields, Done
<1>2. MailboxInv => [Whole]_vars
  BY <1>1
<1> QED
  BY <1>2, MailboxAlways, PTL DEF Spec, TornOnlyByOverlap

\* handle_write() copies one submission after the other, and raises the flag
\* for one only.
CountInv ==
    /\ writing # 0 => received = complete + 1
    /\ pending => complete # Nothing

\* Every step of either task keeps the count.
LEMMA CountStep == MailboxInv /\ CountInv /\ [Next]_vars => CountInv'
<1> SUFFICES ASSUME MailboxInv, CountInv, [Next]_vars PROVE CountInv'
  OBVIOUS
<1>0. received \in Nat /\ complete \in Nat /\ (writing = 0 => received = complete)
  BY MailboxAssumption DEF MailboxInv, TypeOK, WriteInv, Submissions
<1> USE DEF CountInv
<1>1. CASE WriteBegins
  BY <1>0, <1>1 DEF WriteBegins
<1>2. CASE WritesField
  <2>1. writing # 0
    BY <1>2 DEF WritesField, Fields
  <2> QED
    BY <1>2, <2>1 DEF WritesField
<1>3. CASE RaisesFlag
  <2>1. writing # 0
    BY <1>3 DEF RaisesFlag, Done
  <2>2. received # Nothing
    BY <1>0, <2>1 DEF Nothing
  <2> QED
    BY <1>3, <2>2 DEF RaisesFlag
<1>4. CASE TakeBegins \/ ReadsField \/ LowersFlag
  BY <1>4 DEF TakeBegins, ReadsField, LowersFlag
<1>5. CASE BeginLowersFlag \/ BeginClearsFields \/ FindsNothing \/ UNCHANGED vars
  BY <1>5 DEF BeginLowersFlag, BeginClearsFields, FindsNothing, vars
<1> QED
  BY <1>1, <1>2, <1>3, <1>4, <1>5 DEF Next

\* A step of the two tasks is one of the slot or none, unless a copy was run
\* into.
LEMMA SlotStep ==
  ASSUME MailboxInv, CountInv, [Next]_vars, collided' = {}
  PROVE  [Slot!Next]_(Slot!slotVars)
<1> DEFINE box == IF pending /\ reading = 0 THEN complete ELSE Nothing
           got == IF reading # 0 THEN complete ELSE out[1]
<1>0. Slot!Next <=>
        \/ complete' = complete + 1 /\ box' = complete' /\ got' = got
        \/ box # Nothing /\ got' = box /\ box' = Nothing /\ complete' = complete
        \/ box' = Nothing /\ complete' = complete /\ got' = got
  BY DEF Slot!Next, Slot!Put, Slot!Take, Slot!Clear
<1>01. complete' = complete /\ box' = box /\ got' = got => UNCHANGED Slot!slotVars
  BY DEF Slot!slotVars
<1>1. CASE WriteBegins \/ WritesField \/ BeginClearsFields \/ FindsNothing \/ UNCHANGED vars
  <2>1. UNCHANGED <<pending, reading, complete, out>>
    BY <1>1 DEF WriteBegins, WritesField, BeginClearsFields, FindsNothing, vars
  <2> QED
    BY <1>01, <2>1
<1>2. CASE RaisesFlag
  <2>1. writing # 0 /\ collided = {}
    BY <1>2 DEF RaisesFlag, Done
  <2>2. reading = 0
    BY <2>1 DEF MailboxInv, AnsweredInv
  <2>3. complete' = complete + 1 /\ pending' /\ reading' = 0 /\ out' = out
    BY <1>2, <2>1, <2>2 DEF RaisesFlag, CountInv
  <2> QED
    BY <1>0, <2>2, <2>3
<1>3. CASE TakeBegins
  <2>1. reading = 0 /\ pending /\ complete # Nothing /\ reading' # 0 /\ complete' = complete
    BY <1>3 DEF TakeBegins, Idle, CountInv
  <2> QED
    BY <1>0, <2>1
<1>4. CASE ReadsField
  <2>1. reading # 0 /\ reading' # 0 /\ complete' = complete
    BY <1>4 DEF ReadsField, Fields
  <2> QED
    BY <1>01, <2>1
<1>5. CASE LowersFlag
  <2>1. reading = 6 /\ reading' = 0 /\ ~pending' /\ complete' = complete /\ out' = out
        /\ collided = {}
    BY <1>5 DEF LowersFlag, Done
  <2>2. \A f \in Fields : f < reading => out[f] = complete
    BY <2>1 DEF MailboxInv, TakeInv
  <2>3. 1 \in Fields /\ 1 < reading
    BY <2>1 DEF Fields
  <2>4. out[1] = complete
    BY <2>2, <2>3
  <2> QED
    BY <1>01, <2>1, <2>4
<1>6. CASE BeginLowersFlag
  <2>1. reading = 0 /\ ~pending' /\ UNCHANGED <<reading, complete, out>>
    BY <1>6 DEF BeginLowersFlag, Idle
  <2> QED
    BY <1>0, <2>1
<1> QED
  BY <1>1, <1>2, <1>3, <1>4, <1>5, <1>6 DEF Next

\* Until a copy is run into, the mailbox without a lock is one slot that is
\* written and emptied in single steps: no submission is taken twice, and none
\* is taken after a newer one was put.
THEOREM HandOverIsAtomic == Spec => Slot!Init /\ HandsOverAtomically
<1> DEFINE Kept == collided' = {} => [Slot!Next]_(Slot!slotVars)
<1>1. Init => CountInv /\ Slot!Init
  BY DEF Init, CountInv, Slot!Init, Fields, Nothing
<1>2. MailboxInv /\ CountInv /\ [Next]_vars => [Kept]_vars
  BY SlotStep
<1> QED
  BY <1>1, <1>2, CountStep, MailboxAlways, PTL DEF Spec, HandsOverAtomically

===============================================================================
